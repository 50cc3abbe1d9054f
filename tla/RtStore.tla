------------------------------- MODULE RtStore -------------------------------
(***************************************************************************)
(* The NVS-backed parameter store shared in design by                      *)
(* src/runtime_combo_store.c, src/runtime_holdtap_store.c and              *)
(* src/runtime_condlayer_store.c: a table of entries, each pointing at the *)
(* live struct its engine reads, with the devicetree default and the       *)
(* value last saved beside it.  The line numbers of the map are those of   *)
(* the combo store; the other two differ in names only.                    *)
(*                                                                         *)
(* Three things run: boot (every entry registers, then settings_load hands *)
(* each stored key to the settings callback), the single Studio RPC thread *)
(* (set, reset, clear_all, one call at a time), and a power cut, possible  *)
(* at any moment.  Flash (nvs) survives a power cut, everything else is    *)
(* RAM.  The live struct is written field by field: the engines read it    *)
(* without the store's mutex, so every partial copy is a visible state.    *)
(***************************************************************************)
EXTENDS Integers, FiniteSets

CONSTANTS
    Entries,        \* the size of the table
    Registered,     \* the entries some devicetree node registers at init
    Field,          \* the fields of the parameter struct
    Datum,          \* the values a field can take
    DtDefault,      \* the devicetree default of every entry
    Absent,         \* no key in flash / has_saved = false
    DeleteMayFail   \* can settings_delete return an error?

Index == 0 .. Entries - 1
Params == [Field -> Datum]
Cell == Params \cup {Absent}

ASSUME StoreAssumption ==
    /\ Entries \in Nat \ {0}
    /\ Registered \subseteq Index
    /\ Datum # {}
    /\ DtDefault \in [Index -> Params]
    /\ Absent \notin Params
    /\ DeleteMayFail \in BOOLEAN

VARIABLES
    nvs,         \* flash: the value stored under each key, or Absent
    live,        \* the struct each registered engine reads
    saved,       \* entries[].saved, Absent when has_saved is false
    registered,  \* the entries whose registered flag is set
    boot,        \* "init" (registration), "load" (settings_load), "run"
    toLoad,      \* keys settings_load has still to hand to the callback
    pc,          \* where the RPC thread is in the store
    op,          \* the call it executes: "set" or "reset" (clear_all = reset of all)
    entry,       \* the entry it works on
    last,        \* the last one it has to: clear_all counts up to it
    params,      \* the value it copies into the live struct
    left,        \* the fields of that copy still to be written
    rc           \* its result: "none" while it runs, "ok", "error", "lost" in a power cut

table == <<live, saved, registered>>
call == <<pc, op, entry, last, params, left, rc>>
vars == <<nvs, live, saved, registered, boot, toLoad,
          pc, op, entry, last, params, left, rc>>

\* What the entry will hold after a power cycle.
Durable(i) == IF nvs[i] = Absent THEN DtDefault[i] ELSE nvs[i]

\* The entries the running call has not finished with.
InHand == IF pc = "idle" THEN {} ELSE entry .. last

-----------------------------------------------------------------------------
Init ==
    /\ nvs = [i \in Index |-> Absent]
    /\ live = [i \in Registered |-> DtDefault[i]]
    /\ saved = [i \in Index |-> Absent]
    /\ registered = {}
    /\ boot = "init"
    /\ toLoad = {}
    /\ pc = "idle" /\ op = "none" /\ entry = 0 /\ last = 0 /\ left = {} /\ rc = "lost"
    /\ params = [f \in Field |-> CHOOSE d \in Datum : TRUE]

-----------------------------------------------------------------------------
(* Boot. *)

Register(i) ==
    /\ boot = "init"
    /\ i \in Registered \ registered
    /\ registered' = registered \cup {i}
    /\ live' = [live EXCEPT ![i] = IF saved[i] # Absent THEN saved[i] ELSE @]
    /\ UNCHANGED <<nvs, saved, boot, toLoad, call>>

StartLoad ==
    /\ boot = "init"
    /\ registered = Registered
    /\ boot' = "load"
    /\ toLoad' = {i \in Index : nvs[i] # Absent}
    /\ UNCHANGED <<nvs, table, call>>

\* Slip: the callback leaves applying the value to a later register.
SettingsSetLate(i) ==
    /\ boot = "load"
    /\ i \in toLoad
    /\ toLoad' = toLoad \ {i}
    /\ saved' = [saved EXCEPT ![i] = nvs[i]]
    /\ UNCHANGED <<nvs, live, registered, boot, call>>

\* The settings callback, once per stored key.
SettingsSet(i) ==
    /\ boot = "load"
    /\ i \in toLoad
    /\ toLoad' = toLoad \ {i}
    /\ saved' = [saved EXCEPT ![i] = nvs[i]]
    /\ live' = IF i \in registered THEN [live EXCEPT ![i] = nvs[i]] ELSE live
    /\ UNCHANGED <<nvs, registered, boot, call>>

LoadDone ==
    /\ boot = "load"
    /\ toLoad = {}
    /\ boot' = "run"
    /\ UNCHANGED <<nvs, table, toLoad, call>>

-----------------------------------------------------------------------------
(* The calls of the RPC thread. *)

Ready == boot = "run" /\ pc = "idle"

\* rt_*_get: copies the live struct out, for a registered entry only.
GetCall(i) ==
    /\ Ready
    /\ rc' = IF i \in registered THEN "ok" ELSE "error"
    /\ UNCHANGED <<nvs, table, boot, toLoad, pc, op, entry, last, params, left>>

\* rt_*_set: the index is in range, settings_save_one comes next.
SetCall(i, p) ==
    /\ Ready
    /\ pc' = "save" /\ op' = "set" /\ entry' = i /\ last' = i
    /\ params' = p /\ rc' = "none"
    /\ UNCHANGED <<nvs, table, boot, toLoad, left>>

\* settings_save_one succeeds; the live struct is copied only if registered.
SaveOk ==
    /\ pc = "save"
    /\ nvs' = [nvs EXCEPT ![entry] = params]
    /\ pc' = "copy"
    /\ left' = IF entry \in registered THEN Field ELSE {}
    /\ UNCHANGED <<table, boot, toLoad, op, entry, last, params, rc>>

\* Slip: the return code of settings_save_one is dropped.
SaveFailsUnnoticed ==
    /\ pc = "save"
    /\ pc' = "copy"
    /\ left' = IF entry \in registered THEN Field ELSE {}
    /\ UNCHANGED <<nvs, table, boot, toLoad, op, entry, last, params, rc>>

SaveFails ==
    /\ pc = "save"
    /\ pc' = "idle" /\ op' = "none" /\ entry' = 0 /\ last' = 0 /\ rc' = "error"
    /\ UNCHANGED <<nvs, table, boot, toLoad, params, left>>

\* rt_*_reset of one entry, rt_*_clear_all of every entry.
ResetCall(a, b) ==
    /\ Ready
    /\ pc' = "delete" /\ op' = "reset" /\ entry' = a /\ last' = b /\ rc' = "none"
    /\ UNCHANGED <<nvs, table, boot, toLoad, params, left>>

\* Slip: the key is not deleted.
DeleteForgotten ==
    /\ pc = "delete"
    /\ pc' = "copy"
    /\ params' = DtDefault[entry]
    /\ left' = IF entry \in registered THEN Field ELSE {}
    /\ UNCHANGED <<nvs, table, boot, toLoad, op, entry, last, rc>>

\* The result of settings_delete is not looked at.
Delete ==
    /\ pc = "delete"
    /\ \/ nvs' = [nvs EXCEPT ![entry] = Absent]
       \/ DeleteMayFail /\ UNCHANGED nvs
    /\ pc' = "copy"
    /\ params' = DtDefault[entry]
    /\ left' = IF entry \in registered THEN Field ELSE {}
    /\ UNCHANGED <<table, boot, toLoad, op, entry, last, rc>>

\* One field of "*live = ...", in whatever order the compiler chose.
CopyField(f) ==
    /\ pc = "copy"
    /\ f \in left
    /\ live' = [live EXCEPT ![entry][f] = params[f]]
    /\ left' = left \ {f}
    /\ UNCHANGED <<nvs, saved, registered, boot, toLoad, pc, op, entry, last, params, rc>>

\* The mutex is released; clear_all goes on with the next entry.
CopyDone ==
    /\ pc = "copy"
    /\ left = {}
    /\ saved' = [saved EXCEPT ![entry] = IF op = "set" THEN params ELSE Absent]
    /\ IF entry = last
         THEN pc' = "idle" /\ op' = "none" /\ entry' = 0 /\ last' = 0 /\ rc' = "ok"
         ELSE pc' = "delete" /\ entry' = entry + 1 /\ UNCHANGED <<op, last, rc>>
    /\ UNCHANGED <<nvs, live, registered, boot, toLoad, params, left>>

\* Index out of range, undecodable request, unknown field, unregistered entry.
Refuse ==
    /\ Ready
    /\ rc' = "error"
    /\ UNCHANGED <<nvs, table, boot, toLoad, pc, op, entry, last, params, left>>

PowerCut ==
    /\ live' = [i \in Registered |-> DtDefault[i]]
    /\ saved' = [i \in Index |-> Absent]
    /\ registered' = {}
    /\ boot' = "init"
    /\ toLoad' = {}
    /\ pc' = "idle" /\ op' = "none" /\ entry' = 0 /\ last' = 0 /\ left' = {} /\ rc' = "lost"
    /\ UNCHANGED <<nvs, params>>

-----------------------------------------------------------------------------

Boot ==
    \/ \E i \in Index : Register(i) \/ SettingsSet(i)
    \/ StartLoad
    \/ LoadDone

Continue ==
    \/ SaveOk
    \/ SaveFails
    \/ Delete
    \/ \E f \in Field : CopyField(f)
    \/ CopyDone

Next ==
    \/ Boot
    \/ Continue
    \/ \E i \in Index, p \in Params : SetCall(i, p)
    \/ \E i \in Index : GetCall(i) \/ ResetCall(i, i)
    \/ ResetCall(0, Entries - 1)
    \/ Refuse
    \/ PowerCut

Spec == Init /\ [][Next]_vars

-----------------------------------------------------------------------------
(* Properties. *)

TypeOK ==
    /\ nvs \in [Index -> Cell]
    /\ live \in [Registered -> Params]
    /\ saved \in [Index -> Cell]
    /\ registered \subseteq Registered
    /\ boot \in {"init", "load", "run"}
    /\ toLoad \subseteq Index
    /\ pc \in {"idle", "save", "delete", "copy"}
    /\ op \in {"none", "set", "reset"}
    /\ entry \in Index
    /\ last \in entry .. Entries - 1
    /\ params \in Params
    /\ left \subseteq Field
    /\ rc \in {"none", "ok", "error", "lost"}

Copying(i) == pc = "copy" /\ i = entry

\* Once booted, an entry that is not being copied drives its engine with exactly
\* the value flash would restore: neither a refused, failed, interrupted or
\* finished call, nor settings_load, leaves RAM and flash apart.
LiveMatchesFlash ==
    boot = "run" => \A i \in Registered : Copying(i) \/ live[i] = Durable(i)

\* has_saved and saved mirror the key in flash once booted.
SavedMirrorsFlash ==
    boot = "run" => \A i \in Index : Copying(i) \/ saved[i] = nvs[i]

\* What an engine reads of a live struct changes, after boot, only field by
\* field and only to the value flash already holds: a reader may find a mixture
\* of the old struct and the new one, never a field of some third value, and
\* never a value a power cut would take back.
TornReadIsBounded ==
    [][\A i \in Registered, f \in Field :
          boot = "run" /\ boot' = "run" /\ live'[i][f] # live[i][f]
            => Copying(i) /\ live'[i][f] = Durable(i)[f]]_vars

\* The mapping to the promise: flash is the value, the struct the engine reads
\* is the view, an entry is owed until its key has been written.
Owed == IF pc = "copy" THEN InHand \ {entry} ELSE InHand
Target == IF op = "set" THEN params ELSE Absent

Promise == INSTANCE DurableParams WITH
    value <- nvs, view <- live, up <- boot = "run",
    owed <- Owed, target <- Target, answer <- rc

\* The store keeps the promise of DurableParams as long as settings_delete
\* succeeds: every request takes effect at one instant per entry, an ok is
\* given only when flash and engine hold the new value, an error only when
\* neither does, and a power cut at any step loses nothing acknowledged.
KeepsPromise == Promise!Spec
=============================================================================
