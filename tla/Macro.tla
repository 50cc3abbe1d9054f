-------------------------------- MODULE Macro ---------------------------------
(***************************************************************************)
(* Runtime macros: src/runtime_macro_store.c (flash, RAM cache, mutex),    *)
(* src/studio/macros_rpc_handler.c (the RPC thread) and                    *)
(* src/behaviors/behavior_runtime_macro.c with ZMK's behavior queue (the   *)
(* system work queue).  The work queue preempts the RPC thread between any *)
(* two of its steps, waits for rt_macro_mutex when that thread holds it,   *)
(* and then does nothing else.  The queue holds a whole macro by the time  *)
(* the key press returns, its items are carried out as their delays end.   *)
(***************************************************************************)
EXTENDS Integers, Sequences, FiniteSets, SequencesExt

CONSTANTS
    Slots,          \* CONFIG_ZMK_RUNTIME_MACRO_SLOTS
    MaxSteps,       \* CONFIG_ZMK_RUNTIME_MACRO_MAX_STEPS
    QueueSize,      \* CONFIG_ZMK_BEHAVIORS_QUEUE_SIZE
    ReqSlot,        \* the slots the host asks for
    Macros,         \* the macros the host sends, cut to MaxSteps by the firmware
    Absent,         \* no key in flash
    DeleteMayFail,  \* can settings_delete return an error?
    MaxPlays        \* key presses since boot (bound)

Slot == 0 .. Slots - 1
FirstSlot == 0
None == -1
Clamp(m) == SubSeq(m, 1, Min({Len(m), MaxSteps}))

ASSUME MacroAssumption ==
    /\ {Slots, MaxSteps, QueueSize, MaxPlays} \subseteq Nat
    /\ Slots \in 1 .. 256
    /\ ReqSlot \subseteq Nat
    /\ \A m \in Macros : m \in Seq([type : {"tap", "press", "release"}, key : {m[i].key : i \in DOMAIN m}, hold : BOOLEAN, wait : BOOLEAN])
    /\ \A m \in Macros : Clamp(m) # Absent
    /\ DeleteMayFail \in BOOLEAN

VARIABLES
    nvs,      \* flash: the macro under each slot's key, or Absent
    cache,    \* cache and cache_count
    toLoad,   \* keys settings_load has still to hand to the callback
    up,       \* booted
    pc,       \* where the RPC thread is: "idle", "save", "lock", "copy", "clear"
    locked,   \* does it hold rt_macro_mutex?
    slot,     \* the slot it works on
    steps,    \* the macro it stores, cut to MaxSteps
    done,     \* how many of them cache_update has copied
    rc,       \* the answer: "none" while it works, "ok", "error"
    waiting,  \* the slot of the key press that waits for the mutex
    queue,    \* the behavior queue
    delayed,  \* is queue_work scheduled?
    down,     \* the keycodes a macro holds down
    played,   \* the macros key presses took from the cache since boot
    dropped   \* has the full queue refused an item since boot?

rpc == <<pc, locked, slot, steps, done, rc>>
keys == <<waiting, queue, delayed, down, played, dropped>>
vars == <<nvs, cache, toLoad, up, pc, locked, slot, steps, done, rc,
          waiting, queue, delayed, down, played, dropped>>

Whole(m) == IF m = Absent THEN <<>> ELSE m
Cast(r) == r % 256

Init ==
    /\ nvs = [s \in Slot |-> Absent] /\ cache = [s \in Slot |-> <<>>]
    /\ toLoad = {} /\ up = TRUE
    /\ pc = "idle" /\ locked = FALSE /\ slot = FirstSlot /\ steps = <<>> /\ done = 0 /\ rc = "ok"
    /\ waiting = None /\ queue = <<>> /\ delayed = FALSE /\ down = {}
    /\ played = <<>> /\ dropped = FALSE

-----------------------------------------------------------------------------
(* The RPC thread. *)

Ready == up /\ pc = "idle"

\* macro_dsl.parse: every release has its press before it and every press its
\* release.  The command line refuses other macros unless told to allow them; the
\* browser's route (_balance_warning) sends them and warns.
Balanced(m) ==
    LET count(t, k, n) == Cardinality({i \in 1 .. n : m[i].type = t /\ m[i].key = k})
        open(k, n) == count("press", k, n) - count("release", k, n)
    IN  \A k \in {m[i].key : i \in DOMAIN m} :
            /\ \A n \in DOMAIN m : open(k, n) >= 0
            /\ open(k, Len(m)) = 0

\* handle_set_macro with rt_macro_set_steps up to the save.
SetMacro(r, m) ==
    /\ Ready
    /\ IF Cast(r) \in Slot
         THEN pc' = "save" /\ slot' = Cast(r) /\ steps' = Clamp(m) /\ rc' = "none"
         ELSE rc' = "error" /\ UNCHANGED <<pc, slot, steps>>
    /\ UNCHANGED <<nvs, cache, toLoad, up, locked, done, keys>>

\* Slip: a failing save is not noticed.
SaveUnchecked(ok) ==
    /\ pc = "save"
    /\ nvs' = IF ok THEN [nvs EXCEPT ![slot] = steps] ELSE nvs
    /\ pc' = "lock"
    /\ UNCHANGED <<cache, toLoad, up, locked, slot, steps, done, rc, keys>>

\* settings_save_one, outside the mutex.
Save(ok) ==
    /\ pc = "save"
    /\ IF ok THEN nvs' = [nvs EXCEPT ![slot] = steps] /\ pc' = "lock" /\ UNCHANGED rc
             ELSE pc' = "idle" /\ rc' = "error" /\ UNCHANGED nvs
    /\ UNCHANGED <<cache, toLoad, up, locked, slot, steps, done, keys>>

\* Slip: cache_update takes no mutex.
LockNothing ==
    /\ pc = "lock" /\ waiting = None
    /\ pc' = "copy" /\ done' = 0
    /\ UNCHANGED <<nvs, cache, toLoad, up, locked, slot, steps, rc, keys>>

\* The mutex is free, and no key press has been granted it before.
Lock ==
    /\ pc = "lock" /\ waiting = None
    /\ locked' = TRUE /\ pc' = "copy" /\ done' = 0
    /\ UNCHANGED <<nvs, cache, toLoad, up, slot, steps, rc, keys>>

\* cache_update: the steps one by one, cache_count last.
CopyStep ==
    /\ pc = "copy"
    /\ done < Len(steps)
    /\ done' = done + 1
    /\ cache' = [cache EXCEPT ![slot] =
                    [i \in 1 .. Len(@) |-> IF i = done + 1 THEN steps[i] ELSE @[i]]]
    /\ UNCHANGED <<nvs, toLoad, up, pc, locked, slot, steps, rc, keys>>

\* Slip: an empty macro is done without giving the mutex back.
CopyDoneReturns ==
    /\ pc = "copy"
    /\ done = Len(steps)
    /\ cache' = [cache EXCEPT ![slot] = steps]
    /\ locked' = (steps = <<>>) /\ pc' = "idle" /\ rc' = "ok"
    /\ UNCHANGED <<nvs, toLoad, up, slot, steps, done, keys>>

CopyDone ==
    /\ pc = "copy"
    /\ done = Len(steps)
    /\ cache' = [cache EXCEPT ![slot] = steps]
    /\ locked' = FALSE /\ pc' = "idle" /\ rc' = "ok"
    /\ UNCHANGED <<nvs, toLoad, up, slot, steps, done, keys>>

\* rt_macro_settings_reset: the mutex is held across all the deletions.
ClearAll ==
    /\ Ready /\ waiting = None
    /\ locked' = TRUE /\ pc' = "clear" /\ slot' = FirstSlot /\ rc' = "none"
    /\ UNCHANGED <<nvs, cache, toLoad, up, steps, done, keys>>

\* One slot: its key deleted, its cache zeroed; after the last the mutex is given back.
ClearSlot(ok) ==
    /\ pc = "clear"
    /\ ok \/ DeleteMayFail
    /\ nvs' = IF ok THEN [nvs EXCEPT ![slot] = Absent] ELSE nvs
    /\ cache' = [cache EXCEPT ![slot] = <<>>]
    /\ slot' = (slot + 1) % Slots
    /\ IF slot + 1 = Slots THEN locked' = FALSE /\ pc' = "idle" ELSE UNCHANGED <<locked, pc>>
    /\ rc' = IF ~ok \/ rc = "error" THEN "error" ELSE IF slot + 1 = Slots THEN "ok" ELSE rc
    /\ UNCHANGED <<toLoad, up, steps, done, keys>>

-----------------------------------------------------------------------------
(* The work queue. *)

\* Slip: a tap lets the key go before it presses it.
ItemsUpFirst(s) ==
    CASE s.type = "press"   -> <<[key |-> s.key, press |-> TRUE,  wait |-> s.wait]>>
      [] s.type = "release" -> <<[key |-> s.key, press |-> FALSE, wait |-> s.wait]>>
      [] OTHER -> <<[key |-> s.key, press |-> FALSE, wait |-> s.hold],
                    [key |-> s.key, press |-> TRUE, wait |-> s.wait]>>

\* The items a step puts into the behavior queue; wait and hold say whether
\* wait_ms and tap_ms are positive.
Items(s) ==
    CASE s.type = "press"   -> <<[key |-> s.key, press |-> TRUE,  wait |-> s.wait]>>
      [] s.type = "release" -> <<[key |-> s.key, press |-> FALSE, wait |-> s.wait]>>
      [] OTHER -> <<[key |-> s.key, press |-> TRUE,  wait |-> s.hold],
                    [key |-> s.key, press |-> FALSE, wait |-> s.wait]>>

\* What is down once the first n items of q are carried out: the last one of a key counts.
Carried(q, n, d) ==
    LET last == {i \in 1 .. n : \A j \in i + 1 .. n : q[j].key # q[i].key}
    IN  (d \ {q[i].key : i \in 1 .. n}) \cup {q[i].key : i \in {j \in last : q[j].press}}

\* behavior_queue_process_next: items are carried out up to the first that waits.
Process(st) ==
    LET q == st.queue
        n == Min({Len(q)} \cup {i \in DOMAIN q : q[i].wait})
    IN  [st EXCEPT !.queue = SubSeq(q, n + 1, Len(q)), !.down = Carried(q, n, @),
                   !.delayed = n > 0 /\ q[n].wait]

\* zmk_behavior_queue_add; its -ENOMSG is dropped.
Add(st, item) ==
    IF Len(st.queue) = QueueSize THEN [st EXCEPT !.dropped = TRUE]
    ELSE LET more == [st EXCEPT !.queue = Append(@, item)]
         IN  IF st.delayed THEN more ELSE Process(more)

AddStep(st, s) ==
    LET items == Items(s)
    IN  IF Len(items) = 1 THEN Add(st, items[1]) ELSE Add(Add(st, items[1]), items[2])

\* on_rt_macro_pressed's loop over the steps of macro m.
AddSteps(st, m) ==
    LET before[n \in 1 .. Len(m) + 1] == IF n = 1 THEN st ELSE AddStep(before[n - 1], m[n - 1])
    IN  before[Len(m) + 1]

Belt == [queue |-> queue, down |-> down, delayed |-> delayed, dropped |-> dropped]

\* on_rt_macro_pressed once it has the mutex.
Play(s) ==
    /\ LET st == AddSteps(Belt, cache[s]) IN
       queue' = st.queue /\ down' = st.down /\ delayed' = st.delayed /\ dropped' = st.dropped
    /\ played' = Append(played, cache[s])

\* A key bound to &rt_macro goes down; with the mutex taken the work queue waits.
KeyPress(s) ==
    /\ up /\ waiting = None
    /\ Len(played) < MaxPlays
    /\ IF locked THEN waiting' = s /\ UNCHANGED <<queue, delayed, down, played, dropped>>
                 ELSE Play(s) /\ UNCHANGED waiting
    /\ UNCHANGED <<nvs, cache, toLoad, up, rpc>>

MutexGranted ==
    /\ waiting # None /\ ~locked
    /\ Play(waiting)
    /\ waiting' = None
    /\ UNCHANGED <<nvs, cache, toLoad, up, rpc>>

\* The delay of the item carried out last is over.
QueueWork ==
    /\ delayed /\ waiting = None
    /\ LET st == Process(Belt) IN
       queue' = st.queue /\ down' = st.down /\ delayed' = st.delayed
    /\ UNCHANGED <<nvs, cache, toLoad, up, rpc, waiting, played, dropped>>

-----------------------------------------------------------------------------
(* Power. *)

PowerCut ==
    /\ up' = FALSE
    /\ toLoad' = {s \in Slot : nvs[s] # Absent}
    /\ cache' = [s \in Slot |-> <<>>]
    /\ pc' = "idle" /\ locked' = FALSE /\ slot' = FirstSlot /\ steps' = <<>> /\ done' = 0 /\ rc' = "error"
    /\ waiting' = None /\ queue' = <<>> /\ delayed' = FALSE /\ down' = {}
    /\ played' = <<>> /\ dropped' = FALSE
    /\ UNCHANGED nvs

\* rt_macro_set_cb, once per stored key.
SettingsSet(s) ==
    /\ ~up /\ s \in toLoad
    /\ toLoad' = toLoad \ {s}
    /\ cache' = [cache EXCEPT ![s] = Clamp(nvs[s])]
    /\ UNCHANGED <<nvs, up, rpc, keys>>

LoadDone ==
    /\ ~up /\ toLoad = {}
    /\ up' = TRUE
    /\ UNCHANGED <<nvs, cache, toLoad, rpc, keys>>

RpcStep == Lock \/ CopyStep \/ CopyDone \/ \E ok \in BOOLEAN : Save(ok) \/ ClearSlot(ok)

Next ==
    \/ \E r \in ReqSlot, m \in Macros : SetMacro(r, m)
    \/ RpcStep
    \/ ClearAll
    \/ \E s \in Slot : KeyPress(s) \/ SettingsSet(s)
    \/ MutexGranted
    \/ QueueWork
    \/ PowerCut \/ LoadDone

\* The RPC thread gets to run while the work queue waits.
Spec == Init /\ [][Next]_vars /\ WF_vars(RpcStep)

-----------------------------------------------------------------------------
(* Properties. *)

TypeOK ==
    /\ \A s \in Slot : nvs[s] = Absent \/ Len(nvs[s]) <= MaxSteps
    /\ \A s \in Slot : Len(cache[s]) <= MaxSteps
    /\ toLoad \subseteq Slot
    /\ pc \in {"idle", "save", "lock", "copy", "clear"}
    /\ slot \in Slot
    /\ done \in 0 .. MaxSteps
    /\ waiting \in Slot \cup {None}
    /\ Len(queue) <= QueueSize

\* The comment in rt_macro_set_steps: "the cache never diverges from what is
\* stored in NVS".  Between two requests they agree, and during one they differ
\* in no slot but the one it works on; failing saves and power cuts included.
CacheMatchesFlash ==
    \A s \in Slot :
        up /\ (pc = "idle" \/ s # slot) => cache[s] = Whole(nvs[s])

\* What a key press plays is one macro as the host sent it, never a mixture of
\* the old one and the new one that is being copied over it.
PlaysWholeMacros ==
    \A i \in DOMAIN played : played[i] \in {<<>>} \cup {Clamp(m) : m \in Macros}

\* Macros with as many releases as presses, in the order macro_dsl.parse demands,
\* leave no key down once they have played to their end, unless the full queue
\* refused part of one: two presses in a row, the second while the first one waits,
\* a set or a reset in between change nothing about it.
KeysComeUp ==
    /\ queue = <<>> /\ ~delayed /\ ~dropped
    /\ \A i \in DOMAIN played : Balanced(played[i])
    => down = {}

\* The mutex a key press waits for is given back on every path, saves, resets and
\* power cuts included: the keyboard does not freeze.
PressesAreServed == waiting # None ~> ~locked

\* The comment above rt_macro_mutex: "NVS writes are performed OUTSIDE this mutex
\* (they can be slow)".
NvsWritesOutsideMutex == [][nvs' # nvs => ~locked]_vars
=============================================================================
