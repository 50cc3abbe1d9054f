----------------------------- MODULE HoldTapRpc -----------------------------
(***************************************************************************)
(* The zmk__holdtap Studio subsystem (src/studio/holdtap_rpc_handler.c)    *)
(* over the hold-tap store, and the host client that drives it             *)
(* (cli/zmk_runtime_cli/holdtap_client.py).  The firmware replaces the     *)
(* whole timing struct, so the client gets it first and sends it back with *)
(* one field changed: two requests, with the keyboard running in between.  *)
(***************************************************************************)
EXTENDS RtStore

CONSTANTS
    ReqSlot,      \* the slots a host may name
    ZeroInfo      \* the info of an answer with found = false

VARIABLES
    held,         \* what the client keeps from its get until its set
    edit          \* the fields its set changes

rpcVars == <<vars, held, edit>>

Nothing == [slot |-> -1]
Cast(n) == n % 256

RpcInit == Init /\ held = Nothing /\ edit = {}

\* HoldtapClient.set, first half.  It does not look at "found".
HandleGet(sl) ==
    /\ held = Nothing
    /\ GetCall(Cast(sl))
    /\ held' = [slot |-> Cast(sl),
                info |-> IF Cast(sl) \in registered THEN live[Cast(sl)] ELSE ZeroInfo]
    /\ UNCHANGED edit

\* Slip: the other fields are not filled in from the get.
HandleSetOneField(f, d) ==
    /\ held # Nothing
    /\ IF held.slot \in Index THEN SetCall(held.slot, [ZeroInfo EXCEPT ![f] = d])
                              ELSE Refuse
    /\ held' = Nothing
    /\ edit' = {f}

\* Second half: build_set_request changes one field of the answer, handle_set
\* hands the struct to the store, registered or not.
HandleSet(f, d) ==
    /\ held # Nothing
    /\ IF held.slot \in Index THEN SetCall(held.slot, [held.info EXCEPT ![f] = d])
                              ELSE Refuse
    /\ held' = Nothing
    /\ edit' = {f}

HandleReset(sl) ==
    /\ held = Nothing
    /\ IF Cast(sl) \in Index THEN ResetCall(Cast(sl), Cast(sl)) ELSE Refuse
    /\ UNCHANGED <<held, edit>>

HandleUnknown == held = Nothing /\ Refuse /\ UNCHANGED <<held, edit>>

SettingsReset == held = Nothing /\ ResetCall(0, Entries - 1) /\ UNCHANGED <<held, edit>>

StoreStep == (Boot \/ Continue) /\ UNCHANGED <<held, edit>>

\* The USB port goes away with the keyboard, and the client with it.
Restart == PowerCut /\ held' = Nothing /\ edit' = {}

RpcNext ==
    \/ \E sl \in ReqSlot : HandleGet(sl) \/ HandleReset(sl)
    \/ \E f \in Field, d \in Datum : HandleSet(f, d)
    \/ HandleUnknown
    \/ SettingsReset
    \/ StoreStep
    \/ Restart

RpcSpec == RpcInit /\ [][RpcNext]_rpcVars

-----------------------------------------------------------------------------
(* Properties. *)

\* "zmkrt holdtap set" changes one timing field of a slot that exists and keeps
\* the others as flash held them, though they travel to the host and back.
EditKeepsOtherFields ==
    [][\A i \in Registered : op = "set" /\ nvs'[i] # nvs[i] =>
          \A f \in Field \ edit : Durable(i)'[f] = Durable(i)[f]]_rpcVars

\* runtime_holdtap.h says rt_holdtap_set returns "negative on error or
\* unregistered slot": a set answered ok was for a registered slot.
SetNeedsRegisteredSlot ==
    [][op = "set" /\ rc' = "ok" => entry \in registered]_rpcVars

\* runtime_holdtap.h says rt_holdtap_reset deletes the slot's NVS entry and
\* returns 0 on success: once a reset is answered ok, its keys are gone.
ResetDeletesKey ==
    [][op = "reset" /\ pc = "copy" /\ pc' # "copy" /\ rc' # "lost"
         => nvs'[entry] = Absent]_rpcVars
=============================================================================
