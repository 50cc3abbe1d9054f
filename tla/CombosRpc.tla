------------------------------ MODULE CombosRpc ------------------------------
(***************************************************************************)
(* The zmk__combos Studio subsystem (src/studio/combos_rpc_handler.c) over *)
(* the combo store: one request at a time on the RPC thread.  An index is  *)
(* a uint32 on the wire and cast to uint8_t; set changes one field of the  *)
(* oneof and rewrites the whole struct.                                    *)
(***************************************************************************)
EXTENDS RtStore

CONSTANT ReqIndex   \* the indices a host may send

VARIABLES
    got,    \* the GetResponse of the last request, NotFound when none
    edit    \* the fields the running SetRequest names

rpcVars == <<vars, got, edit>>

NotFound == [found |-> FALSE]
Cast(ix) == ix % 256

RpcInit == Init /\ got = NotFound /\ edit = {}

\* Slip: get reports the devicetree default.
HandleGetDefault(ix) ==
    /\ GetCall(Cast(ix))
    /\ got' = IF Cast(ix) \in registered
                THEN [found |-> TRUE, index |-> Cast(ix), info |-> DtDefault[Cast(ix)]]
                ELSE NotFound
    /\ UNCHANGED edit

HandleGet(ix) ==
    /\ GetCall(Cast(ix))
    /\ got' = IF Cast(ix) \in registered
                THEN [found |-> TRUE, index |-> Cast(ix), info |-> live[Cast(ix)]]
                ELSE NotFound
    /\ UNCHANGED edit

\* Read-modify-write on the live struct; an unregistered entry is refused.
HandleSet(ix, f, d) ==
    /\ got' = NotFound
    /\ \/ /\ Cast(ix) \in registered
          /\ SetCall(Cast(ix), [live[Cast(ix)] EXCEPT ![f] = d])
          /\ edit' = {f}
       \/ Cast(ix) \notin registered /\ Refuse /\ UNCHANGED edit

HandleReset(ix) ==
    /\ got' = NotFound
    /\ IF Cast(ix) \in Index THEN ResetCall(Cast(ix), Cast(ix)) ELSE Refuse
    /\ UNCHANGED edit

\* Undecodable or unknown request, or a SetRequest without a known field.
HandleUnknown ==
    /\ Refuse
    /\ got' = NotFound
    /\ UNCHANGED edit

\* ZMK Studio's reset_settings.
OnSettingsReset ==
    /\ ResetCall(0, Entries - 1)
    /\ got' = NotFound
    /\ UNCHANGED edit

StoreStep ==
    /\ Boot \/ Continue
    /\ UNCHANGED <<got, edit>>

Restart ==
    /\ PowerCut
    /\ got' = NotFound /\ edit' = {}

RpcNext ==
    \/ \E ix \in ReqIndex : HandleGet(ix) \/ HandleReset(ix)
    \/ \E ix \in ReqIndex, f \in Field, d \in Datum : HandleSet(ix, f, d)
    \/ HandleUnknown
    \/ OnSettingsReset
    \/ StoreStep
    \/ Restart

RpcSpec == RpcInit /\ [][RpcNext]_rpcVars

-----------------------------------------------------------------------------
(* Properties. *)

\* What a get answers is what the keyboard would hold after a power cycle.
GetAnswersDurable == got.found => got.info = Durable(got.index)

\* No request leaves a key in flash for an entry that does not exist.
NoOrphanKeys == \A i \in Index : nvs[i] # Absent => i \in Registered
=============================================================================
