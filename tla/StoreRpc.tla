------------------------------- MODULE StoreRpc -------------------------------
(***************************************************************************)
(* One store of the design RtStore under the request handlers that drive   *)
(* it: the combos subsystem, which changes one field itself, or the        *)
(* hold-tap subsystem, whose host reads and writes back the whole struct.  *)
(***************************************************************************)
EXTENDS CombosRpc

CONSTANTS
    ReqSlot,      \* the slots a host may name
    ZeroInfo      \* the info of an answer with found = false

ASSUME StoreRpcAssumption == ZeroInfo \in Params

VARIABLES
    subsystem,    \* "combos" or "holdtap"; it does not change
    held          \* what the hold-tap client keeps between its requests

H == INSTANCE HoldTapRpc

allVars == <<rpcVars, subsystem, held>>

AllInit == RpcInit /\ H!RpcInit /\ subsystem \in {"combos", "holdtap"}

AllNext ==
    \/ subsystem = "combos" /\ RpcNext /\ UNCHANGED <<subsystem, held>>
    \/ subsystem = "holdtap" /\ H!RpcNext /\ UNCHANGED <<subsystem, got>>

AllSpec == AllInit /\ [][AllNext]_allVars

-----------------------------------------------------------------------------
\* A set changes one field of an entry that exists and keeps the others as flash held
\* them: the struct the firmware reads first is the one flash would restore, and the
\* hold-tap's other fields survive the way to the host and back.
EditKeepsOtherFields == H!EditKeepsOtherFields

\* No request of the combos subsystem leaves a key in flash for a combo that does not
\* exist.  (A hold-tap slot may be set without one: HoldTapRpc!SetNeedsRegisteredSlot.)
NoOrphanCombo == subsystem = "combos" => NoOrphanKeys

\* What the hold-tap store's header says and its code does not keep (see there).
SetNeedsRegisteredSlot == H!SetNeedsRegisteredSlot
ResetDeletesKey == H!ResetDeletesKey
=============================================================================
