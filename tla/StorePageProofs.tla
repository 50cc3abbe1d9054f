--------------------------- MODULE StorePageProofs ----------------------------
(***************************************************************************)
(* Proofs about the two ends of a change.  First the parameter store of the *)
(* keyboard and the two subsystems over it, for any number of entries, any  *)
(* set of registered ones, any fields and values, and any index a host may  *)
(* send.  Then the page, its layer card and the server, for any layers,     *)
(* features and groups, any number of calls under way and of events: that a *)
(* quiet page is fresh, that a removal or a move of a layer begun on one    *)
(* hits the layers the page showed, and that no save of the groups is       *)
(* refused.                                                                *)
(***************************************************************************)
EXTENDS StoreRpc, LayerCard, SequenceTheorems, FiniteSetTheorems, TLAPS

-----------------------------------------------------------------------------
(* The store. *)


\* What the type invariant rests on: settings_load only hands over keys that
\* exist, and no call runs before the keyboard has booted.
BootOrder ==
    /\ boot # "run" => pc = "idle"
    /\ boot # "load" => toLoad = {}
    /\ \A i \in toLoad : nvs[i] # Absent

TypeInv == TypeOK /\ BootOrder

LEMMA InitTypeInv == Init => TypeInv
  BY StoreAssumption DEF Init, TypeInv, TypeOK, BootOrder, Params, Cell, Index

LEMMA StepTypeInv == TypeInv /\ [Next]_vars => TypeInv'
<1> SUFFICES ASSUME TypeInv, [Next]_vars
             PROVE  TypeInv'
  OBVIOUS
<1> USE StoreAssumption DEF TypeInv, TypeOK, BootOrder, Cell, Index
<1>1. ASSUME NEW i \in Index, Register(i)
      PROVE  TypeInv'
  BY <1>1 DEF Register, call
<1>2. ASSUME NEW i \in Index, SettingsSet(i)
      PROVE  TypeInv'
  BY <1>2 DEF SettingsSet, call
<1>3. CASE StartLoad
  BY <1>3 DEF StartLoad, table, call
<1>4. CASE LoadDone
  BY <1>4 DEF LoadDone, table, call
<1>5. CASE SaveOk
  BY <1>5 DEF SaveOk, table
<1>6. CASE SaveFails
  BY <1>6 DEF SaveFails, table
<1>7. CASE Delete
  BY <1>7 DEF Delete, table
<1>8. ASSUME NEW f \in Field, CopyField(f)
      PROVE  TypeInv'
  BY <1>8 DEF CopyField, Params
<1>9. CASE CopyDone
  BY <1>9 DEF CopyDone
<1>10. ASSUME NEW i \in Index, NEW p \in Params, SetCall(i, p)
       PROVE  TypeInv'
  BY <1>10 DEF SetCall, Ready, table
<1>11. ASSUME NEW i \in Index, GetCall(i)
       PROVE  TypeInv'
  BY <1>11 DEF GetCall, Ready, table
<1>12. ASSUME NEW a \in Index, NEW b \in a .. Entries - 1, ResetCall(a, b)
       PROVE  TypeInv'
  BY <1>12 DEF ResetCall, Ready, table
<1>13. CASE Refuse
  BY <1>13 DEF Refuse, Ready, table
<1>14. CASE PowerCut
  BY <1>14 DEF PowerCut
<1>15. CASE UNCHANGED vars
  BY <1>15 DEF vars
<1>16. ASSUME NEW i \in Index, ResetCall(i, i)
       PROVE  TypeInv'
  BY <1>12, <1>16
<1>17. CASE ResetCall(0, Entries - 1)
  BY <1>12, <1>17
<1> QED
  BY <1>1, <1>2, <1>3, <1>4, <1>5, <1>6, <1>7, <1>8, <1>9, <1>10, <1>11, <1>13,
     <1>14, <1>15, <1>16, <1>17 DEF Next, Boot, Continue

THEOREM TypeCorrect == Spec => []TypeOK
<1>1. TypeInv => TypeOK
  BY DEF TypeInv
<1> QED
  BY InitTypeInv, StepTypeInv, <1>1, PTL DEF Spec

-----------------------------------------------------------------------------
(* RAM and flash agree.  LiveMatchesFlash is not inductive: it says nothing *)
(* of boot, of what a call is about to copy, nor of the fields it has copied.*)

BootAgrees ==
    /\ boot = "init" =>
         /\ live = [i \in Registered |-> DtDefault[i]]
         /\ saved = [i \in Index |-> Absent]
    /\ boot # "init" => registered = Registered
    /\ boot = "load" =>
         /\ \A i \in Index \ toLoad : saved[i] = nvs[i]
         /\ \A i \in Registered \ toLoad : live[i] = Durable(i)

StoreCall ==
    /\ pc = "idle" <=> rc # "none"
    /\ pc = "idle" => op = "none"
    /\ pc = "save" => op = "set"
    /\ pc = "delete" => op = "reset"
    /\ pc = "copy" => op \in {"set", "reset"}
    /\ op = "set" => entry = last

CopyAgrees ==
    pc = "copy" =>
        /\ params = Durable(entry)
        /\ (IF op = "set" THEN params ELSE Absent) = nvs[entry]
        /\ entry \in Registered =>
             \A f \in Field \ left : live[entry][f] = params[f]

StoreInv ==
    /\ TypeInv
    /\ BootAgrees
    /\ StoreCall
    /\ CopyAgrees
    /\ LiveMatchesFlash
    /\ SavedMirrorsFlash

LEMMA InitStoreInv == Init => StoreInv
<1> SUFFICES ASSUME Init
             PROVE  StoreInv
  OBVIOUS
<1>1. TypeInv
  BY InitTypeInv
<1>2. BootAgrees /\ StoreCall /\ CopyAgrees /\ LiveMatchesFlash /\ SavedMirrorsFlash
  BY DEF Init, BootAgrees, StoreCall, CopyAgrees, LiveMatchesFlash, SavedMirrorsFlash
<1> QED
  BY <1>1, <1>2 DEF StoreInv

\* settings_delete succeeds: without it RAM forgets a value that flash keeps.
LEMMA StepStoreInv ==
  ASSUME ~DeleteMayFail, StoreInv, [Next]_vars
  PROVE  StoreInv'
<1>0. TypeInv'
  BY StepTypeInv DEF StoreInv
<1> USE StoreAssumption
    DEF StoreInv, TypeInv, TypeOK, BootOrder, BootAgrees, StoreCall, CopyAgrees,
        LiveMatchesFlash, SavedMirrorsFlash, Durable, Copying, Cell, Index
<1>1. ASSUME NEW i \in Index, Register(i)
      PROVE  StoreInv'
  BY <1>0, <1>1 DEF Register, call
<1>2. ASSUME NEW i \in Index, SettingsSet(i)
      PROVE  StoreInv'
  BY <1>0, <1>2 DEF SettingsSet, call
<1>3. CASE StartLoad
  BY <1>0, <1>3 DEF StartLoad, table, call
<1>4. CASE LoadDone
  BY <1>0, <1>4 DEF LoadDone, table, call
<1>5. CASE SaveOk
  BY <1>0, <1>5 DEF SaveOk, table
<1>6. CASE SaveFails
  BY <1>0, <1>6 DEF SaveFails, table
<1>7. CASE Delete
  BY <1>0, <1>7 DEF Delete, table
<1>8. ASSUME NEW f \in Field, CopyField(f)
      PROVE  StoreInv'
  BY <1>0, <1>8 DEF CopyField, Params
<1>9. CASE CopyDone
  BY <1>0, <1>9 DEF CopyDone, Params
<1>10. ASSUME NEW i \in Index, NEW p \in Params, SetCall(i, p)
       PROVE  StoreInv'
  BY <1>0, <1>10 DEF SetCall, Ready, table
<1>11. ASSUME NEW i \in Index, GetCall(i)
       PROVE  StoreInv'
  BY <1>0, <1>11 DEF GetCall, Ready, table
<1>12. ASSUME NEW a \in Index, NEW b \in a .. Entries - 1, ResetCall(a, b)
       PROVE  StoreInv'
  BY <1>0, <1>12 DEF ResetCall, Ready, table
<1>13. CASE Refuse
  BY <1>0, <1>13 DEF Refuse, Ready, table
<1>14. CASE PowerCut
  BY <1>0, <1>14 DEF PowerCut
<1>15. CASE UNCHANGED vars
  BY <1>0, <1>15 DEF vars
<1>16. ASSUME NEW i \in Index, ResetCall(i, i)
       PROVE  StoreInv'
  BY <1>12, <1>16
<1>17. CASE ResetCall(0, Entries - 1)
  BY <1>12, <1>17
<1> QED
  BY <1>1, <1>2, <1>3, <1>4, <1>5, <1>6, <1>7, <1>8, <1>9, <1>10, <1>11, <1>13,
     <1>14, <1>15, <1>16, <1>17 DEF Next, Boot, Continue

THEOREM FlashAndRamAgree ==
  ASSUME ~DeleteMayFail
  PROVE  Spec => [](LiveMatchesFlash /\ SavedMirrorsFlash)
<1>1. StoreInv => LiveMatchesFlash /\ SavedMirrorsFlash
  BY DEF StoreInv
<1>2. StoreInv /\ [Next]_vars => StoreInv'
  BY StepStoreInv
<1> QED
  BY InitStoreInv, <1>1, <1>2, PTL DEF Spec

-----------------------------------------------------------------------------

\* An engine that reads the live struct without the mutex, at any moment, finds
\* in every field the value of before the call or the one flash already holds.
THEOREM TornReads ==
  ASSUME ~DeleteMayFail
  PROVE  Spec => TornReadIsBounded
<1> DEFINE Step == \A i \in Registered, f \in Field :
                      boot = "run" /\ boot' = "run" /\ live'[i][f] # live[i][f]
                        => Copying(i) /\ live'[i][f] = Durable(i)[f]
<1>1. ASSUME StoreInv, [Next]_vars
      PROVE  Step
  <2> SUFFICES ASSUME NEW i \in Registered, NEW g \in Field,
                      boot = "run", boot' = "run", live'[i][g] # live[i][g]
               PROVE  Copying(i) /\ live'[i][g] = Durable(i)[g]
    OBVIOUS
  <2>1. ASSUME NEW f \in Field, CopyField(f)
        PROVE  Copying(i) /\ live'[i][g] = Durable(i)[g]
    <3>1. live \in [Registered -> [Field -> Datum]] /\ params = Durable(entry) /\ pc = "copy"
      BY <1>1, <2>1 DEF CopyField, StoreInv, CopyAgrees, TypeInv, TypeOK, Params
    <3>2. live' = [live EXCEPT ![entry] = [live[entry] EXCEPT ![f] = params[f]]]
      BY <2>1 DEF CopyField
    <3>3. i = entry
      BY <3>1, <3>2
    <3>4. g = f
      BY <3>1, <3>2, <3>3
    <3>5. live'[i][g] = params[g]
      BY <3>1, <3>2, <3>3, <3>4
    <3> QED
      BY <3>1, <3>3, <3>5 DEF Copying
  <2>2. live' = live \/ \E f \in Field : CopyField(f)
    BY <1>1 DEF Next, Boot, Continue, Register, SettingsSet, StartLoad, LoadDone,
                SaveOk, SaveFails, Delete, CopyDone, SetCall, GetCall, ResetCall,
                Refuse, PowerCut, vars, table, call
  <2> QED
    BY <2>1, <2>2
<1>2. StoreInv /\ [Next]_vars => StoreInv'
  BY StepStoreInv
<1>3. Spec => [][Step]_vars
  BY InitStoreInv, <1>1, <1>2, PTL DEF Spec
<1> QED
  BY <1>3 DEF TornReadIsBounded

-----------------------------------------------------------------------------
(* The refinement: every step of the store is a step of DurableParams or    *)
(* changes nothing there.                                                   *)

LEMMA InitPromise == Init => Promise!Init
  BY StoreAssumption DEF Init, Promise!Init, Promise!Params, Params, Owed, Target, InHand, Index

LEMMA StepPromise ==
  ASSUME StoreInv, StoreInv', [Next]_vars, ~DeleteMayFail
  PROVE  [Promise!Next]_(Promise!vars)
<1> USE StoreAssumption DEF Index, Promise!Params, Params
<1>0. /\ TypeOK /\ TypeOK' /\ BootOrder /\ StoreCall /\ CopyAgrees
      /\ LiveMatchesFlash /\ LiveMatchesFlash'
  BY DEF StoreInv, TypeInv
<1>1. ASSUME NEW i \in Index, Register(i)
      PROVE  Promise!Booting
  BY <1>0, <1>1 DEF Register, Promise!Booting, call, TypeOK, Owed, Target, InHand
<1>2. ASSUME NEW i \in Index, SettingsSet(i)
      PROVE  Promise!Booting
  BY <1>0, <1>2 DEF SettingsSet, Promise!Booting, call, TypeOK, Owed, Target, InHand
<1>3. ASSUME StartLoad
      PROVE  UNCHANGED Promise!vars
  BY <1>3 DEF StartLoad, Promise!vars, table, call, Owed, Target, InHand
<1>4. ASSUME LoadDone
      PROVE  Promise!PowerUp
  <2>1. Promise!Settled
    BY <1>0, <1>4 DEF LoadDone, Promise!Settled, Promise!Resolve, table, call,
                      LiveMatchesFlash, Copying, Durable, BootOrder
  <2> QED
    BY <1>4, <2>1 DEF LoadDone, Promise!PowerUp, table, call, Owed, Target, InHand
<1>5. ASSUME SaveOk
      PROVE  Promise!Store(entry)
  BY <1>0, <1>5 DEF SaveOk, Promise!Store, table, TypeOK, StoreCall, Owed, Target, InHand
<1>6. ASSUME SaveFails
      PROVE  Promise!AnswerError
  <2>1. Promise!Settled /\ boot = "run"
    BY <1>0, <1>6 DEF SaveFails, Promise!Settled, Promise!Resolve, LiveMatchesFlash,
                      Copying, Durable, BootOrder
  <2>2. Owed = {entry} /\ Owed' = {} /\ Target' = Absent
    BY <1>0, <1>6 DEF SaveFails, TypeOK, StoreCall, Owed, Target, InHand
  <2>3. rc = "none" /\ rc' = "error" /\ UNCHANGED <<nvs, live, boot>> /\ entry \in Index
    BY <1>0, <1>6 DEF SaveFails, table, TypeOK, StoreCall
  <2> QED
    BY <1>0, <2>1, <2>2, <2>3 DEF Promise!AnswerError
<1>7. ASSUME Delete
      PROVE  Promise!Store(entry)
  BY <1>0, <1>7 DEF Delete, Promise!Store, table, TypeOK, StoreCall, Owed, Target, InHand
<1>8. ASSUME NEW f \in Field, CopyField(f)
      PROVE  Promise!Publish(entry, f) \/ UNCHANGED Promise!vars
  <2>1. UNCHANGED <<nvs, boot, Owed, Target, rc>> /\ entry \notin Owed /\ rc = "none"
    BY <1>0, <1>8 DEF CopyField, StoreCall, Owed, Target, InHand
  <2>2. CASE entry \in Registered
    BY <1>0, <1>8, <2>1, <2>2 DEF CopyField, Promise!Publish, Promise!Resolve,
       CopyAgrees, Durable
  <2>3. CASE entry \notin Registered
    BY <1>0, <1>8, <2>1, <2>3 DEF CopyField, TypeOK, Promise!vars
  <2> QED
    BY <2>2, <2>3
<1>9. ASSUME CopyDone
      PROVE  Promise!AnswerOk \/ UNCHANGED Promise!vars
  <2>1. CASE entry = last
    <3>1. Promise!Settled /\ boot = "run"
      BY <1>0, <1>9, <2>1 DEF CopyDone, Promise!Settled, Promise!Resolve, LiveMatchesFlash,
                        Copying, Durable, BootOrder
    <3>2. Owed = {} /\ Owed' = {} /\ Target' = Absent
      BY <1>0, <1>9, <2>1 DEF CopyDone, TypeOK, StoreCall, Owed, Target, InHand
    <3> QED
      BY <1>9, <2>1, <3>1, <3>2 DEF CopyDone, Promise!AnswerOk
  <2>2. CASE entry # last
    <3>1. Owed' = Owed /\ Target' = Target
      BY <1>0, <1>9, <2>2 DEF CopyDone, TypeOK, StoreCall, Owed, Target, InHand
    <3> QED
      BY <1>9, <2>2, <3>1 DEF CopyDone, Promise!vars
  <2> QED
    BY <2>1, <2>2
<1>10. ASSUME NEW i \in Index, NEW p \in Params, SetCall(i, p)
       PROVE  Promise!Ask({i}, p)
  BY <1>0, <1>10 DEF SetCall, Ready, Promise!Ask, table, StoreCall, Owed, Target, InHand
<1>11. ASSUME Ready, UNCHANGED <<nvs, table, boot, toLoad, pc, op, entry, last, params, left>>,
              rc' \in {"ok", "error"}
       PROVE  Promise!AnswerOk \/ Promise!AnswerError
  <2>1. Promise!Settled /\ boot = "run" /\ UNCHANGED <<nvs, live, boot>>
    BY <1>0, <1>11 DEF Ready, Promise!Settled, Promise!Resolve, LiveMatchesFlash,
                       Copying, Durable, table
  <2>2. Owed = {} /\ Owed' = {} /\ Target' = Absent /\ rc # "none"
    BY <1>0, <1>11 DEF Ready, StoreCall, Owed, Target, InHand
  <2> QED
    BY <1>11, <2>1, <2>2 DEF Promise!AnswerOk, Promise!AnswerError
<1>12. ASSUME NEW a \in Index, NEW b \in a .. Entries - 1, ResetCall(a, b)
       PROVE  Promise!Ask(a .. b, Absent)
  BY <1>0, <1>12 DEF ResetCall, Ready, Promise!Ask, table, StoreCall, Owed, Target, InHand
<1>13. ASSUME PowerCut
       PROVE  Promise!PowerCut
  BY <1>13 DEF PowerCut, Promise!PowerCut, Owed, Target, InHand
<1>14. ASSUME UNCHANGED vars
       PROVE  UNCHANGED Promise!vars
  BY <1>14 DEF vars, Promise!vars, Owed, Target, InHand
<1>15. ASSUME NEW i \in Index, GetCall(i)
       PROVE  Promise!AnswerOk \/ Promise!AnswerError
  BY <1>11, <1>15 DEF GetCall
<1>16. ASSUME Refuse
       PROVE  Promise!AnswerOk \/ Promise!AnswerError
  BY <1>11, <1>16 DEF Refuse
<1>17. ASSUME NEW i \in Index, ResetCall(i, i)
       PROVE  \E s \in SUBSET Index : Promise!Ask(s, Absent)
  BY <1>12, <1>17
<1>18. ASSUME ResetCall(0, Entries - 1)
       PROVE  \E s \in SUBSET Index : Promise!Ask(s, Absent)
  BY <1>12, <1>18
<1>19. ASSUME NEW f \in Field, CopyField(f)
       PROVE  [Promise!Next]_(Promise!vars)
  <2>1. CASE entry \in Registered
    BY <1>8, <1>19, <2>1 DEF Promise!Next
  <2>2. CASE entry \notin Registered
    BY <1>8, <1>19, <2>2 DEF Promise!Publish
  <2> QED
    BY <2>1, <2>2
<1>20. ASSUME Promise!Store(entry)
       PROVE  Promise!Next
  BY <1>0, <1>20 DEF Promise!Next, TypeOK
<1>21. ASSUME Boot
       PROVE  [Promise!Next]_(Promise!vars)
  BY <1>1, <1>2, <1>3, <1>4, <1>21 DEF Boot, Promise!Next
<1>22. ASSUME Continue
       PROVE  [Promise!Next]_(Promise!vars)
  BY <1>5, <1>6, <1>7, <1>9, <1>19, <1>20, <1>22 DEF Continue, Promise!Next
<1> QED
  BY <1>10, <1>13, <1>14, <1>15, <1>16, <1>17, <1>18, <1>21, <1>22
     DEF Next, Promise!Next

THEOREM StoreKeepsPromise ==
  ASSUME ~DeleteMayFail
  PROVE  Spec => KeepsPromise
<1>1. StoreInv /\ [Next]_vars => StoreInv'
  BY StepStoreInv
<1>2. StoreInv /\ StoreInv' /\ [Next]_vars => [Promise!Next]_(Promise!vars)
  BY StepPromise
<1>3. Spec => Promise!Init /\ [][Promise!Next]_(Promise!vars)
  BY InitStoreInv, InitPromise, <1>1, <1>2, PTL DEF Spec
<1> QED
  BY <1>3 DEF KeepsPromise, Promise!Spec

-----------------------------------------------------------------------------
(* The subsystems. *)


\* The hold-tap subsystem is over the same store.
LEMMA SameStore ==
  /\ H!Boot <=> Boot
  /\ H!Continue <=> Continue
  /\ H!PowerCut <=> PowerCut
  /\ H!Refuse <=> Refuse
  /\ H!Init <=> Init
  /\ \A i : H!GetCall(i) <=> GetCall(i)
  /\ \A i, p : H!SetCall(i, p) <=> SetCall(i, p)
  /\ \A a, b : H!ResetCall(a, b) <=> ResetCall(a, b)
  /\ H!Index = Index
  BY DEF H!Boot, Boot, H!Continue, Continue, H!PowerCut, PowerCut, H!Refuse, Refuse, H!Init, Init,
         H!GetCall, GetCall, H!SetCall, SetCall, H!ResetCall, ResetCall, H!Index, Index,
         H!Register, Register, H!SettingsSet, SettingsSet, H!StartLoad, StartLoad, H!LoadDone, LoadDone,
         H!SaveOk, SaveOk, H!SaveFails, SaveFails, H!Delete, Delete, H!CopyField, CopyField,
         H!CopyDone, CopyDone, H!Ready, Ready, H!table, table, H!call, call

\* A get is answered with what flash has, and the answer is gone before that changes.
GotInv ==
    /\ pc # "idle" \/ subsystem = "holdtap" => got = NotFound
    /\ GetAnswersDurable

\* What the hold-tap client holds is a struct flash still has: nothing is stored until
\* it sends it back.
HeldInv ==
    held # H!Nothing =>
        /\ subsystem = "holdtap" /\ boot = "run" /\ pc = "idle"
        /\ held.slot \in Index => held.info \in Params
        /\ held.slot \in Registered => held.info = Durable(held.slot)

\* What is about to be saved differs from flash in the edited field only.
EditInv ==
    pc = "save" =>
        /\ subsystem = "combos" => entry \in Registered
        /\ entry \in Registered => \A f \in Field \ edit : params[f] = Durable(entry)[f]

RpcInv == StoreInv /\ GotInv /\ HeldInv /\ EditInv /\ NoOrphanCombo

LEMMA InitRpcInv == AllInit => RpcInv
<1> SUFFICES ASSUME AllInit PROVE RpcInv
  OBVIOUS
<1>1. StoreInv
  BY InitStoreInv DEF AllInit, RpcInit
<1>2. got = NotFound /\ held = H!Nothing /\ pc = "idle" /\ nvs = [i \in Index |-> Absent]
  BY DEF AllInit, RpcInit, H!RpcInit, Init
<1> QED
  BY <1>1, <1>2 DEF RpcInv, GotInv, HeldInv, EditInv, NoOrphanCombo, NoOrphanKeys, GetAnswersDurable, NotFound

\* A request of either subsystem is a call of the store.
Request ==
    \/ \E i : GetCall(i)
    \/ \E i \in Index, p \in Params : SetCall(i, p)
    \/ \E i \in Index : ResetCall(i, i)
    \/ ResetCall(0, Entries - 1)
    \/ Refuse

LEMMA RequestsAreCalls ==
  ASSUME TypeInv, Request
  PROVE  Next
<1>1. ASSUME NEW i, GetCall(i) PROVE Next
  <2>1. CASE i \in Index
    BY <1>1, <2>1 DEF Next
  <2>2. CASE i \notin Index
    <3>1. i \notin registered
      BY <2>2, StoreAssumption DEF TypeInv, TypeOK
    <3>2. Refuse
      BY <1>1, <3>1 DEF GetCall, Refuse
    <3> QED
      BY <3>2 DEF Next
  <2> QED
    BY <2>1, <2>2
<1> QED
  BY <1>1 DEF Request, Next

\* Boot and the rest of a call: they change flash in the middle of a call only.
LEMMA StoreStepsKeep ==
  ASSUME RpcInv, StoreInv', Boot \/ Continue, UNCHANGED <<got, edit, held, subsystem>>
  PROVE  RpcInv'
<1> USE StoreAssumption
<1>1. CASE Boot
  <2>1. boot # "run" /\ UNCHANGED <<nvs, pc, entry, params>>
    BY <1>1 DEF Boot, Register, SettingsSet, StartLoad, LoadDone, call
  <2>2. pc = "idle" /\ held = H!Nothing
    BY <2>1 DEF RpcInv, StoreInv, TypeInv, BootOrder, HeldInv
  <2> QED
    BY <2>1, <2>2 DEF RpcInv, GotInv, HeldInv, EditInv, NoOrphanCombo, NoOrphanKeys, GetAnswersDurable, Durable
<1>2. CASE Continue
  <2>1. pc # "idle" /\ pc' # "save"
    BY <1>2 DEF Continue, SaveOk, SaveFails, Delete, CopyField, CopyDone
  <2>2. got = NotFound /\ held = H!Nothing
    BY <2>1 DEF RpcInv, GotInv, HeldInv
  <2>3. \/ pc = "save" /\ nvs' = [nvs EXCEPT ![entry] = params]
        \/ nvs' = [nvs EXCEPT ![entry] = Absent]
        \/ nvs' = nvs
    BY <1>2 DEF Continue, SaveOk, SaveFails, Delete, CopyField, CopyDone
  <2>4. NoOrphanCombo'
    BY <2>3 DEF RpcInv, StoreInv, TypeInv, TypeOK, EditInv, NoOrphanCombo, NoOrphanKeys
  <2> QED
    BY <2>1, <2>2, <2>4 DEF RpcInv, GotInv, HeldInv, EditInv, GetAnswersDurable, NotFound
<1> QED
  BY <1>1, <1>2

\* A call begins: nothing is stored yet.
LEMMA Begins ==
  ASSUME StoreInv, Request
  PROVE  /\ boot = "run" /\ pc = "idle" /\ UNCHANGED <<nvs, live, registered, boot>>
         /\ registered = Registered
         /\ \A i \in Registered : live[i] = Durable(i) /\ live[i] \in Params /\ i \in Index
<1>1. boot = "run" /\ pc = "idle" /\ UNCHANGED <<nvs, live, registered, boot>>
  BY DEF Request, GetCall, SetCall, ResetCall, Refuse, Ready, table
<1>2. registered = Registered
  BY <1>1 DEF StoreInv, BootAgrees
<1>3. \A i \in Registered : live[i] = Durable(i) /\ live[i] \in Params /\ i \in Index
  BY <1>1, StoreAssumption DEF StoreInv, LiveMatchesFlash, Copying, TypeInv, TypeOK
<1> QED
  BY <1>1, <1>2, <1>3

CombosRequest ==
    \/ \E ix \in ReqIndex : HandleGet(ix) \/ HandleReset(ix)
    \/ \E ix \in ReqIndex, f \in Field, d \in Datum : HandleSet(ix, f, d)
    \/ HandleUnknown
    \/ OnSettingsReset

LEMMA CombosRequestsAreCalls ==
  ASSUME StoreInv, CombosRequest
  PROVE  Request
<1>1. ASSUME NEW ix \in ReqIndex, NEW f \in Field, NEW d \in Datum, HandleSet(ix, f, d)
      PROVE  Request
  <2>1. CASE Cast(ix) \notin registered
    BY <1>1, <2>1 DEF HandleSet, Request
  <2>2. CASE Cast(ix) \in registered
    <3>1. Cast(ix) \in Index /\ [live[Cast(ix)] EXCEPT ![f] = d] \in Params
      BY <2>2, StoreAssumption DEF StoreInv, TypeInv, TypeOK, Params
    <3> QED
      BY <1>1, <2>2, <3>1 DEF HandleSet, Request
  <2> QED
    BY <2>1, <2>2
<1> QED
  BY <1>1 DEF CombosRequest, HandleGet, HandleReset, HandleUnknown, OnSettingsReset, Request

LEMMA CombosRequestsKeep ==
  ASSUME RpcInv, StoreInv', subsystem = "combos", CombosRequest, UNCHANGED <<subsystem, held>>
  PROVE  RpcInv'
<1>1. StoreInv /\ Request
  BY CombosRequestsAreCalls DEF RpcInv
<1>2. /\ boot = "run" /\ pc = "idle" /\ UNCHANGED <<nvs, live, registered, boot>>
      /\ registered = Registered
      /\ \A i \in Registered : live[i] = Durable(i) /\ live[i] \in Params /\ i \in Index
  BY <1>1, Begins
<1>3. held = H!Nothing /\ NoOrphanCombo' /\ \A i : Durable(i)' = Durable(i)
  BY <1>2 DEF RpcInv, HeldInv, NoOrphanCombo, NoOrphanKeys, Durable
<1>4. ASSUME NEW ix, HandleGet(ix)
      PROVE  GotInv' /\ EditInv'
  <2>1. pc' = "idle"
    BY <1>2, <1>4 DEF HandleGet, GetCall
  <2>2. got' = NotFound \/ (got'.info = live[got'.index] /\ got'.index \in registered)
    BY <1>4 DEF HandleGet
  <2> QED
    BY <1>2, <1>3, <2>1, <2>2 DEF GotInv, EditInv, GetAnswersDurable, NotFound
<1>5. ASSUME NEW ix, NEW f \in Field, NEW d, HandleSet(ix, f, d)
      PROVE  GotInv' /\ EditInv'
  <2>1. got' = NotFound
    BY <1>5 DEF HandleSet
  <2>2. CASE Cast(ix) \notin registered
    <3>1. pc' = "idle"
      BY <1>2, <1>5, <2>2 DEF HandleSet, Refuse
    <3> QED
      BY <2>1, <3>1 DEF GotInv, EditInv, GetAnswersDurable, NotFound
  <2>3. CASE Cast(ix) \in registered
    <3>1. entry' = Cast(ix) /\ params' = [live[Cast(ix)] EXCEPT ![f] = d] /\ edit' = {f}
      BY <1>5, <2>3 DEF HandleSet, SetCall
    <3>2. live[Cast(ix)] = Durable(Cast(ix)) /\ live[Cast(ix)] \in [Field -> Datum]
      BY <1>2, <2>3 DEF Params
    <3>3. \A g \in Field \ edit' : params'[g] = Durable(entry)'[g]
      BY <1>2, <3>1, <3>2 DEF Durable
    <3> QED
      BY <1>2, <2>1, <2>3, <3>1, <3>3 DEF GotInv, EditInv, GetAnswersDurable, NotFound
  <2> QED
    BY <2>2, <2>3
<1>6. ASSUME \/ \E ix : HandleReset(ix)
             \/ HandleUnknown \/ OnSettingsReset
      PROVE  GotInv' /\ EditInv'
  <2>1. got' = NotFound /\ pc' # "save"
    BY <1>2, <1>6 DEF HandleReset, HandleUnknown, OnSettingsReset, ResetCall, Refuse
  <2> QED
    BY <2>1 DEF GotInv, EditInv, GetAnswersDurable, NotFound
<1>7. GotInv' /\ EditInv'
  BY <1>4, <1>5, <1>6 DEF CombosRequest
<1> QED
  BY <1>3, <1>7 DEF RpcInv, HeldInv

-----------------------------------------------------------------------------
HoldTapRequest ==
    \/ \E sl \in ReqSlot : H!HandleGet(sl) \/ H!HandleReset(sl)
    \/ \E f \in Field, d \in Datum : H!HandleSet(f, d)
    \/ H!HandleUnknown
    \/ H!SettingsReset

LEMMA HoldTapRequestsAreCalls ==
  ASSUME RpcInv, HoldTapRequest
  PROVE  Request
<1>1. ASSUME NEW f \in Field, NEW d \in Datum, H!HandleSet(f, d)
      PROVE  Request
  <2>1. CASE held.slot \notin Index
    BY <1>1, <2>1, SameStore DEF H!HandleSet, Request
  <2>2. CASE held.slot \in Index
    <3>1. held.info \in Params
      BY <1>1, <2>2 DEF RpcInv, HeldInv, H!HandleSet
    <3>2. [held.info EXCEPT ![f] = d] \in Params
      BY <3>1 DEF Params
    <3>3. SetCall(held.slot, [held.info EXCEPT ![f] = d])
      BY <1>1, <2>2, SameStore DEF H!HandleSet
    <3> QED
      BY <2>2, <3>2, <3>3 DEF Request
  <2> QED
    BY <2>1, <2>2
<1>2. ASSUME NEW sl, H!HandleGet(sl) PROVE Request
  BY <1>2, SameStore DEF H!HandleGet, Request
<1>3. ASSUME NEW sl, H!HandleReset(sl) PROVE Request
  BY <1>3, SameStore DEF H!HandleReset, Request
<1>4. ASSUME H!HandleUnknown \/ H!SettingsReset PROVE Request
  BY <1>4, SameStore DEF H!HandleUnknown, H!SettingsReset, Request
<1> QED
  BY <1>1, <1>2, <1>3, <1>4 DEF HoldTapRequest

LEMMA HoldTapRequestsKeep ==
  ASSUME RpcInv, StoreInv', subsystem = "holdtap", HoldTapRequest, UNCHANGED <<subsystem, got>>
  PROVE  RpcInv'
<1>1. StoreInv /\ Request
  BY HoldTapRequestsAreCalls DEF RpcInv
<1>2. /\ boot = "run" /\ pc = "idle" /\ UNCHANGED <<nvs, live, registered, boot>>
      /\ registered = Registered
      /\ \A i \in Registered : live[i] = Durable(i) /\ live[i] \in Params /\ i \in Index
  BY <1>1, Begins
<1>3. got = NotFound /\ GotInv' /\ NoOrphanCombo' /\ \A i : Durable(i)' = Durable(i)
  BY <1>2 DEF RpcInv, GotInv, NoOrphanCombo, GetAnswersDurable, NotFound, Durable
<1>4. ASSUME NEW sl, H!HandleGet(sl)
      PROVE  HeldInv' /\ EditInv'
  <2>1. pc' = "idle"
    BY <1>2, <1>4, SameStore DEF H!HandleGet, GetCall
  <2> DEFINE n == H!Cast(sl)
  <2>2. held' = [slot |-> n, info |-> IF n \in registered THEN live[n] ELSE ZeroInfo]
    BY <1>4 DEF H!HandleGet
  <2> HIDE DEF n
  <2>3. held'.slot = n /\ held'.info \in Params
    BY <1>2, <2>2, StoreRpcAssumption
  <2>4. n \in Registered => held'.info = Durable(n)'
    BY <1>2, <1>3, <2>2
  <2>5. held'.slot \in Registered => held'.info = Durable(held.slot)'
    BY <2>3, <2>4 DEF Durable
  <2> QED
    BY <1>2, <2>1, <2>3, <2>5 DEF HeldInv, EditInv
<1>5. ASSUME NEW f \in Field, NEW d, H!HandleSet(f, d)
      PROVE  HeldInv' /\ EditInv'
  <2>1. held' = H!Nothing /\ held # H!Nothing /\ edit' = {f}
    BY <1>5 DEF H!HandleSet
  <2>2. CASE held.slot \notin Index
    <3>1. pc' = "idle"
      BY <1>2, <1>5, <2>2, SameStore DEF H!HandleSet, Refuse
    <3> QED
      BY <2>1, <3>1 DEF HeldInv, EditInv
  <2>3. CASE held.slot \in Index
    <3>1. entry' = held.slot /\ params' = [held.info EXCEPT ![f] = d]
      BY <1>5, <2>3, SameStore DEF H!HandleSet, SetCall
    <3>2. /\ held.info \in [Field -> Datum]
          /\ held.slot \in Registered => held.info = Durable(held.slot)
      BY <2>1, <2>3 DEF RpcInv, HeldInv, Params
    <3>3. entry' \in Registered => \A g \in Field \ edit' : params'[g] = Durable(entry)'[g]
      BY <1>2, <2>1, <3>1, <3>2 DEF Durable
    <3>4. subsystem' # "combos"
      OBVIOUS
    <3> QED
      BY <2>1, <3>3, <3>4 DEF HeldInv, EditInv
  <2> QED
    BY <2>2, <2>3
<1>6. ASSUME \/ \E sl : H!HandleReset(sl)
             \/ H!HandleUnknown \/ H!SettingsReset
      PROVE  HeldInv' /\ EditInv'
  <2>1. held' = H!Nothing /\ pc' # "save"
    BY <1>2, <1>6, SameStore
    DEF H!HandleReset, H!HandleUnknown, H!SettingsReset, ResetCall, Refuse
  <2> QED
    BY <2>1 DEF HeldInv, EditInv
<1>7. HeldInv' /\ EditInv'
  BY <1>4, <1>5, <1>6 DEF HoldTapRequest
<1> QED
  BY <1>3, <1>7 DEF RpcInv

-----------------------------------------------------------------------------
LEMMA RestartKeeps ==
  ASSUME RpcInv, StoreInv', UNCHANGED subsystem,
         \/ subsystem = "combos" /\ Restart /\ UNCHANGED held
         \/ subsystem = "holdtap" /\ H!Restart /\ UNCHANGED got
  PROVE  RpcInv'
<1>1. PowerCut
  BY SameStore DEF Restart, H!Restart
<1>2. pc' = "idle" /\ UNCHANGED nvs
  BY <1>1 DEF PowerCut
<1>3. got' = NotFound /\ held' = H!Nothing
  BY DEF RpcInv, GotInv, HeldInv, Restart, H!Restart
<1>4. NoOrphanCombo'
  BY <1>2 DEF RpcInv, NoOrphanCombo, NoOrphanKeys
<1> QED
  BY <1>2, <1>3, <1>4 DEF RpcInv, GotInv, HeldInv, EditInv, GetAnswersDurable, NotFound

\* Every step of the composition is a step of the store.
LEMMA StepsAreCalls ==
  ASSUME RpcInv, [AllNext]_allVars
  PROVE  [Next]_vars
<1>1. StoreInv /\ TypeInv
  BY DEF RpcInv, StoreInv
<1>2. ASSUME CombosRequest PROVE Next
  BY <1>1, <1>2, CombosRequestsAreCalls, RequestsAreCalls
<1>3. ASSUME HoldTapRequest PROVE Next
  BY <1>1, <1>3, HoldTapRequestsAreCalls, RequestsAreCalls
<1>4. ASSUME RpcNext PROVE Next
  BY <1>2, <1>4 DEF RpcNext, CombosRequest, StoreStep, Restart, Next
<1>5. ASSUME H!RpcNext PROVE Next
  BY <1>3, <1>5, SameStore DEF H!RpcNext, HoldTapRequest, H!StoreStep, H!Restart, Next
<1>6. ASSUME UNCHANGED allVars PROVE UNCHANGED vars
  BY <1>6 DEF allVars, rpcVars
<1> QED
  BY <1>4, <1>5, <1>6 DEF AllNext

LEMMA StepRpcInv ==
  ASSUME ~DeleteMayFail, RpcInv, [AllNext]_allVars
  PROVE  RpcInv'
<1>1. StoreInv'
  BY StepsAreCalls, StepStoreInv DEF RpcInv
<1>2. ASSUME subsystem = "combos", RpcNext, UNCHANGED <<subsystem, held>>
      PROVE  RpcInv'
  <2>1. CASE CombosRequest
    BY <1>1, <1>2, <2>1, CombosRequestsKeep
  <2>2. CASE StoreStep
    BY <1>1, <1>2, <2>2, StoreStepsKeep DEF StoreStep
  <2>3. CASE Restart
    BY <1>1, <1>2, <2>3, RestartKeeps
  <2> QED
    BY <1>2, <2>1, <2>2, <2>3 DEF RpcNext, CombosRequest
<1>3. ASSUME subsystem = "holdtap", H!RpcNext, UNCHANGED <<subsystem, got>>
      PROVE  RpcInv'
  <2>1. CASE HoldTapRequest
    BY <1>1, <1>3, <2>1, HoldTapRequestsKeep
  <2>2. CASE H!StoreStep
    BY <1>1, <1>3, <2>2, StoreStepsKeep, SameStore DEF H!StoreStep
  <2>3. CASE H!Restart
    BY <1>1, <1>3, <2>3, RestartKeeps
  <2> QED
    BY <1>3, <2>1, <2>2, <2>3 DEF H!RpcNext, HoldTapRequest
<1>4. ASSUME UNCHANGED allVars PROVE RpcInv'
  BY <1>1, <1>4 DEF allVars, rpcVars, vars, RpcInv, GotInv, HeldInv, EditInv, NoOrphanCombo,
                    NoOrphanKeys, GetAnswersDurable, Durable
<1> QED
  BY <1>2, <1>3, <1>4 DEF AllNext

-----------------------------------------------------------------------------
\* Whatever the host asks and whenever the power goes, a combo's get is answered with
\* the value the keyboard would restore, and not with one a failed save left in RAM.
THEOREM GetsAreDurable ==
  ASSUME ~DeleteMayFail
  PROVE  AllSpec => []GetAnswersDurable
<1>1. RpcInv => GetAnswersDurable
  BY DEF RpcInv, GotInv
<1>2. RpcInv /\ [AllNext]_allVars => RpcInv'
  BY StepRpcInv
<1> QED
  BY InitRpcInv, <1>1, <1>2, PTL DEF AllSpec

\* No sequence of combo requests, with the index cut to eight bits on the way, writes a
\* key for a combo no devicetree node registered.
THEOREM NoOrphans ==
  ASSUME ~DeleteMayFail
  PROVE  AllSpec => []NoOrphanCombo
<1>1. RpcInv => NoOrphanCombo
  BY DEF RpcInv
<1>2. RpcInv /\ [AllNext]_allVars => RpcInv'
  BY StepRpcInv
<1> QED
  BY InitRpcInv, <1>1, <1>2, PTL DEF AllSpec

\* A set changes in flash the field it names and no other, though the hold-tap struct
\* goes to the host and back between two requests.
THEOREM EditsKeepFields ==
  ASSUME ~DeleteMayFail
  PROVE  AllSpec => EditKeepsOtherFields
<1> DEFINE Step == \A i \in Registered : op = "set" /\ nvs'[i] # nvs[i] =>
                      \A f \in Field \ edit : H!Durable(i)'[f] = H!Durable(i)[f]
<1>1. ASSUME RpcInv, [AllNext]_allVars
      PROVE  Step
  <2> SUFFICES ASSUME NEW i \in Registered, op = "set", nvs'[i] # nvs[i], NEW f \in Field \ edit
               PROVE  H!Durable(i)'[f] = H!Durable(i)[f]
    OBVIOUS
  <2>1. [Next]_vars /\ StoreInv
    BY <1>1, StepsAreCalls DEF RpcInv
  <2>2. pc # "delete"
    BY <2>1 DEF StoreInv, StoreCall
  <2>3. SaveOk
    BY <2>1, <2>2 DEF Next, Boot, Continue, Register, SettingsSet, StartLoad, LoadDone,
                SaveFails, Delete, CopyField, CopyDone, SetCall, GetCall, ResetCall,
                Refuse, PowerCut, vars, table, call
  <2>4. pc = "save" /\ nvs' = [nvs EXCEPT ![entry] = params] /\ params # Absent
    BY <2>1, <2>3, StoreAssumption DEF SaveOk, StoreInv, TypeInv, TypeOK
  <2>5. nvs \in [Index -> Cell] /\ i \in Index
    BY <2>1, StoreAssumption DEF StoreInv, TypeInv, TypeOK
  <2>6. i = entry /\ nvs'[i] = params
    BY <2>4, <2>5
  <2>7. params[f] = Durable(i)[f]
    BY <1>1, <2>4, <2>6 DEF RpcInv, EditInv
  <2> QED
    BY <2>4, <2>6, <2>7 DEF Durable, H!Durable
<1>2. RpcInv /\ [AllNext]_allVars => RpcInv'
  BY StepRpcInv
<1>3. AllSpec => [][Step]_(H!rpcVars)
  BY InitRpcInv, <1>1, <1>2, PTL DEF AllSpec
<1> QED
  BY <1>3 DEF EditKeepsOtherFields, H!EditKeepsOtherFields

-----------------------------------------------------------------------------
(* The page. *)

\* What the reload after an operation has to read again.
OpShape(oper, parts) ==
    /\ oper.do \in {"rename", "key", "part", "add", "remove", "move", "restore", "reset"}
    /\ oper.do = "part" => parts # None /\ oper.part \in parts
    /\ oper.do = "reset" => parts = None

CallShape(c) ==
    /\ DOMAIN c = {"at", "sent", "parts", "groups", "served"}
    /\ c.at \in {"op", "state", "features", "groups", "save", "snapshot"}
    /\ c.parts \in {None} \cup SUBSET Part
    /\ c.groups \in BOOLEAN /\ c.served \in BOOLEAN
    /\ c.at = "op" => OpShape(c.sent, c.parts)

Calls ==
    /\ calls = [l \in Lane |-> calls[l]]
    /\ \A l \in Lane : calls[l] = Free \/ CallShape(calls[l])

\* Each reply belongs to a call of its own that waits for it.
Replies ==
    /\ \E S : replies \in Seq(S)
    /\ \A k \in 1 .. Len(replies) :
          /\ replies[k].to \in Lane
          /\ calls[replies[k].to] # Free /\ calls[replies[k].to].served
          /\ \A j \in 1 .. Len(replies) : replies[j].to = replies[k].to => j = k

Device(d) ==
    /\ DOMAIN d = {"layers", "count", "locked"}
    /\ d.count \in [Contents -> Nat]

Wires == Calls /\ Replies /\ Device(dev)

-----------------------------------------------------------------------------

\* An operation changes no part that its call does not read again.
LEMMA CarriedShape ==
  ASSUME Device(dev), NEW oper, NEW parts \in {None} \cup SUBSET Part,
         OpShape(oper, parts), NEW d \in Carried(oper)
  PROVE  /\ Device(d)
         /\ \A p \in Part : p \in All(parts) \/ d.count[p] = dev.count[p]
<1> USE PageAssumption DEF PageAssumption, Device, OpShape, Contents, All
<1>0. \A c \in Contents : Count(c) \in [Contents -> Nat] /\ \A p \in Contents : p = c \/ Count(c)[p] = dev.count[p]
  BY DEF Count
<1>1. ~dev.locked
  BY DEF Carried
<1>2. CASE d.count = dev.count /\ DOMAIN d = DOMAIN dev
  BY <1>2
<1>3. CASE oper.do \in {"rename", "key"}
  <2>1. d = [dev EXCEPT !.count = Count("keymap")]
    BY <1>1, <1>3 DEF Carried
  <2> QED
    BY <1>0, <2>1
<1>4. CASE oper.do = "part"
  <2>1. d = [dev EXCEPT !.count = Count(oper.part)]
    BY <1>1, <1>4 DEF Carried
  <2> QED
    BY <1>0, <1>4, <2>1
<1>5. CASE oper.do = "reset"
  <2>1. d = [dev EXCEPT !.layers = FirstLayers, !.count = [c \in Contents |-> @[c] + 1]]
    BY <1>1, <1>5 DEF Carried
  <2>2. d.count = [c \in Contents |-> dev.count[c] + 1] /\ DOMAIN d = DOMAIN dev
    BY <2>1
  <2> QED
    BY <1>5, <2>2
<1>6. CASE oper.do \in {"add", "remove", "move", "restore"}
  <2>1. PICK s : d = [dev EXCEPT !.layers = s]
    BY <1>1, <1>6 DEF Carried
  <2> QED
    BY <1>2, <2>1
<1> QED
  BY <1>3, <1>4, <1>5, <1>6

-----------------------------------------------------------------------------
(* The calls and their replies. *)

\* What a step of the page, its card or the server comes down to.
Asks(oper, parts, groups) ==
    /\ OpShape(oper, parts) /\ parts \in {None} \cup SUBSET Part /\ groups \in BOOLEAN
    /\ parts # None => features # None
    /\ Run(oper, parts, groups)

Move ==
    \/ \E l \in Lane : Serve(l)
    \/ Resume
    \/ Lock
    \/ Refresh \/ DoSnapshot
    \/ \E oper, parts, groups : Asks(oper, parts, groups)
    \/ \E save : SaveGroups(save)
    \/ UNCHANGED pageVars

LEMMA EveryStepMoves == [CardNext]_cardVars => Move
<1> SUFFICES ASSUME [CardNext]_cardVars PROVE Move
  OBVIOUS
<1>1. CASE UNCHANGED cardVars
  BY <1>1 DEF cardVars, Move
<1>2. CASE ServerStep
  BY <1>2 DEF ServerStep, Move
<1>3. CASE ReplyStep
  BY <1>3 DEF ReplyStep, Move
<1>4. CASE PageStep
  <2>1. CASE Refresh \/ DoSnapshot
    BY <2>1 DEF Move
  <2>2. CASE Reset
    <3>1. Asks([do |-> "reset"], None, FALSE)
      BY <2>2 DEF Reset, Asks, OpShape
    <3> QED
      BY <3>1 DEF Move
  <2>3. CASE EditKey
    <3>1. Asks([do |-> "key"], None, FALSE)
      BY <2>3 DEF EditKey, Asks, OpShape
    <3> QED
      BY <3>1 DEF Move
  <2>4. ASSUME NEW p \in Part, EditPart(p) PROVE Move
    <3>1. {p} # None
      BY PageAssumption DEF PageAssumption
    <3>2. Asks([do |-> "part", part |-> p], {p}, FALSE)
      BY <2>4, <3>1 DEF EditPart, Asks, OpShape
    <3> QED
      BY <3>2 DEF Move
  <2> QED
    BY <1>4, <2>1, <2>2, <2>3, <2>4 DEF PageStep
<1>5. CASE CardStep
  <2>1. ASSUME NEW oper, Do(oper, TRUE), oper.do \in {"remove", "move", "add", "restore"} PROVE Move
    <3>1. Asks(oper, None, TRUE)
      BY <2>1 DEF Do, Asks, OpShape
    <3> QED
      BY <3>1 DEF Move
  <2>2. ASSUME NEW doc, Save(doc) PROVE Move
    BY <2>2 DEF Save, Move
  <2>3. CASE CommitRename
    <3>1. Asks([do |-> "rename", layer |-> open.layer], None, FALSE)
      BY <2>3 DEF CommitRename, Do, Asks, OpShape
    <3> QED
      BY <3>1 DEF Move
  <2>4. CASE ConfirmRemove \/ Add
    BY <2>1, <2>4 DEF ConfirmRemove, Add
  <2>5. ASSUME NEW i \in Rows, DropOnRow(i) PROVE Move
    BY <2>1, <2>5 DEF DropOnRow
  <2>6. ASSUME NEW id \in LayerId, Restore(id) PROVE Move
    BY <2>1, <2>6 DEF Restore
  <2>7. CASE \/ \E g \in GroupIds \cup {None} : ToGroup(g)
             \/ DeleteGroup \/ Recolour
             \/ \E n \in GroupName : CommitGroupName(n) \/ CreateGroup(n)
    BY <2>2, <2>7 DEF ToGroup, DeleteGroup, Recolour, CommitGroupName, CreateGroup
  <2>8. CASE \/ \E i \in Rows : OpenConfirm(i) \/ DragStart(i) \/ StartEdit(i) \/ OpenLayerMenu(i)
             \/ \E g \in GroupIds : OpenGroupMenu(g)
             \/ StartCreating \/ StartGroupName \/ Close
    BY <2>8 DEF OpenConfirm, DragStart, StartEdit, OpenLayerMenu, OpenGroupMenu, StartCreating,
                StartGroupName, Close, Open, Move
  <2> QED
    BY <1>5, <2>3, <2>4, <2>5, <2>6, <2>7, <2>8 DEF CardStep
<1> QED
  BY <1>1, <1>2, <1>3, <1>4, <1>5 DEF CardNext

\* The replies without the one that arrives.
LEMMA Taken ==
  ASSUME NEW S, NEW s \in Seq(S), NEW k \in 1 .. Len(s)
  PROVE  /\ RemoveAt(s, k) \in Seq(S)
         /\ Len(RemoveAt(s, k)) = Len(s) - 1
         /\ \A j \in 1 .. Len(s) - 1 : RemoveAt(s, k)[j] = IF j < k THEN s[j] ELSE s[j + 1]
<1> DEFINE a == SubSeq(s, 1, k - 1)
           b == SubSeq(s, k + 1, Len(s))
<1>1. a \in Seq(S) /\ Len(a) = k - 1 /\ \A j \in 1 .. k - 1 : a[j] = s[j]
  OBVIOUS
<1>2. b \in Seq(S) /\ Len(b) = Len(s) - k /\ \A j \in 1 .. Len(s) - k : b[j] = s[j + k]
  OBVIOUS
<1>3. RemoveAt(s, k) = a \o b
  BY DEF RemoveAt
<1>4. Len(s) \in Nat
  OBVIOUS
<1> HIDE DEF a, b
<1>5. /\ a \o b \in Seq(S) /\ Len(a \o b) = Len(a) + Len(b)
      /\ \A j \in 1 .. Len(a) + Len(b) : (a \o b)[j] = IF j <= Len(a) THEN a[j] ELSE b[j - Len(a)]
  BY <1>1, <1>2, ConcatProperties
<1>6. ASSUME NEW j \in 1 .. Len(s) - 1 PROVE (a \o b)[j] = IF j < k THEN s[j] ELSE s[j + 1]
  <2>1. CASE j < k
    BY <1>1, <1>2, <1>4, <1>5, <2>1
  <2>2. CASE ~(j < k)
    <3>1. j - (k - 1) \in 1 .. Len(s) - k /\ j - (k - 1) + k = j + 1
      BY <1>4, <2>2
    <3>2. (a \o b)[j] = b[j - (k - 1)]
      BY <1>1, <1>2, <1>4, <1>5, <2>2
    <3> QED
      BY <1>2, <2>2, <3>1, <3>2
  <2> QED
    BY <2>1, <2>2
<1>7. a \o b \in Seq(S) /\ Len(a \o b) = Len(s) - 1
  BY <1>1, <1>2, <1>4, <1>5
<1> QED
  BY <1>3, <1>6, <1>7

LEMMA StartWires ==
  ASSUME Wires, NEW c, CallShape(c), c.served = FALSE, Start(c), UNCHANGED <<dev, replies>>
  PROVE  Wires'
<1>1. PICK l \in Lane : calls[l] = Free /\ calls' = [calls EXCEPT ![l] = c]
  BY DEF Start, UnderWay
<1>2. c # Free
  BY DEF CallShape, Free
<1>3. Calls'
  BY <1>1 DEF Wires, Calls
<1>4. Replies'
  BY <1>1 DEF Wires, Calls, Replies
<1> QED
  BY <1>3, <1>4 DEF Wires

LEMMA ServeWires ==
  ASSUME Wires, NEW l \in Lane, NEW what, Free.at \notin what, Asked(l, what),
         NEW ok, NEW doc, Reply(l, ok, doc), Device(dev)'
  PROVE  Wires'
<1> DEFINE r == [to |-> l, ok |-> ok, doc |-> doc]
<1>1. calls[l] # Free /\ CallShape(calls[l]) /\ calls[l].served = FALSE
  BY DEF Wires, Calls, CallShape, Asked, Free
<1>2. calls' = [calls EXCEPT ![l].served = TRUE] /\ replies' = Append(replies, r)
  BY DEF Reply
<1>3. CallShape(calls[l])' /\ calls'[l].served = TRUE /\ calls'[l] # Free
  BY <1>1, <1>2 DEF CallShape, Wires, Calls, Free
<1>4. Calls'
  BY <1>2, <1>3 DEF Wires, Calls
<1>5. PICK S : replies \in Seq(S)
  BY DEF Wires, Replies
<1>6. replies' \in Seq(S \cup {r}) /\ Len(replies') = Len(replies) + 1
      /\ (\A k \in 1 .. Len(replies) : replies'[k] = replies[k]) /\ replies'[Len(replies) + 1] = r
  BY <1>2, <1>5
<1>7. \A k \in 1 .. Len(replies) : replies[k].to # l
  BY <1>1 DEF Wires, Replies
<1>8. \A k \in 1 .. Len(replies') :
          /\ replies'[k].to \in Lane
          /\ calls'[replies'[k].to] # Free /\ calls'[replies'[k].to].served
          /\ \A j \in 1 .. Len(replies') : replies'[j].to = replies'[k].to => j = k
  <2> SUFFICES ASSUME NEW k \in 1 .. Len(replies')
               PROVE  /\ replies'[k].to \in Lane
                      /\ calls'[replies'[k].to] # Free /\ calls'[replies'[k].to].served
                      /\ \A j \in 1 .. Len(replies') : replies'[j].to = replies'[k].to => j = k
    OBVIOUS
  <2>1. Len(replies) \in Nat
    BY <1>5
  <2>2. CASE k = Len(replies) + 1
    BY <1>3, <1>6, <1>7, <2>1, <2>2
  <2>3. CASE k \in 1 .. Len(replies)
    <3>1. /\ replies'[k].to = replies[k].to /\ replies[k].to \in Lane /\ replies[k].to # l
          /\ calls[replies[k].to] # Free /\ calls[replies[k].to].served
      BY <1>6, <1>7, <2>3 DEF Wires, Replies
    <3>2. calls'[replies[k].to] = calls[replies[k].to]
      BY <1>2, <3>1 DEF Wires, Calls
    <3> QED
      BY <1>6, <2>1, <2>3, <3>1, <3>2 DEF Wires, Replies
  <2> QED
    BY <1>6, <2>1, <2>2, <2>3
<1> QED
  BY <1>4, <1>6, <1>8 DEF Wires, Replies

LEMMA ResumeWires ==
  ASSUME Wires, NEW k \in DOMAIN replies, Take(k), NEW c, c = Free \/ CallShape(c),
         GoOn(replies[k].to, c), UNCHANGED dev
  PROVE  Wires'
<1>1. PICK S : replies \in Seq(S)
  BY DEF Wires, Replies
<1>2. k \in 1 .. Len(replies)
  BY <1>1
<1>3. replies[k].to \in Lane
  BY <1>2 DEF Wires, Replies
<1>4. Calls'
  BY <1>3 DEF Wires, Calls, GoOn
<1>5. /\ replies' \in Seq(S) /\ Len(replies') = Len(replies) - 1 /\ Len(replies) \in Nat
      /\ \A j \in 1 .. Len(replies') : replies'[j] = IF j < k THEN replies[j] ELSE replies[j + 1]
  <2>1. replies' = RemoveAt(replies, k) /\ Len(replies) \in Nat
    BY <1>1 DEF Take
  <2> QED
    BY <1>1, <1>2, <2>1, Taken
<1>6. \A j \in 1 .. Len(replies) : j # k => calls'[replies[j].to] = calls[replies[j].to]
  BY <1>2, <1>3 DEF Wires, Calls, Replies, GoOn
<1>7. Replies'
  <2>1. ASSUME NEW j \in 1 .. Len(replies')
        PROVE  /\ replies'[j].to \in Lane
               /\ calls'[replies'[j].to] # Free /\ calls'[replies'[j].to].served
    <3>1. PICK i \in 1 .. Len(replies) : i # k /\ replies'[j] = replies[i]
      BY <1>2, <1>5, <2>1
    <3> QED
      BY <1>6, <3>1 DEF Wires, Replies
  <2>2. ASSUME NEW j \in 1 .. Len(replies'), NEW i \in 1 .. Len(replies'), replies'[i].to = replies'[j].to
        PROVE  i = j
    <3> DEFINE was(n) == IF n < k THEN n ELSE n + 1
    <3>1. was(i) \in 1 .. Len(replies) /\ was(j) \in 1 .. Len(replies)
      BY <1>2, <1>5
    <3>2. replies'[i] = replies[was(i)] /\ replies'[j] = replies[was(j)]
      BY <1>5
    <3>3. was(i) = was(j)
      BY <2>2, <3>1, <3>2 DEF Wires, Replies
    <3> QED
      BY <1>2, <1>5, <3>3
  <2> QED
    BY <1>5, <2>1, <2>2 DEF Replies
<1> QED
  BY <1>4, <1>7 DEF Wires

\* What a reply adds, and what one that arrives leaves.
LEMMA Replied ==
  ASSUME Wires, NEW l \in Lane, NEW what, Free.at \notin what, Asked(l, what),
         NEW ok, NEW doc, Reply(l, ok, doc)
  PROVE  /\ Len(replies) \in Nat /\ Len(replies') = Len(replies) + 1
         /\ \A k \in 1 .. Len(replies) :
               /\ replies'[k] = replies[k] /\ replies[k].to \in Lane \ {l}
               /\ calls'[replies[k].to] = calls[replies[k].to]
         /\ LET r == replies'[Len(replies) + 1] IN r.to = l /\ r.ok = ok /\ r.doc = doc
         /\ calls[l] # Free /\ CallShape(calls[l]) /\ calls[l].served = FALSE
         /\ calls' = [calls EXCEPT ![l] = [calls[l] EXCEPT !.served = TRUE]]
         /\ \A m \in Lane \ {l} : calls'[m] = calls[m]
         /\ calls'[l] = [calls[l] EXCEPT !.served = TRUE]
<1> DEFINE r == [to |-> l, ok |-> ok, doc |-> doc]
<1>1. calls[l] # Free /\ CallShape(calls[l]) /\ calls[l].served = FALSE
  BY DEF Wires, Calls, CallShape, Asked, Free
<1>2. calls' = [calls EXCEPT ![l] = [calls[l] EXCEPT !.served = TRUE]] /\ replies' = Append(replies, r)
  BY DEF Reply
<1>3. PICK S : replies \in Seq(S)
  BY DEF Wires, Replies
<1>4. /\ Len(replies) \in Nat /\ Len(replies') = Len(replies) + 1
      /\ \A k \in 1 .. Len(replies) : replies'[k] = replies[k]
      /\ replies'[Len(replies) + 1] = r
  BY <1>2, <1>3
<1>5. \A k \in 1 .. Len(replies) : replies[k].to \in Lane \ {l}
  BY <1>1 DEF Wires, Replies
<1>6. calls'[l] = [calls[l] EXCEPT !.served = TRUE] /\ \A m \in Lane \ {l} : calls'[m] = calls[m]
  BY <1>2 DEF Wires, Calls
<1> QED
  BY <1>1, <1>2, <1>4, <1>5, <1>6

Was(k, j) == IF j < k THEN j ELSE j + 1

LEMMA Resumed ==
  ASSUME Wires, NEW k \in DOMAIN replies, Take(k), NEW c, GoOn(replies[k].to, c)
  PROVE  /\ k \in 1 .. Len(replies) /\ Len(replies) \in Nat /\ Len(replies') = Len(replies) - 1
         /\ replies[k].to \in Lane /\ calls[replies[k].to] # Free
         /\ CallShape(calls[replies[k].to]) /\ calls[replies[k].to].served = TRUE
         /\ calls'[replies[k].to] = c
         /\ \A m \in Lane \ {replies[k].to} : calls'[m] = calls[m]
         /\ \A j \in 1 .. Len(replies') :
               /\ Was(k, j) \in 1 .. Len(replies) \ {k}
               /\ replies'[j] = replies[Was(k, j)]
               /\ replies[Was(k, j)].to \in Lane \ {replies[k].to}
               /\ calls'[replies[Was(k, j)].to] = calls[replies[Was(k, j)].to]
<1>1. PICK S : replies \in Seq(S)
  BY DEF Wires, Replies
<1>2. k \in 1 .. Len(replies) /\ Len(replies) \in Nat
  BY <1>1
<1>3. replies[k].to \in Lane /\ calls[replies[k].to] # Free
  BY <1>2 DEF Wires, Replies
<1>4. CallShape(calls[replies[k].to]) /\ calls[replies[k].to].served = TRUE
  BY <1>2, <1>3 DEF Wires, Calls, Replies, CallShape
<1>5. calls'[replies[k].to] = c /\ \A m \in Lane \ {replies[k].to} : calls'[m] = calls[m]
  BY <1>3 DEF Wires, Calls, GoOn
<1>6. replies' = RemoveAt(replies, k)
  BY DEF Take
<1>7. Len(replies') = Len(replies) - 1 /\ \A j \in 1 .. Len(replies') : replies'[j] = replies[Was(k, j)]
  BY <1>1, <1>2, <1>6, Taken DEF Was
<1>8. ASSUME NEW j \in 1 .. Len(replies')
      PROVE  Was(k, j) \in 1 .. Len(replies) \ {k} /\ replies[Was(k, j)].to \in Lane \ {replies[k].to}
  <2>1. Was(k, j) \in 1 .. Len(replies) \ {k}
    BY <1>2, <1>7 DEF Was
  <2> QED
    BY <1>2, <2>1 DEF Wires, Replies
<1> QED
  BY <1>2, <1>3, <1>4, <1>5, <1>7, <1>8

LEMMA ResumedFirst ==
  ASSUME Wires, 1 \in DOMAIN replies, Take(1), NEW c, GoOn(replies[1].to, c)
  PROVE  /\ replies[1].to \in Lane /\ calls'[replies[1].to] = c
         /\ \A m \in Lane \ {replies[1].to} : calls'[m] = calls[m]
         /\ Len(replies) \in Nat /\ 1 \in 1 .. Len(replies) /\ Len(replies') = Len(replies) - 1
         /\ \A j \in 1 .. Len(replies') :
               /\ Was(1, j) \in 1 .. Len(replies) \ {1}
               /\ replies'[j] = replies[Was(1, j)]
               /\ calls'[replies[Was(1, j)].to] = calls[replies[Was(1, j)].to]
<1>1. PICK k \in DOMAIN replies : k = 1
  OBVIOUS
<1>2. Take(k)
  BY <1>1
<1>3. GoOn(replies[k].to, c)
  BY <1>1
<1>4. /\ k \in 1 .. Len(replies) /\ Len(replies) \in Nat /\ Len(replies') = Len(replies) - 1
      /\ replies[k].to \in Lane /\ calls[replies[k].to] # Free
      /\ CallShape(calls[replies[k].to]) /\ calls[replies[k].to].served = TRUE
      /\ calls'[replies[k].to] = c
      /\ \A m \in Lane \ {replies[k].to} : calls'[m] = calls[m]
      /\ \A j \in 1 .. Len(replies') :
            /\ Was(k, j) \in 1 .. Len(replies) \ {k}
            /\ replies'[j] = replies[Was(k, j)]
            /\ replies[Was(k, j)].to \in Lane \ {replies[k].to}
            /\ calls'[replies[Was(k, j)].to] = calls[replies[Was(k, j)].to]
  BY <1>2, <1>3, Resumed
<1> QED
  BY <1>1, <1>4

LEMMA InitWires == CardInit => Wires
<1> SUFFICES ASSUME CardInit PROVE Wires
  OBVIOUS
<1>1. calls = [l \in Lane |-> CASE l = 1 -> Call("state", None, None, FALSE)
                                [] l = 2 -> Call("groups", None, None, FALSE)
                                [] OTHER -> Free]
  BY DEF CardInit, PageInit
<1>2. CallShape(Call("state", None, None, FALSE)) /\ CallShape(Call("groups", None, None, FALSE))
  BY DEF CallShape, Call
<1>3. Calls
  <2>1. ASSUME NEW l \in Lane PROVE calls[l] = Free \/ CallShape(calls[l])
    <3>1. CASE l = 1
      BY <1>1, <1>2, <3>1
    <3>2. CASE l = 2
      BY <1>1, <1>2, <3>2
    <3>3. CASE l # 1 /\ l # 2
      BY <1>1, <3>3
    <3> QED
      BY <3>1, <3>2, <3>3
  <2>2. calls = [l \in Lane |-> calls[l]]
    BY <1>1
  <2> QED
    BY <2>1, <2>2 DEF Calls
<1>4. Replies
  <2>1. replies = <<>> /\ replies \in Seq({})
    BY DEF CardInit, PageInit
  <2> QED
    BY <2>1 DEF Replies
<1>5. Device(dev)
  BY DEF CardInit, PageInit, Device
<1> QED
  BY <1>3, <1>4, <1>5 DEF Wires

\* A request by the user; a refresh of a quiet page makes up for a failed reload.
Starts(c) ==
    /\ CallShape(c) /\ c.served = FALSE /\ Start(c)
    /\ c.at \in {"op", "state", "save", "snapshot"}
    /\ c.parts # None => features # None
    /\ \/ missed' = missed
       \/ c.at = "state" /\ c.parts = None /\ missed' = missed \ {"reload"}
    /\ UNCHANGED <<server, documents, meta, replies>>

Still == UNCHANGED <<server, documents, meta, calls, replies, missed>>

LEMMA MovesAre ==
  ASSUME Move
  PROVE  \/ \E l \in Lane : ServeOp(l) \/ ServeRead(l) \/ ServeSave(l)
         \/ Resume \/ Lock \/ Still
         \/ \E c : Starts(c)
<1>1. ASSUME NEW oper, NEW parts, NEW groups, Asks(oper, parts, groups)
      PROVE  Still \/ \E c : Starts(c)
  <2> DEFINE c == Call("op", oper, parts, groups)
  <2>1. CASE state.locked
    BY <1>1, <2>1 DEF Asks, Run, Still, server, documents
  <2>2. CASE ~state.locked
    <3>1. CallShape(c) /\ c.served = FALSE /\ c.at = "op" /\ c.parts = parts
      BY <1>1 DEF Asks, Call, CallShape
    <3>2. Starts(c)
      BY <1>1, <2>2, <3>1 DEF Asks, Run, Starts
    <3> QED
      BY <3>2
  <2> QED
    BY <2>1, <2>2
<1>2. ASSUME NEW save, SaveGroups(save)
      PROVE  \E c : Starts(c)
  <2> DEFINE c == Call("save", save, None, FALSE)
  <2>1. CallShape(c) /\ c.served = FALSE /\ c.at = "save" /\ c.parts = None
    BY DEF Call, CallShape
  <2>2. Starts(c)
    BY <1>2, <2>1 DEF SaveGroups, Starts
  <2> QED
    BY <2>2
<1>3. CASE Refresh
  <2> DEFINE c == Call("state", None, None, FALSE)
  <2>1. CallShape(c) /\ c.served = FALSE /\ c.at = "state" /\ c.parts = None
    BY DEF Call, CallShape
  <2>2. Starts(c)
    BY <1>3, <2>1 DEF Refresh, Starts
  <2> QED
    BY <2>2
<1>4. CASE DoSnapshot
  <2> DEFINE c == Call("snapshot", None, None, FALSE)
  <2>1. CallShape(c) /\ c.served = FALSE /\ c.at = "snapshot" /\ c.parts = None
    BY DEF Call, CallShape
  <2>2. Starts(c)
    BY <1>4, <2>1 DEF DoSnapshot, Starts
  <2> QED
    BY <2>2
<1>5. CASE UNCHANGED pageVars
  BY <1>5 DEF pageVars, Still, server, documents
<1> QED
  BY <1>1, <1>2, <1>3, <1>4, <1>5 DEF Move, Serve

-----------------------------------------------------------------------------
(* A partial document is never taken for the features. *)

WholeInv ==
    /\ Wires
    /\ features = None \/ features \in [Part -> Nat]
    /\ \A l \in Lane : calls[l] # Free /\ calls[l].parts # None => features # None
    /\ \A k \in 1 .. Len(replies) :
          calls[replies[k].to].at = "features" /\ replies[k].ok =>
              replies[k].doc \in [All(calls[replies[k].to].parts) -> Nat]

LEMMA InitWholeInv == CardInit => WholeInv
<1> SUFFICES ASSUME CardInit PROVE WholeInv
  OBVIOUS
<1>1. features = None /\ replies = <<>>
  BY DEF CardInit, PageInit
<1>2. ASSUME NEW l \in Lane PROVE calls[l] = Free \/ calls[l].parts = None
  <2>1. CASE l = 1
    BY <2>1 DEF CardInit, PageInit, Call
  <2>2. CASE l = 2
    BY <2>2 DEF CardInit, PageInit, Call
  <2>3. CASE l # 1 /\ l # 2
    BY <2>3 DEF CardInit, PageInit
  <2> QED
    BY <2>1, <2>2, <2>3
<1> QED
  BY <1>1, <1>2, InitWires DEF WholeInv

LEMMA StartWhole ==
  ASSUME WholeInv, NEW c, Starts(c)
  PROVE  WholeInv'
<1>1. PICK l \in Lane : calls[l] = Free /\ calls' = [calls EXCEPT ![l] = c]
  BY DEF Starts, Start, UnderWay
<1>2. Wires'
  BY StartWires DEF WholeInv, Starts, server
<1>3. \A k \in 1 .. Len(replies) : replies[k].to \in Lane /\ calls'[replies[k].to] = calls[replies[k].to]
  BY <1>1 DEF WholeInv, Wires, Calls, Replies
<1>4. \A m \in Lane : calls'[m] = calls[m] \/ calls'[m] = c
  BY <1>1 DEF WholeInv, Wires, Calls
<1> QED
  BY <1>2, <1>3, <1>4 DEF WholeInv, Starts, documents

LEMMA ServeWhole ==
  ASSUME WholeInv, NEW l \in Lane, ServeOp(l) \/ ServeRead(l) \/ ServeSave(l)
  PROVE  WholeInv'
<1> USE PageAssumption DEF PageAssumption
<1>1. PICK what, ok, doc :
         /\ Free.at \notin what /\ Asked(l, what) /\ Reply(l, ok, doc)
         /\ Device(dev)'
         /\ calls[l].at = "features" /\ ok = TRUE => doc \in [All(calls[l].parts) -> Nat]
  <2>1. CASE ServeOp(l)
    <3>1. Asked(l, {"op"}) /\ Free.at \notin {"op"} /\ calls[l].at # "features"
      BY <2>1 DEF ServeOp, Asked, Free
    <3>2. OpShape(calls[l].sent, calls[l].parts) /\ calls[l].parts \in {None} \cup SUBSET Part
      BY <3>1 DEF WholeInv, Wires, Calls, CallShape, Asked, Free
    <3>3. Device(dev)'
      <4>1. dev' = dev \/ dev' \in Carried(calls[l].sent)
        BY <2>1 DEF ServeOp
      <4> QED
        BY <3>2, <4>1, CarriedShape DEF WholeInv, Wires, Device
    <3>4. \E ok, doc : Reply(l, ok, doc)
      BY <2>1 DEF ServeOp
    <3> QED
      BY <3>1, <3>3, <3>4
  <2>2. CASE ServeRead(l)
    <3>1. Asked(l, {"state", "features", "groups", "snapshot"}) /\ Free.at \notin {"state", "features", "groups", "snapshot"}
      BY <2>2 DEF ServeRead, Free
    <3>2. dev' = dev
      BY <2>2 DEF ServeRead, server
    <3>3. All(calls[l].parts) \in SUBSET Part
      BY <3>1 DEF WholeInv, Wires, Calls, CallShape, Asked, Free, All
    <3>4. FeaturesDoc(All(calls[l].parts)) \in [All(calls[l].parts) -> Nat]
      BY <3>3 DEF FeaturesDoc, WholeInv, Wires, Device, Contents
    <3>5. PICK ok, doc : Reply(l, ok, doc) /\ (calls[l].at = "features" /\ ok = TRUE => doc = FeaturesDoc(All(calls[l].parts)))
      <4>1. CASE Reply(l, FALSE, None)
        BY <4>1
      <4>2. CASE ~Reply(l, FALSE, None)
        <5>1. Reply(l, TRUE, CASE calls[l].at = "state" -> StateDoc
                              [] calls[l].at = "features" -> FeaturesDoc(All(calls[l].parts))
                              [] calls[l].at = "groups" -> MetaDoc(file)
                              [] OTHER -> None)
          BY <2>2, <4>2 DEF ServeRead
        <5> QED
          BY <5>1
      <4> QED
        BY <4>1, <4>2
    <3> QED
      BY <3>1, <3>2, <3>4, <3>5 DEF WholeInv, Wires
  <2>3. CASE ServeSave(l)
    <3>1. Asked(l, {"save"}) /\ Free.at \notin {"save"} /\ calls[l].at # "features"
      BY <2>3 DEF ServeSave, Asked, Free
    <3>2. dev' = dev
      BY <2>3 DEF ServeSave
    <3>3. \E ok, doc : Reply(l, ok, doc)
      BY <2>3 DEF ServeSave
    <3> QED
      BY <3>1, <3>2, <3>3 DEF WholeInv, Wires
  <2> QED
    BY <2>1, <2>2, <2>3
<1>2. Wires'
  BY <1>1, ServeWires DEF WholeInv
<1>3. features' = features
  BY DEF ServeOp, ServeRead, ServeSave, documents
<1>4. /\ \A k \in 1 .. Len(replies) :
            /\ replies'[k] = replies[k] /\ replies[k].to \in Lane \ {l}
            /\ calls'[replies[k].to] = calls[replies[k].to]
      /\ Len(replies) \in Nat /\ Len(replies') = Len(replies) + 1
      /\ LET r == replies'[Len(replies) + 1] IN r.to = l /\ r.ok = ok /\ r.doc = doc
      /\ calls[l] # Free /\ CallShape(calls[l])
      /\ \A m \in Lane \ {l} : calls'[m] = calls[m]
      /\ calls'[l] = [calls[l] EXCEPT !.served = TRUE]
  BY <1>1, Replied DEF WholeInv
<1>5. calls'[l].at = calls[l].at /\ calls'[l].parts = calls[l].parts
  BY <1>4 DEF CallShape
<1>6. \A k \in 1 .. Len(replies') :
          calls'[replies'[k].to].at = "features" /\ replies'[k].ok =>
              replies'[k].doc \in [All(calls'[replies'[k].to].parts) -> Nat]
  <2> SUFFICES ASSUME NEW k \in 1 .. Len(replies'), calls'[replies'[k].to].at = "features", replies'[k].ok
               PROVE  replies'[k].doc \in [All(calls'[replies'[k].to].parts) -> Nat]
    OBVIOUS
  <2>1. CASE k = Len(replies) + 1
    BY <1>1, <1>4, <1>5, <2>1
  <2>2. CASE k \in 1 .. Len(replies)
    BY <1>4, <2>2 DEF WholeInv
  <2> QED
    BY <1>4, <2>1, <2>2
<1>7. \A m \in Lane : calls'[m] # Free /\ calls'[m].parts # None => features' # None
  BY <1>3, <1>4, <1>5 DEF WholeInv
<1> QED
  BY <1>2, <1>3, <1>6, <1>7 DEF WholeInv, All

LEMMA Goes ==
  ASSUME NEW c, CallShape(c), NEW at \in {"state", "features", "groups"}
  PROVE  LET n == Next1(c, at) IN
         CallShape(n) /\ n.at = at /\ n.parts = c.parts /\ n.served = FALSE
<1> DEFINE n == Next1(c, at)
<1>1. /\ DOMAIN n = DOMAIN c
      /\ n.at = at /\ n.parts = c.parts /\ n.groups = c.groups /\ n.served = FALSE
  BY DEF Next1, Then, CallShape
<1> HIDE DEF n
<1>2. CallShape(n)
  <2>1. n.at \in {"op", "state", "features", "groups", "save", "snapshot"} /\ n.at # "op"
    BY <1>1
  <2>2. n.groups \in BOOLEAN /\ n.served \in BOOLEAN /\ n.parts \in {None} \cup SUBSET Part
    BY <1>1 DEF CallShape
  <2>3. DOMAIN n = {"at", "sent", "parts", "groups", "served"}
    BY <1>1 DEF CallShape
  <2> QED
    BY <2>1, <2>2, <2>3 DEF CallShape
<1> QED
  BY <1>1, <1>2 DEF n

\* Where a call goes with its reply.
NextCall(k, c) ==
    LET was == calls[replies[k].to] IN
    \/ c = Free
    \/ c = Next1(was, "state") /\ was.at = "op"
    \/ c = Next1(was, "features") /\ was.at = "state"
    \/ c = Next1(was, "groups") /\ was.at \in {"state", "features"}

LEMMA NextCallShape ==
  ASSUME Wires, NEW k \in 1 .. Len(replies), NEW c, NextCall(k, c)
  PROVE  c = Free \/ (CallShape(c) /\ c.parts = calls[replies[k].to].parts /\ c.served = FALSE)
<1>1. CallShape(calls[replies[k].to])
  BY DEF Wires, Calls, Replies
<1>2. c = Free \/ \E at \in {"state", "features", "groups"} : c = Next1(calls[replies[k].to], at)
  BY DEF NextCall
<1>3. ASSUME NEW at \in {"state", "features", "groups"}, c = Next1(calls[replies[k].to], at)
      PROVE  CallShape(c) /\ c.parts = calls[replies[k].to].parts /\ c.served = FALSE
  <2> DEFINE was == calls[replies[k].to]
  <2>1. CallShape(was)
    BY <1>1
  <2> HIDE DEF was
  <2>2. CallShape(Next1(was, at)) /\ Next1(was, at).parts = was.parts /\ Next1(was, at).served = FALSE
    BY <2>1, Goes
  <2> QED
    BY <1>3, <2>2 DEF was
<1> QED
  BY <1>2, <1>3

\* What a features document is merged into.
LEMMA FeaturesMerged ==
  ASSUME WholeInv, NEW k \in 1 .. Len(replies), FeaturesRead(k)
  PROVE  /\ features' \in [Part -> Nat] /\ features' # None
         /\ \A p \in Part :
               features'[p] = IF p \in All(calls[replies[k].to].parts) THEN replies[k].doc[p] ELSE features[p]
<1> USE PageAssumption DEF PageAssumption
<1> DEFINE parts == calls[replies[k].to].parts
           doc == replies[k].doc
<1>1. doc \in [All(parts) -> Nat] /\ parts \in {None} \cup SUBSET Part /\ (parts # None => features # None)
  BY DEF FeaturesRead, WholeInv, Wires, Calls, Replies, CallShape
<1>2. CASE parts = None
  <2>1. features' = doc
    BY <1>2 DEF FeaturesRead
  <2> QED
    BY <1>1, <1>2, <2>1 DEF All
<1>3. CASE parts # None
  <2>1. features \in [Part -> Nat] /\ parts \in SUBSET Part
    BY <1>1, <1>3 DEF WholeInv
  <2>2. features' = [p \in Part |-> IF p \in parts THEN doc[p] ELSE features[p]]
    <3>1. DOMAIN features \cup DOMAIN doc = Part /\ DOMAIN doc = parts
      BY <1>1, <1>3, <2>1 DEF All
    <3> QED
      BY <1>3, <2>1, <3>1 DEF FeaturesRead
  <2> HIDE DEF doc, parts
  <2>3. features' \in [Part -> Nat] /\ \A p \in Part : features'[p] = IF p \in All(parts) THEN doc[p] ELSE features[p]
    BY <1>1, <1>3, <2>1, <2>2 DEF All
  <2> QED
    BY <2>3 DEF doc, parts
<1> QED
  BY <1>2, <1>3

LEMMA ResumeWhole ==
  ASSUME WholeInv, Resume
  PROVE  WholeInv'
<1> USE PageAssumption DEF PageAssumption
<1>1. PICK k \in DOMAIN replies :
         /\ Take(k)
         /\ \/ OpAnswered(k) \/ StateRead(k) \/ FeaturesRead(k) \/ ReloadFailed(k)
            \/ GroupsRead(k) \/ SaveAnswered(k) \/ SnapshotTaken(k)
         /\ UNCHANGED <<server, events>>
  BY DEF Resume
<1> DEFINE l == replies[k].to
<1>2. k \in 1 .. Len(replies)
  BY DEF WholeInv, Wires, Replies
<1>3. PICK c : NextCall(k, c) /\ GoOn(l, c)
  <2>1. CASE OpAnswered(k)
    BY <2>1 DEF OpAnswered, NextCall
  <2>2. CASE StateRead(k)
    BY <2>2 DEF StateRead, NextCall
  <2>3. CASE FeaturesRead(k)
    BY <2>3 DEF FeaturesRead, AfterReload, NextCall
  <2>4. CASE ReloadFailed(k)
    BY <2>4 DEF ReloadFailed, AfterReload, NextCall
  <2>5. CASE GroupsRead(k) \/ SaveAnswered(k) \/ SnapshotTaken(k)
    BY <2>5 DEF GroupsRead, SaveAnswered, SnapshotTaken, NextCall
  <2> QED
    BY <1>1, <2>1, <2>2, <2>3, <2>4, <2>5
<1>4. c = Free \/ (CallShape(c) /\ c.parts = calls[l].parts /\ c.served = FALSE)
  BY <1>2, <1>3, NextCallShape DEF WholeInv
<1>5. Wires'
  BY <1>1, <1>3, <1>4, ResumeWires DEF WholeInv, server
<1>6. /\ l \in Lane /\ calls[l] # Free /\ CallShape(calls[l])
      /\ calls'[l] = c
      /\ \A m \in Lane \ {l} : calls'[m] = calls[m]
      /\ \A j \in 1 .. Len(replies') :
            /\ Was(k, j) \in 1 .. Len(replies) \ {k}
            /\ replies'[j] = replies[Was(k, j)]
            /\ replies[Was(k, j)].to \in Lane \ {l}
            /\ calls'[replies[Was(k, j)].to] = calls[replies[Was(k, j)].to]
  BY <1>1, <1>3, Resumed DEF WholeInv
<1>7. \A j \in 1 .. Len(replies') :
          calls'[replies'[j].to].at = "features" /\ replies'[j].ok =>
              replies'[j].doc \in [All(calls'[replies'[j].to].parts) -> Nat]
  BY <1>6 DEF WholeInv
<1>8. /\ features' = None \/ features' \in [Part -> Nat]
      /\ features # None => features' # None
  <2>1. CASE FeaturesRead(k)
    BY <1>2, <2>1, FeaturesMerged
  <2>2. CASE ~FeaturesRead(k)
    <3>1. features' = features
      BY <1>1, <2>2 DEF OpAnswered, StateRead, ReloadFailed, GroupsRead, SaveAnswered, SnapshotTaken, documents
    <3> QED
      BY <3>1 DEF WholeInv
  <2> QED
    BY <2>1, <2>2
<1>9. \A m \in Lane : calls'[m] # Free /\ calls'[m].parts # None => features' # None
  BY <1>4, <1>6, <1>8 DEF WholeInv
<1> QED
  BY <1>5, <1>7, <1>8, <1>9 DEF WholeInv, All

LEMMA StepWholeInv == WholeInv /\ [CardNext]_cardVars => WholeInv'
<1> SUFFICES ASSUME WholeInv, [CardNext]_cardVars
             PROVE  WholeInv'
  OBVIOUS
<1>1. Move
  BY EveryStepMoves
<1>2. CASE Lock
  BY <1>2 DEF Lock, documents, WholeInv, Wires, Calls, Replies, Device
<1>3. CASE Still
  BY <1>3 DEF Still, server, documents, WholeInv, Wires, Calls, Replies, Device
<1> QED
  BY <1>1, <1>2, <1>3, MovesAre, StartWhole, ServeWhole, ResumeWhole

\* Changes reload only the parts they name, and such a reload may overtake or follow a
\* full one, or fail: the page still never takes a partial document for the features
\* of the keyboard, in whatever order replies arrive.
THEOREM FeaturesStayWhole == CardSpec => []FeaturesWhole
<1>1. WholeInv => FeaturesWhole
  BY DEF WholeInv, FeaturesWhole
<1> QED
  BY <1>1, InitWholeInv, StepWholeInv, PTL DEF CardSpec

-----------------------------------------------------------------------------
(* What the page shows once nothing is under way, when replies come in order. *)

\* The documents of the page: the features are one for each part.
Docs == {[of |-> "state"], [of |-> "groups"]} \cup {[of |-> "part", part |-> p] : p \in Part}

\* Will the call c still have the document d read?
Reads(c, d) ==
    \/ d.of = "state" /\ ((c.at = "op" /\ c.served) \/ (c.at = "state" /\ ~c.served))
    \/ d.of = "part" /\ c.at \in {"op", "state", "features"} /\ d.part \in All(c.parts)
                     /\ (c.at = "op" => c.served) /\ (c.at = "features" => ~c.served)
    \/ d.of = "groups" /\ c.at = "groups" /\ ~c.served

\* Does the reply to the call c bring the document d?
Brings(c, d) ==
    \/ d.of = "state" /\ c.at = "state" /\ c.served
    \/ d.of = "part" /\ c.at = "features" /\ c.served /\ d.part \in All(c.parts)
    \/ d.of = "groups" /\ c.at \in {"groups", "save"} /\ c.served

Lost(d) == IF d.of = "groups" THEN "groups" ELSE "reload"

\* Is what was read of d what the keyboard dv and the file fl have?
Fresh(doc, d, dv, fl) ==
    /\ d.of = "state" => doc.layers = dv.layers /\ doc.count = dv.count["keymap"]
    /\ d.of = "part" => doc[d.part] = dv.count[d.part]
    /\ d.of = "groups" => doc.groups = fl

Shows(d) ==
    /\ d.of = "state" => Fresh(state, d, dev, file)
    /\ d.of = "part" => features # None /\ Fresh(features, d, dev, file)
    /\ d.of = "groups" => meta = file

\* The document will be read, or was lost, or a reply brings it, the last one of them
\* as the server has it, or it is shown.
Bringing(d) == {k \in 1 .. Len(replies) : Brings(calls[replies[k].to], d)}

DocInv(d) ==
    \/ \E l \in Lane : Reads(calls[l], d)
    \/ Lost(d) \in missed
    \/ \E k \in Bringing(d) : ~replies[k].ok
    \/ \E k \in Bringing(d) : Fresh(replies[k].doc, d, dev, file) /\ \A j \in Bringing(d) : j <= k
    \/ Bringing(d) = {} /\ Shows(d)

FreshInv == WholeInv /\ \A d \in Docs : DocInv(d)

LEMMA InitFreshInv == CardInit => FreshInv
<1> SUFFICES ASSUME CardInit PROVE FreshInv
  OBVIOUS
<1>1. 1 \in Lane /\ 2 \in Lane
  BY RequestsAssumption DEF RequestsAssumption, Lane
<1>2. /\ calls[1] = Call("state", None, None, FALSE)
      /\ calls[2] = Call("groups", None, None, FALSE)
  BY <1>1 DEF CardInit, PageInit
<1>3. \A d \in Docs : Reads(calls[1], d) \/ Reads(calls[2], d)
  BY <1>2 DEF Docs, Reads, Call, All
<1> QED
  BY <1>1, <1>3, InitWholeInv DEF FreshInv, DocInv

\* A call that starts: what it makes up for it reads.
LEMMA StartFresh ==
  ASSUME FreshInv, NEW c, Starts(c), NEW d \in Docs
  PROVE  DocInv(d)'
<1>1. PICK l \in Lane : calls[l] = Free /\ calls' = [calls EXCEPT ![l] = c]
  BY DEF Starts, Start, UnderWay
<1>2. calls'[l] = c /\ \A m \in Lane \ {l} : calls'[m] = calls[m]
  BY <1>1 DEF FreshInv, WholeInv, Wires, Calls
<1>3. replies' = replies /\ \A k \in 1 .. Len(replies) : calls'[replies[k].to] = calls[replies[k].to]
  BY <1>1, <1>2 DEF FreshInv, WholeInv, Wires, Replies, Starts
<1>4. Bringing(d)' = Bringing(d)
  BY <1>3 DEF Bringing
<1>5. UNCHANGED <<dev, file, state, features, meta>>
  BY DEF Starts, server, documents
<1>6. /\ Shows(d) => Shows(d)'
      /\ \A k \in 1 .. Len(replies) : (Fresh(replies[k].doc, d, dev', file') <=> Fresh(replies[k].doc, d, dev, file))
  BY <1>3, <1>5 DEF Shows, Fresh
<1>7. ASSUME NEW m \in Lane, Reads(calls[m], d)
      PROVE  Reads(calls'[m], d)
  <2>1. m # l
    BY <1>1, <1>7 DEF Reads, Free
  <2> QED
    BY <1>2, <1>7, <2>1
<1>8. CASE missed' = missed
  BY <1>3, <1>4, <1>5, <1>6, <1>7, <1>8 DEF FreshInv, DocInv, Bringing
<1>9. CASE c.at = "state" /\ c.parts = None /\ missed' = missed \ {"reload"}
  <2>1. CASE d.of = "groups"
    <3>1. Lost(d) \in missed => Lost(d) \in missed'
      BY <1>9, <2>1 DEF Lost
    <3> QED
      BY <1>3, <1>4, <1>5, <1>6, <1>7, <3>1 DEF FreshInv, DocInv, Bringing
  <2>2. CASE d.of # "groups"
    <3>1. Reads(c, d)
      BY <1>9, <2>2 DEF Starts, Docs, Reads, All
    <3> QED
      BY <1>2, <3>1 DEF DocInv
  <2> QED
    BY <2>1, <2>2
<1> QED
  BY <1>8, <1>9 DEF Starts

Served(c) == [c EXCEPT !.served = TRUE]

\* A call that is served: it will still have the document read, or its reply brings it,
\* or it has nothing to do with it.
LEMMA ServedDoc ==
  ASSUME FreshInv, NEW l \in Lane, NEW what, Free.at \notin what, Asked(l, what),
         NEW ok, NEW doc, Reply(l, ok, doc), NEW d \in Docs,
         UNCHANGED <<documents, meta, missed>>,
         \/ Reads(Served(calls[l]), d)
         \/ Brings(Served(calls[l]), d) /\ (ok = TRUE => Fresh(doc, d, dev', file'))
         \/ /\ ~Reads(calls[l], d) /\ ~Brings(Served(calls[l]), d)
            /\ \A e : (Fresh(e, d, dev', file') <=> Fresh(e, d, dev, file))
            /\ file' = file \/ d.of # "groups"
  PROVE  DocInv(d)'
<1> DEFINE n == Len(replies) + 1
<1>1. /\ Len(replies) \in Nat /\ Len(replies') = n
      /\ \A k \in 1 .. Len(replies) :
            /\ replies'[k] = replies[k] /\ replies[k].to \in Lane \ {l}
            /\ calls'[replies[k].to] = calls[replies[k].to]
      /\ replies'[n].to = l /\ replies'[n].ok = ok /\ replies'[n].doc = doc
      /\ \A m \in Lane \ {l} : calls'[m] = calls[m]
      /\ calls'[l] = Served(calls[l])
  BY Replied DEF FreshInv, WholeInv, Served
<1>2. CASE Reads(Served(calls[l]), d)
  BY <1>1, <1>2 DEF DocInv
<1>3. CASE Brings(Served(calls[l]), d) /\ (ok = TRUE => Fresh(doc, d, dev', file'))
  <2>1. n \in Bringing(d)'
    BY <1>1, <1>3 DEF Bringing
  <2>2. \A j \in Bringing(d)' : j <= n
    BY <1>1 DEF Bringing
  <2>3. CASE ok = TRUE
    <3>1. Fresh(replies'[n].doc, d, dev', file')
      BY <1>1, <1>3, <2>3 DEF Fresh
    <3> QED
      BY <2>1, <2>2, <3>1 DEF DocInv, Fresh
  <2>4. CASE ok # TRUE
    BY <1>1, <2>1, <2>4 DEF DocInv
  <2> QED
    BY <2>3, <2>4
<1>4. CASE /\ ~Reads(calls[l], d) /\ ~Brings(Served(calls[l]), d)
           /\ \A e : (Fresh(e, d, dev', file') <=> Fresh(e, d, dev, file))
           /\ file' = file \/ d.of # "groups"
  <2>1. Bringing(d)' = Bringing(d)
    BY <1>1, <1>4 DEF Bringing
  <2>2. Shows(d) => Shows(d)'
    BY <1>4 DEF Shows, documents
  <2>3. \A m \in Lane : Reads(calls[m], d) => Reads(calls'[m], d)
    BY <1>1, <1>4
  <2>4. \A k \in Bringing(d) : replies'[k] = replies[k]
    BY <1>1 DEF Bringing
  <2> QED
    BY <1>4, <2>1, <2>2, <2>3, <2>4 DEF FreshInv, DocInv
<1> QED
  BY <1>2, <1>3, <1>4

LEMMA ServeFresh ==
  ASSUME FreshInv, NEW l \in Lane, ServeOp(l) \/ ServeRead(l) \/ ServeSave(l), NEW d \in Docs
  PROVE  DocInv(d)'
<1>1. calls[l] = Free \/ CallShape(calls[l])
  BY DEF FreshInv, WholeInv, Wires, Calls
<1>2. d.of \in {"state", "groups"} \/ (d.of = "part" /\ d.part \in Part)
  BY DEF Docs
<1>3. CASE ServeOp(l)
  <2>1. Asked(l, {"op"}) /\ Free.at \notin {"op"}
    BY <1>3 DEF ServeOp, Free
  <2>2. calls[l].at = "op" /\ calls[l].served = FALSE /\ CallShape(calls[l])
    BY <1>1, <2>1 DEF Asked, Free, CallShape
  <2>3. PICK ok, doc : Reply(l, ok, doc)
    BY <1>3 DEF ServeOp
  <2>4. /\ UNCHANGED <<documents, meta, missed>> /\ file' = file
        /\ dev' = dev \/ dev' \in Carried(calls[l].sent)
    BY <1>3 DEF ServeOp
  <2>5. Served(calls[l]).at = "op" /\ Served(calls[l]).served = TRUE /\ Served(calls[l]).parts = calls[l].parts
    BY <2>2 DEF Served, CallShape
  <2>6. CASE d.of = "state" \/ (d.of = "part" /\ d.part \in All(calls[l].parts))
    <3>1. Reads(Served(calls[l]), d)
      BY <2>5, <2>6 DEF Reads
    <3> QED
      BY <2>1, <2>3, <2>4, <3>1, ServedDoc
  <2>7. CASE d.of = "groups" \/ (d.of = "part" /\ d.part \notin All(calls[l].parts))
    <3>1. ~Reads(calls[l], d) /\ ~Brings(Served(calls[l]), d)
      BY <2>2, <2>5, <2>7 DEF Reads, Brings
    <3>2. d.of = "part" => dev'.count[d.part] = dev.count[d.part]
      BY <1>2, <2>2, <2>4, <2>7, CarriedShape DEF CallShape, FreshInv, WholeInv, Wires
    <3>3. \A e : (Fresh(e, d, dev', file') <=> Fresh(e, d, dev, file))
      BY <2>4, <2>7, <3>2 DEF Fresh
    <3> QED
      BY <2>1, <2>3, <2>4, <3>1, <3>3, ServedDoc
  <2> QED
    BY <1>2, <2>6, <2>7
<1>4. CASE ServeRead(l)
  <2> DEFINE ats == {"state", "features", "groups", "snapshot"}
  <2>1. Asked(l, ats) /\ Free.at \notin ats
    BY <1>4 DEF ServeRead, Free
  <2>2. calls[l].at \in ats /\ calls[l].served = FALSE /\ CallShape(calls[l])
    BY <1>1, <2>1 DEF Asked, Free, CallShape
  <2>3. UNCHANGED <<documents, meta, missed>> /\ file' = file /\ dev' = dev
    BY <1>4 DEF ServeRead, server
  <2>4. \A e : (Fresh(e, d, dev', file') <=> Fresh(e, d, dev, file))
    BY <2>3 DEF Fresh
  <2>5. Served(calls[l]).at = calls[l].at /\ Served(calls[l]).served = TRUE /\ Served(calls[l]).parts = calls[l].parts
    BY <2>2 DEF Served, CallShape
  <2>6. PICK ok, doc : Reply(l, ok, doc) /\ (ok = TRUE /\ Brings(Served(calls[l]), d) => Fresh(doc, d, dev, file))
    <3>1. CASE Reply(l, FALSE, None)
      BY <3>1
    <3>2. CASE ~Reply(l, FALSE, None)
      <4> DEFINE doc == CASE calls[l].at = "state" -> StateDoc
                          [] calls[l].at = "features" -> FeaturesDoc(All(calls[l].parts))
                          [] calls[l].at = "groups" -> MetaDoc(file)
                          [] OTHER -> None
      <4>1. Reply(l, TRUE, doc)
        BY <1>4, <3>2 DEF ServeRead
      <4>2. ASSUME Brings(Served(calls[l]), d) PROVE Fresh(doc, d, dev, file)
        BY <1>2, <2>2, <2>5, <4>2 DEF Brings, Fresh, StateDoc, FeaturesDoc, MetaDoc
      <4> QED
        BY <4>1, <4>2
    <3> QED
      BY <3>1, <3>2
  <2>7. \/ Reads(Served(calls[l]), d)
        \/ Brings(Served(calls[l]), d)
        \/ ~Reads(calls[l], d) /\ ~Brings(Served(calls[l]), d)
    BY <2>2, <2>5 DEF Reads, Brings
  <2> QED
    BY <2>1, <2>3, <2>4, <2>6, <2>7, ServedDoc
<1>5. CASE ServeSave(l)
  <2>1. Asked(l, {"save"}) /\ Free.at \notin {"save"}
    BY <1>5 DEF ServeSave, Free
  <2>2. calls[l].at = "save" /\ calls[l].served = FALSE /\ CallShape(calls[l])
    BY <1>1, <2>1 DEF Asked, Free, CallShape
  <2>3. UNCHANGED <<documents, meta, missed>> /\ dev' = dev
    BY <1>5 DEF ServeSave
  <2>4. Served(calls[l]).at = "save" /\ Served(calls[l]).served = TRUE
    BY <2>2 DEF Served, CallShape
  <2>5. PICK ok, doc : Reply(l, ok, doc) /\ (ok = TRUE => doc.groups = file')
    <3> DEFINE slugs == Slugged(calls[l].sent.doc)
    <3>1. Reply(l, FALSE, None) \/ (file' = slugs /\ Reply(l, TRUE, MetaDoc(slugs)))
      BY <1>5 DEF ServeSave
    <3> HIDE DEF slugs
    <3>2. MetaDoc(slugs).groups = slugs
      BY DEF MetaDoc
    <3> QED
      BY <3>1, <3>2
  <2>6. CASE d.of = "groups"
    <3>1. Brings(Served(calls[l]), d) /\ (ok = TRUE => Fresh(doc, d, dev', file'))
      BY <2>4, <2>5, <2>6 DEF Brings, Fresh
    <3> QED
      BY <2>1, <2>3, <2>5, <3>1, ServedDoc
  <2>7. CASE d.of # "groups"
    <3>1. ~Reads(calls[l], d) /\ ~Brings(Served(calls[l]), d)
      BY <2>2, <2>4, <2>7 DEF Reads, Brings
    <3>2. \A e : (Fresh(e, d, dev', file') <=> Fresh(e, d, dev, file))
      BY <1>2, <2>3, <2>7 DEF Fresh
    <3> QED
      BY <2>1, <2>3, <2>5, <2>7, <3>1, <3>2, ServedDoc
  <2> QED
    BY <2>6, <2>7
<1> QED
  BY <1>3, <1>4, <1>5

\* A call that goes on with the first reply: what it would have read it still reads, or
\* has lost; what the reply brings is shown; nothing else that is shown goes.
LEMMA ResumedDoc ==
  ASSUME FreshInv, 1 \in DOMAIN replies, Take(1), NEW c, GoOn(replies[1].to, c),
         UNCHANGED server, missed \subseteq missed', NEW d \in Docs,
         Reads(calls[replies[1].to], d) => Reads(c, d) \/ Lost(d) \in missed',
         Brings(calls[replies[1].to], d) =>
             \/ Lost(d) \in missed'
             \/ replies[1].ok /\ (Fresh(replies[1].doc, d, dev, file) => Shows(d)'),
         ~Brings(calls[replies[1].to], d) /\ Shows(d) => Shows(d)'
  PROVE  DocInv(d)'
<1> DEFINE l == replies[1].to
<1>1. /\ l \in Lane /\ calls'[l] = c
      /\ \A m \in Lane \ {l} : calls'[m] = calls[m]
      /\ Len(replies) \in Nat /\ 1 \in 1 .. Len(replies) /\ Len(replies') = Len(replies) - 1
      /\ \A j \in 1 .. Len(replies') :
            /\ Was(1, j) \in 1 .. Len(replies) \ {1}
            /\ replies'[j] = replies[Was(1, j)]
            /\ calls'[replies[Was(1, j)].to] = calls[replies[Was(1, j)].to]
  BY ResumedFirst DEF FreshInv, WholeInv
<1>2. \A j \in 1 .. Len(replies') :
         /\ j + 1 \in 1 .. Len(replies) /\ replies'[j] = replies[j + 1]
         /\ calls'[replies[j + 1].to] = calls[replies[j + 1].to]
  BY <1>1 DEF Was
<1>3. \A j \in 1 .. Len(replies') : j \in Bringing(d)' <=> j + 1 \in Bringing(d)
  BY <1>2 DEF Bringing
<1>4. /\ Bringing(d) \subseteq 1 .. Len(replies) /\ Bringing(d)' \subseteq 1 .. Len(replies')
      /\ 1 \in Bringing(d) <=> Brings(calls[l], d)
  BY <1>1 DEF Bringing
<1>5. \A k \in Bringing(d) : k # 1 => k - 1 \in Bringing(d)' /\ replies'[k - 1] = replies[k]
  BY <1>1, <1>2, <1>3, <1>4
<1>6. \A e : (Fresh(e, d, dev', file') <=> Fresh(e, d, dev, file))
  BY DEF server, Fresh
<1>7. CASE Lost(d) \in missed'
  BY <1>7 DEF DocInv
<1>8. CASE Reads(c, d)
  BY <1>1, <1>8 DEF DocInv
<1>9. CASE Lost(d) \notin missed' /\ ~Reads(c, d)
  <2>1. ~Reads(calls[l], d)
    BY <1>9
  <2>2. ASSUME NEW m \in Lane, Reads(calls[m], d) PROVE DocInv(d)'
    BY <1>1, <2>1, <2>2 DEF DocInv
  <2>3. Lost(d) \notin missed
    BY <1>9
  <2>4. ASSUME NEW k \in Bringing(d), ~replies[k].ok PROVE DocInv(d)'
    <3>1. k # 1
      BY <1>4, <1>9, <2>4
    <3> QED
      BY <1>5, <2>4, <3>1 DEF DocInv
  <2>5. ASSUME NEW k \in Bringing(d), Fresh(replies[k].doc, d, dev, file), \A j \in Bringing(d) : j <= k
        PROVE  DocInv(d)'
    <3>1. CASE k = 1
      <4>1. Bringing(d)' = {}
        BY <1>1, <1>3, <1>4, <2>5, <3>1
      <4>2. Shows(d)'
        BY <1>4, <1>9, <2>5, <3>1
      <4> QED
        BY <4>1, <4>2 DEF DocInv
    <3>2. CASE k # 1
      <4>1. k - 1 \in Bringing(d)' /\ Fresh(replies'[k - 1].doc, d, dev', file')
        BY <1>5, <1>6, <2>5, <3>2
      <4>2. \A j \in Bringing(d)' : j <= k - 1
        BY <1>1, <1>3, <1>4, <2>5
      <4> QED
        BY <4>1, <4>2 DEF DocInv
    <3> QED
      BY <3>1, <3>2
  <2>6. ASSUME Bringing(d) = {}, Shows(d) PROVE DocInv(d)'
    <3>1. Bringing(d)' = {}
      BY <1>3, <1>4, <2>6
    <3>2. Shows(d)'
      BY <1>4, <2>6
    <3> QED
      BY <3>1, <3>2 DEF DocInv
  <2> QED
    BY <2>2, <2>3, <2>4, <2>5, <2>6 DEF FreshInv, DocInv
<1> QED
  BY <1>7, <1>8, <1>9


LEMMA ResumeFresh ==
  ASSUME FreshInv, Resume, InOrder = TRUE, NEW d \in Docs
  PROVE  DocInv(d)'
<1>1. /\ 1 \in DOMAIN replies /\ Take(1) /\ UNCHANGED server
      /\ \/ OpAnswered(1) \/ StateRead(1) \/ FeaturesRead(1) \/ ReloadFailed(1)
         \/ GroupsRead(1) \/ SaveAnswered(1) \/ SnapshotTaken(1)
  BY DEF Resume, Arrives
<1>2. WholeInv /\ Wires /\ 1 \in 1 .. Len(replies)
  BY <1>1 DEF FreshInv, WholeInv, Wires, Replies
<1> DEFINE was == calls[replies[1].to]
<1>3. CallShape(was) /\ was.served = TRUE
  BY <1>2 DEF Wires, Calls, Replies, CallShape
<1>4. \/ d.of \in {"state", "groups"}
      \/ d.of = "part" /\ d.part \in Part
  BY DEF Docs
<1>5. documents' = documents /\ meta' = meta => (Shows(d) => Shows(d)')
  BY <1>1 DEF documents, server, Shows, Fresh
<1> DEFINE Goal(c) ==
              /\ GoOn(replies[1].to, c) /\ missed \subseteq missed'
              /\ Reads(was, d) => Reads(c, d) \/ Lost(d) \in missed'
              /\ Brings(was, d) =>
                    \/ Lost(d) \in missed'
                    \/ replies[1].ok /\ (Fresh(replies[1].doc, d, dev, file) => Shows(d)')
              /\ ~Brings(was, d) /\ Shows(d) => Shows(d)'
<1>6. ASSUME NEW c, Goal(c)
      PROVE  DocInv(d)'
  BY <1>1, <1>6, ResumedDoc
<1>7. CASE OpAnswered(1)
  <2> DEFINE c == Next1(was, "state")
  <2>1. GoOn(replies[1].to, c) /\ was.at = "op" /\ documents' = documents /\ meta' = meta /\ missed' = missed
    BY <1>7 DEF OpAnswered
  <2>2. c.at = "state" /\ c.parts = was.parts /\ c.served = FALSE
    BY <1>3, Goes
  <2> HIDE DEF c, was
  <2>3. (Reads(was, d) => Reads(c, d)) /\ ~Brings(was, d)
    BY <1>3, <2>1, <2>2 DEF Reads, Brings
  <2>4. Goal(c)
    BY <1>5, <2>1, <2>3
  <2> QED
    BY <1>6, <2>4
<1>8. CASE StateRead(1)
  <2> DEFINE c == Next1(was, "features")
  <2>1. /\ GoOn(replies[1].to, c) /\ was.at = "state" /\ missed' = missed
        /\ state' = replies[1].doc /\ features' = features /\ meta' = meta
    BY <1>8 DEF StateRead
  <2>2. c.at = "features" /\ c.parts = was.parts /\ c.served = FALSE
    BY <1>3, Goes
  <2>3. replies[1].ok
    BY <1>8 DEF StateRead
  <2> HIDE DEF c, was
  <2>4. (Reads(was, d) => Reads(c, d)) /\ (Brings(was, d) <=> d.of = "state")
    BY <1>3, <2>1, <2>2 DEF Reads, Brings
  <2>5. d.of = "state" => (Fresh(replies[1].doc, d, dev, file) => Shows(d)')
    BY <1>1, <2>1 DEF Shows, Fresh, server
  <2>6. d.of # "state" => (Shows(d) => Shows(d)')
    BY <1>1, <2>1 DEF Shows, Fresh, server
  <2>7. Goal(c)
    BY <2>1, <2>3, <2>4, <2>5, <2>6
  <2> QED
    BY <1>6, <2>7
<1>9. CASE FeaturesRead(1)
  <2>1. PICK c : GoOn(replies[1].to, c) /\ was.at = "features" /\ missed' = missed
    BY <1>9 DEF FeaturesRead
  <2>2. state' = state /\ meta' = meta /\ replies[1].ok
    BY <1>9 DEF FeaturesRead
  <2>3. /\ features' # None
        /\ \A p \in Part : features'[p] = IF p \in All(was.parts) THEN replies[1].doc[p] ELSE features[p]
    BY <1>2, <1>9, FeaturesMerged
  <2> HIDE DEF was
  <2>4. ~Reads(was, d) /\ (Brings(was, d) <=> d.of = "part" /\ d.part \in All(was.parts))
    BY <1>3, <2>1 DEF Reads, Brings
  <2>5. d.of = "part" /\ d.part \in All(was.parts) => (Fresh(replies[1].doc, d, dev, file) => Shows(d)')
    BY <1>1, <1>4, <2>3 DEF Shows, Fresh, server
  <2>6. ~(d.of = "part" /\ d.part \in All(was.parts)) => (Shows(d) => Shows(d)')
    BY <1>1, <1>4, <2>2, <2>3 DEF Shows, Fresh, server
  <2>7. Goal(c)
    BY <2>1, <2>2, <2>4, <2>5, <2>6
  <2> QED
    BY <1>6, <2>7
<1>10. CASE ReloadFailed(1)
  <2> DEFINE c == AfterReload(was)
  <2>1. /\ GoOn(replies[1].to, c) /\ was.at \in {"state", "features"} /\ missed' = missed \cup {"reload"}
        /\ documents' = documents /\ meta' = meta
    BY <1>10 DEF ReloadFailed
  <2> HIDE DEF c, was
  <2>2. d.of = "groups" => ~Reads(was, d) /\ ~Brings(was, d)
    BY <2>1 DEF Reads, Brings
  <2>3. d.of # "groups" => Lost(d) \in missed'
    BY <2>1 DEF Lost
  <2>4. Goal(c)
    BY <1>5, <2>1, <2>2, <2>3
  <2> QED
    BY <1>6, <2>4
<1>11. CASE GroupsRead(1) \/ SaveAnswered(1)
  <2>1. /\ GoOn(replies[1].to, Free) /\ was.at \in {"groups", "save"} /\ documents' = documents
        /\ missed' = IF replies[1].ok THEN missed ELSE missed \cup {"groups"}
        /\ replies[1].ok => meta' = replies[1].doc.groups
    BY <1>11 DEF GroupsRead, SaveAnswered
  <2> HIDE DEF was
  <2>2. ~Reads(was, d) /\ (Brings(was, d) <=> d.of = "groups")
    BY <1>3, <2>1 DEF Reads, Brings
  <2>3. d.of = "groups" => (replies[1].ok /\ Fresh(replies[1].doc, d, dev, file) => Shows(d)') /\ (~replies[1].ok => Lost(d) \in missed')
    BY <1>1, <2>1 DEF Shows, Fresh, Lost, server
  <2>4. d.of # "groups" => (Shows(d) => Shows(d)')
    BY <1>1, <2>1 DEF Shows, Fresh, server, documents
  <2>5. Goal(Free)
    BY <2>1, <2>2, <2>3, <2>4
  <2> QED
    BY <1>6, <2>5
<1>12. CASE SnapshotTaken(1)
  <2>1. /\ GoOn(replies[1].to, Free) /\ was.at = "snapshot" /\ documents' = documents
        /\ meta' = meta /\ missed' = missed
    BY <1>12 DEF SnapshotTaken
  <2> HIDE DEF was
  <2>2. ~Reads(was, d) /\ ~Brings(was, d)
    BY <2>1 DEF Reads, Brings
  <2>3. Goal(Free)
    BY <1>5, <2>1, <2>2
  <2> QED
    BY <1>6, <2>3
<1> QED
  BY <1>1, <1>7, <1>8, <1>9, <1>10, <1>11, <1>12


LEMMA StepFreshInv == InOrder = TRUE /\ FreshInv /\ [CardNext]_cardVars => FreshInv'
<1> SUFFICES ASSUME InOrder = TRUE, FreshInv, [CardNext]_cardVars
             PROVE  FreshInv'
  OBVIOUS
<1>1. Move
  BY EveryStepMoves
<1>2. WholeInv'
  BY StepWholeInv DEF FreshInv
<1>3. ASSUME NEW d \in Docs PROVE DocInv(d)'
  <2>1. DocInv(d)
    BY DEF FreshInv
  <2>2. CASE Lock
    <3>1. UNCHANGED <<file, documents, meta, calls, replies, missed>> /\ dev' = [dev EXCEPT !.locked = ~dev.locked]
      BY <2>2 DEF Lock
    <3>2. dev'.layers = dev.layers /\ dev'.count = dev.count
      BY <3>1 DEF FreshInv, WholeInv, Wires, Device
    <3>3. \A e : (Fresh(e, d, dev', file') <=> Fresh(e, d, dev, file))
      BY <3>1, <3>2 DEF Fresh
    <3>4. (Shows(d)' <=> Shows(d)) /\ Bringing(d)' = Bringing(d)
      BY <3>1, <3>2 DEF Shows, Bringing, Fresh, documents
    <3> QED
      BY <2>1, <3>1, <3>3, <3>4 DEF DocInv
  <2>3. CASE Still
    <3>1. UNCHANGED <<dev, file, documents, meta, calls, replies, missed>>
      BY <2>3 DEF Still, server
    <3>2. (Shows(d)' <=> Shows(d)) /\ Bringing(d)' = Bringing(d)
      BY <3>1 DEF Shows, Bringing, Fresh, documents
    <3>3. \A e : (Fresh(e, d, dev', file') <=> Fresh(e, d, dev, file))
      BY <3>1 DEF Fresh
    <3> QED
      BY <2>1, <3>1, <3>2, <3>3 DEF DocInv
  <2> QED
    BY <1>1, <2>2, <2>3, MovesAre, StartFresh, ServeFresh, ResumeFresh
<1> QED
  BY <1>2, <1>3 DEF FreshInv

\* What is neither lost nor on its way is shown.
LEMMA QuietShows == FreshInv => QuietPageIsFresh
<1> SUFFICES ASSUME FreshInv, Quiet, missed = {}
             PROVE  /\ state.layers = dev.layers /\ state.count = dev.count["keymap"]
                    /\ features = FeaturesDoc(Part)
                    /\ meta = file
  BY DEF QuietPageIsFresh
<1>1. \A l \in Lane : calls[l] = Free
  BY DEF Quiet, UnderWay
<1>2. \A d \in Docs : Bringing(d) = {} /\ \A l \in Lane : ~Reads(calls[l], d)
  BY <1>1 DEF FreshInv, WholeInv, Wires, Replies, Bringing, Reads, Free
<1>3. \A d \in Docs : Shows(d)
  BY <1>2 DEF FreshInv, DocInv
<1>4. /\ [of |-> "state"] \in Docs /\ [of |-> "groups"] \in Docs
      /\ \A p \in Part : [of |-> "part", part |-> p] \in Docs
  BY DEF Docs
<1>5. state.layers = dev.layers /\ state.count = dev.count["keymap"]
  BY <1>3, <1>4 DEF Shows, Fresh
<1>6. meta = file
  BY <1>3, <1>4 DEF Shows
<1>7. \A p \in Part : features # None /\ features[p] = dev.count[p]
  BY <1>3, <1>4 DEF Shows, Fresh
<1>8. features \in [Part -> Nat]
  BY <1>7, PageAssumption DEF PageAssumption, FreshInv, WholeInv
<1> QED
  BY <1>5, <1>6, <1>7, <1>8 DEF FeaturesDoc

\* Replies that come in the order they were given leave a quiet page fresh: once
\* nothing is under way and nothing has failed it shows the keyboard and the file as
\* they are, however the reloads of changes, refreshes and saves overlapped.
THEOREM InOrderPageIsFresh ==
  ASSUME InOrder = TRUE
  PROVE  CardSpec => []QuietPageIsFresh
<1>1. FreshInv => QuietPageIsFresh
  BY QuietShows
<1>2. FreshInv /\ [CardNext]_cardVars => FreshInv'
  BY StepFreshInv
<1> QED
  BY <1>1, <1>2, InitFreshInv, PTL DEF CardSpec


-----------------------------------------------------------------------------
(* The layers of the keyboard and of the documents are sequences of ids.    *)

\* An operation names layers by index and ids.
Indexed(oper) ==
    /\ oper.do = "remove" => oper.index \in Nat
    /\ oper.do = "move" => oper.start \in Nat /\ oper.dest \in Nat
    /\ oper.do = "restore" => oper.index \in Nat /\ oper.layer \in LayerId

LayersInv ==
    /\ dev.layers \in Seq(LayerId)
    /\ state # None => state.layers \in Seq(LayerId)
    /\ \A k \in 1 .. Len(replies) :
          calls[replies[k].to].at = "state" /\ replies[k].ok => replies[k].doc.layers \in Seq(LayerId)
    /\ \A l \in Lane : calls[l].at = "op" => Indexed(calls[l].sent)
    /\ open.ui \in {"confirm", "drag"} => open.index \in Nat

LEMMA Removed ==
  ASSUME NEW S, NEW s \in Seq(S), NEW i \in 0 .. Len(s) - 1
  PROVE  RemoveAt(s, i + 1) \in Seq(S) /\ Len(RemoveAt(s, i + 1)) = Len(s) - 1
<1>1. i + 1 \in 1 .. Len(s)
  OBVIOUS
<1> QED
  BY <1>1, Taken

LEMMA Inserted ==
  ASSUME NEW S, NEW s \in Seq(S), NEW i \in 0 .. Len(s), NEW e \in S
  PROVE  InsertAt(s, i + 1, e) \in Seq(S)
<1> DEFINE a == SubSeq(s, 1, (i + 1) - 1)
           b == SubSeq(s, i + 1, Len(s))
<1>1. a \in Seq(S)
  <2>1. (i + 1) - 1 \in 0 .. Len(s) /\ Len(s) \in Nat
    OBVIOUS
  <2> QED
    BY <2>1, SubSeqProperties
<1>2. b \in Seq(S)
  <2>1. i + 1 \in 1 .. Len(s) + 1 /\ Len(s) \in i + 1 - 1 .. Len(s)
    OBVIOUS
  <2> QED
    BY <2>1, SubSeqProperties
<1>3. InsertAt(s, i + 1, e) = a \o <<e>> \o b
  BY DEF InsertAt
<1>4. <<e>> \in Seq(S)
  OBVIOUS
<1> HIDE DEF a, b
<1>5. a \o <<e>> \in Seq(S)
  BY <1>1, <1>4, ConcatProperties
<1>6. (a \o <<e>>) \o b \in Seq(S)
  BY <1>2, <1>5, ConcatProperties
<1> QED
  BY <1>3, <1>6

LEMMA CarriedLayers ==
  ASSUME Device(dev), dev.layers \in Seq(LayerId), NEW oper, Indexed(oper),
         oper.do \in {"rename", "key", "part", "add", "remove", "move", "restore", "reset"},
         NEW d \in Carried(oper)
  PROVE  d.layers \in Seq(LayerId)
<1> USE DEF Device
<1> DEFINE n == Len(dev.layers)
<1>1. ~dev.locked /\ n \in Nat
  BY DEF Carried
<1>2. ASSUME NEW s \in Seq(LayerId), d = [dev EXCEPT !.layers = s] PROVE d.layers \in Seq(LayerId)
  BY <1>2
<1>3. CASE oper.do \in {"rename", "key"}
  <2>1. d = [dev EXCEPT !.count = Count("keymap")]
    BY <1>1, <1>3 DEF Carried
  <2> QED
    BY <2>1
<1>4. CASE oper.do = "part"
  <2>1. d = [dev EXCEPT !.count = Count(oper.part)]
    BY <1>1, <1>4 DEF Carried
  <2> QED
    BY <2>1
<1>5. CASE oper.do = "add"
  <2>1. PICK l \in LayerId : d = [dev EXCEPT !.layers = Append(dev.layers, l)]
    BY <1>1, <1>5 DEF Carried
  <2> QED
    BY <1>2, <2>1
<1>6. CASE oper.do = "remove"
  <2>1. oper.index < n /\ d = [dev EXCEPT !.layers = RemoveAt(dev.layers, oper.index + 1)]
    BY <1>1, <1>6 DEF Carried
  <2>2. oper.index \in 0 .. n - 1
    BY <1>1, <1>6, <2>1 DEF Indexed
  <2> QED
    BY <1>2, <2>1, <2>2, Removed
<1>7. CASE oper.do = "move"
  <2> DEFINE rest == RemoveAt(dev.layers, oper.start + 1)
  <2>1. /\ oper.start < n /\ oper.dest < n
        /\ d = [dev EXCEPT !.layers = InsertAt(rest, oper.dest + 1, At(dev.layers, oper.start))]
    BY <1>1, <1>7 DEF Carried
  <2>2. oper.start \in 0 .. n - 1 /\ oper.dest \in 0 .. n - 1
    BY <1>1, <1>7, <2>1 DEF Indexed
  <2>3. rest \in Seq(LayerId) /\ oper.dest \in 0 .. Len(rest)
    BY <1>1, <2>2, Removed
  <2>4. At(dev.layers, oper.start) \in LayerId
    BY <2>2 DEF At
  <2> HIDE DEF rest
  <2>5. InsertAt(rest, oper.dest + 1, At(dev.layers, oper.start)) \in Seq(LayerId)
    BY <2>3, <2>4, Inserted
  <2> QED
    BY <1>2, <2>1, <2>5
<1>8. CASE oper.do = "restore"
  <2>1. oper.index <= n /\ d = [dev EXCEPT !.layers = InsertAt(dev.layers, oper.index + 1, oper.layer)]
    BY <1>1, <1>8 DEF Carried
  <2>2. oper.index \in 0 .. n /\ oper.layer \in LayerId
    BY <1>1, <1>8, <2>1 DEF Indexed
  <2>3. InsertAt(dev.layers, oper.index + 1, oper.layer) \in Seq(LayerId)
    BY <2>2, Inserted
  <2> QED
    BY <1>2, <2>1, <2>3
<1>9. CASE oper.do = "reset"
  <2>1. d = [dev EXCEPT !.layers = FirstLayers, !.count = [c \in Contents |-> @[c] + 1]]
    BY <1>1, <1>9 DEF Carried
  <2> QED
    BY <2>1, PageAssumption DEF PageAssumption
<1> QED
  BY <1>3, <1>4, <1>5, <1>6, <1>7, <1>8, <1>9

-----------------------------------------------------------------------------
(* What a step is for the card.                                             *)

\* Something is opened, on the page as it is.
Opens ==
    /\ UNCHANGED pageVars
    /\ state # None /\ ~busy
    /\ open'.ui \in {"confirm", "drag"} => open'.index \in Rows /\ open'.sure = Sure
    /\ open'.ui = "drag" => open'.layer = At(state.layers, open'.index)

\* Something else is opened, or what is open is closed.
Shuts ==
    /\ UNCHANGED pageVars
    /\ open'.ui \notin {"confirm", "drag"} /\ (open = Closed => ~busy)

\* A removal is confirmed, a row dropped on another.
Aim(oper) ==
    /\ state # None /\ oper.sure = open.sure
    /\ \/ /\ open.ui = "confirm" /\ oper.do = "remove"
          /\ oper.index = open.index /\ oper.index \in Rows /\ oper.aim = At(state.layers, oper.index)
       \/ /\ open.ui = "drag" /\ oper.do = "move"
          /\ oper.start = open.index /\ oper.dest \in Rows
          /\ oper.aim = open.layer /\ oper.over = At(state.layers, oper.dest)

\* Any other call starts, with nothing open or from what is open; or none, on a
\* locked keyboard.
Other(c) ==
    /\ c # Free /\ c.served = FALSE
    /\ c.at = "op" => c.sent.do \notin {"remove", "move"} /\ Indexed(c.sent)
    /\ Start(c) \/ UNCHANGED calls
    /\ UNCHANGED <<dev, state, replies>>
    /\ open' = Closed /\ (open = Closed => ~busy)

LEMMA OtherRun ==
  ASSUME NEW oper, NEW parts, NEW groups, Run(oper, parts, groups),
         oper.do \notin {"remove", "move"}, Indexed(oper),
         open' = Closed, open = Closed => ~busy
  PROVE  \E c : Other(c)
<1> DEFINE c == Call("op", oper, parts, groups)
<1>1. c # Free /\ c.served = FALSE /\ c.at = "op" /\ c.sent = oper
  BY DEF Call, Free
<1>2. (Start(c) \/ UNCHANGED calls) /\ UNCHANGED <<dev, state, replies>>
  BY DEF Run, server, documents
<1> HIDE DEF c
<1>3. Other(c)
  BY <1>1, <1>2 DEF Other
<1> QED
  BY <1>3

LEMMA OtherSave ==
  ASSUME NEW doc, Save(doc), open # Closed
  PROVE  \E c : Other(c)
<1> DEFINE c == Call("save", [doc |-> doc], None, FALSE)
<1>1. c # Free /\ c.served = FALSE /\ c.at = "save"
  BY DEF Call, Free
<1>2. Start(c) /\ UNCHANGED <<dev, state, replies>> /\ open' = Closed
  BY DEF Save, SaveGroups, server, documents
<1> HIDE DEF c
<1>3. Other(c)
  BY <1>1, <1>2 DEF Other
<1> QED
  BY <1>3

LEMMA CardStepKinds ==
  ASSUME LayersInv, state # None, CardStep
  PROVE  \/ Opens \/ Shuts
         \/ open' = Closed /\ \E oper : Aim(oper) /\ Run(oper, None, TRUE)
         \/ \E c : Other(c)
<1>1. ASSUME NEW i \in Rows, OpenConfirm(i) \/ DragStart(i)
      PROVE  Opens
  BY <1>1 DEF OpenConfirm, DragStart, Open, Disabled, Opens
<1>2. ASSUME \/ \E i \in Rows : StartEdit(i) \/ OpenLayerMenu(i)
             \/ \E g \in GroupIds : OpenGroupMenu(g)
             \/ StartCreating \/ StartGroupName \/ Close
      PROVE  Shuts
  BY <1>2 DEF StartEdit, OpenLayerMenu, OpenGroupMenu, StartCreating, StartGroupName, Close, Open,
              Closed, Disabled, Shuts
<1>3. ASSUME NEW i \in Rows, DropOnRow(i)
      PROVE  open' = Closed /\ \E oper : Aim(oper) /\ Run(oper, None, TRUE)
  <2> DEFINE oper == [do |-> "move", start |-> open.index, dest |-> i,
                    aim |-> open.layer, over |-> At(state.layers, i), sure |-> open.sure]
  <2>1. Run(oper, None, TRUE) /\ open' = Closed /\ open.ui = "drag"
    BY <1>3 DEF DropOnRow, Do
  <2>2. Aim(oper)
    BY <2>1 DEF Aim
  <2> QED
    BY <2>1, <2>2
<1>4. ASSUME ConfirmRemove
      PROVE  open' = Closed /\ \E oper : Aim(oper) /\ Run(oper, None, TRUE)
  <2> DEFINE oper == [do |-> "remove", index |-> open.index,
                    aim |-> At(state.layers, open.index), sure |-> open.sure]
  <2>1. Run(oper, None, TRUE) /\ open' = Closed /\ open.ui = "confirm" /\ open.index \in Rows
    BY <1>4 DEF ConfirmRemove, Do, Broken
  <2>2. Aim(oper)
    BY <2>1 DEF Aim
  <2> QED
    BY <2>1, <2>2
<1>5. ASSUME CommitRename
      PROVE  \E c : Other(c)
  <2> DEFINE oper == [do |-> "rename", layer |-> open.layer]
  <2>0. open # Closed
    BY <1>5 DEF CommitRename, Closed
  <2>1. Run(oper, None, FALSE) /\ open' = Closed
    BY <1>5 DEF CommitRename, Do
  <2>2. oper.do \notin {"remove", "move"} /\ Indexed(oper)
    BY DEF Indexed
  <2> QED
    BY <2>0, <2>1, <2>2, OtherRun
<1>6. ASSUME Add
      PROVE  \E c : Other(c)
  <2> DEFINE oper == [do |-> "add"]
  <2>1. Run(oper, None, TRUE) /\ open' = Closed /\ ~busy
    BY <1>6 DEF Add, Do, Disabled
  <2>2. oper.do \notin {"remove", "move"} /\ Indexed(oper)
    BY DEF Indexed
  <2> QED
    BY <2>1, <2>2, OtherRun
<1>7. ASSUME NEW id \in LayerId, Restore(id)
      PROVE  \E c : Other(c)
  <2> DEFINE oper == [do |-> "restore", layer |-> id, index |-> Len(state.layers)]
  <2>1. Run(oper, None, TRUE) /\ open' = Closed /\ ~busy
    BY <1>7 DEF Restore, Do, Disabled
  <2>2. oper.do \notin {"remove", "move"} /\ Indexed(oper)
    BY DEF Indexed, LayersInv
  <2> QED
    BY <2>1, <2>2, OtherRun
<1>8. ASSUME NEW doc, Save(doc), open # Closed
      PROVE  \E c : Other(c)
  BY <1>8, OtherSave
<1>9. ASSUME NEW g, ToGroup(g) PROVE \E c : Other(c)
  BY <1>8, <1>9 DEF ToGroup, Closed
<1>10. ASSUME DeleteGroup \/ Recolour PROVE \E c : Other(c)
  BY <1>8, <1>10 DEF DeleteGroup, Recolour, Closed
<1>11. ASSUME NEW n, CommitGroupName(n) \/ CreateGroup(n) PROVE \E c : Other(c)
  BY <1>8, <1>11 DEF CommitGroupName, CreateGroup, Closed
<1> QED
  BY <1>1, <1>2, <1>3, <1>4, <1>5, <1>6, <1>7, <1>9, <1>10, <1>11 DEF CardStep

LEMMA PageStepKinds ==
  ASSUME PageStep
  PROVE  \E c : Other(c)
<1>1. open = Closed /\ open' = Closed
  BY DEF PageStep
<1>2. ASSUME NEW c, c # Free, c.served = FALSE, c.at # "op", Start(c), ~busy,
             UNCHANGED <<dev, state, replies>>
      PROVE  Other(c)
  BY <1>1, <1>2 DEF Other
<1>3. CASE Refresh
  <2> DEFINE c == Call("state", None, None, FALSE)
  <2>1. c # Free /\ c.served = FALSE /\ c.at # "op"
    BY DEF Call, Free
  <2>2. Start(c) /\ ~busy /\ UNCHANGED <<dev, state, replies>>
    BY <1>3 DEF Refresh, server, documents
  <2> HIDE DEF c
  <2> QED
    BY <1>2, <2>1, <2>2
<1>4. CASE DoSnapshot
  <2> DEFINE c == Call("snapshot", None, None, FALSE)
  <2>1. c # Free /\ c.served = FALSE /\ c.at # "op"
    BY DEF Call, Free
  <2>2. Start(c) /\ ~busy /\ UNCHANGED <<dev, state, replies>>
    BY <1>4 DEF DoSnapshot, server, documents
  <2> HIDE DEF c
  <2> QED
    BY <1>2, <2>1, <2>2
<1>5. ASSUME NEW oper, NEW parts, NEW groups, Run(oper, parts, groups), ~busy,
             oper.do \notin {"remove", "move", "restore"}
      PROVE  \E c : Other(c)
  <2>1. Indexed(oper)
    BY <1>5 DEF Indexed
  <2> QED
    BY <1>1, <1>5, <2>1, OtherRun
<1>6. CASE Reset
  BY <1>5, <1>6 DEF Reset
<1>7. CASE EditKey
  BY <1>5, <1>7 DEF EditKey, Disabled
<1>8. ASSUME NEW p \in Part, EditPart(p) PROVE \E c : Other(c)
  BY <1>5, <1>8 DEF EditPart, Disabled
<1> QED
  BY <1>3, <1>4, <1>6, <1>7, <1>8 DEF PageStep

-----------------------------------------------------------------------------
LEMMA InitLayersInv == CardInit => LayersInv
<1> SUFFICES ASSUME CardInit PROVE LayersInv
  OBVIOUS
<1>1. dev.layers \in Seq(LayerId) /\ state = None /\ replies = <<>> /\ open.ui = "none"
  BY PageAssumption DEF PageAssumption, CardInit, PageInit, Closed
<1>2. ASSUME NEW l \in Lane PROVE calls[l].at # "op"
  <2>1. CASE l = 1
    BY <2>1 DEF CardInit, PageInit, Call
  <2>2. CASE l = 2
    BY <2>2 DEF CardInit, PageInit, Call
  <2>3. CASE l # 1 /\ l # 2
    BY <2>3 DEF CardInit, PageInit, Free
  <2> QED
    BY <2>1, <2>2, <2>3
<1> QED
  BY <1>1, <1>2 DEF LayersInv

LEMMA StartLayers ==
  ASSUME WholeInv, LayersInv, NEW c, c # Free, c.at = "op" => Indexed(c.sent),
         Start(c) \/ UNCHANGED calls, UNCHANGED <<dev, state, replies>>, open' = Closed
  PROVE  LayersInv'
<1>1. open'.ui = "none"
  BY DEF Closed
<1>2. CASE UNCHANGED calls
  BY <1>1, <1>2 DEF LayersInv
<1>3. CASE Start(c)
  <2>1. PICK l \in Lane : calls[l] = Free /\ calls' = [calls EXCEPT ![l] = c]
    BY <1>3 DEF Start, UnderWay
  <2>2. calls'[l] = c /\ \A m \in Lane \ {l} : calls'[m] = calls[m]
    BY <2>1 DEF WholeInv, Wires, Calls
  <2>3. \A k \in 1 .. Len(replies) : calls'[replies[k].to] = calls[replies[k].to]
    BY <2>1, <2>2 DEF WholeInv, Wires, Replies
  <2> QED
    BY <1>1, <2>2, <2>3 DEF LayersInv
<1> QED
  BY <1>2, <1>3

LEMMA ServeLayers ==
  ASSUME WholeInv, LayersInv, NEW l \in Lane, Serve(l), UNCHANGED open
  PROVE  LayersInv'
<1>1. PICK what, ok, doc :
         /\ Free.at \notin what /\ Asked(l, what) /\ Reply(l, ok, doc)
         /\ (calls[l].at = "state" /\ ok => doc.layers = dev.layers)
  <2>1. CASE ServeOp(l)
    <3>1. Asked(l, {"op"}) /\ Free.at \notin {"op"} /\ calls[l].at # "state"
      BY <2>1 DEF ServeOp, Free, Asked
    <3>2. \E ok, doc : Reply(l, ok, doc)
      BY <2>1 DEF ServeOp
    <3> QED
      BY <3>1, <3>2
  <2>2. CASE ServeRead(l)
    <3> DEFINE what == {"state", "features", "groups", "snapshot"}
    <3>1. Asked(l, what) /\ Free.at \notin what
      BY <2>2 DEF ServeRead, Free
    <3>2. CASE Reply(l, FALSE, None)
      BY <3>1, <3>2
    <3>3. CASE \E doc : Reply(l, TRUE, doc) /\ (calls[l].at = "state" => doc = StateDoc)
      <4>1. PICK doc : Reply(l, TRUE, doc) /\ (calls[l].at = "state" => doc = StateDoc)
        BY <3>3
      <4>2. calls[l].at = "state" => doc.layers = dev.layers
        BY <4>1 DEF StateDoc
      <4> HIDE DEF what
      <4> QED
        BY <3>1, <4>1, <4>2
    <3>4. \/ Reply(l, FALSE, None)
          \/ \E doc : Reply(l, TRUE, doc) /\ (calls[l].at = "state" => doc = StateDoc)
      BY <2>2 DEF ServeRead
    <3> QED
      BY <3>2, <3>3, <3>4
  <2>3. CASE ServeSave(l)
    <3>1. Asked(l, {"save"}) /\ Free.at \notin {"save"} /\ calls[l].at # "state"
      BY <2>3 DEF ServeSave, Free, Asked
    <3>2. \E ok, doc : Reply(l, ok, doc)
      BY <2>3 DEF ServeSave
    <3> QED
      BY <3>1, <3>2
  <2> QED
    BY <2>1, <2>2, <2>3 DEF Serve
<1>2. /\ Len(replies) \in Nat /\ Len(replies') = Len(replies) + 1
      /\ \A k \in 1 .. Len(replies) :
            /\ replies'[k] = replies[k] /\ replies[k].to \in Lane \ {l}
            /\ calls'[replies[k].to] = calls[replies[k].to]
      /\ LET r == replies'[Len(replies) + 1] IN r.to = l /\ r.ok = ok /\ r.doc = doc
      /\ calls[l] # Free /\ CallShape(calls[l]) /\ calls[l].served = FALSE
      /\ calls' = [calls EXCEPT ![l] = [calls[l] EXCEPT !.served = TRUE]]
      /\ \A m \in Lane \ {l} : calls'[m] = calls[m]
      /\ calls'[l] = [calls[l] EXCEPT !.served = TRUE]
  BY <1>1, Replied DEF WholeInv
<1>3. calls'[l].at = calls[l].at /\ calls'[l].sent = calls[l].sent
  BY <1>2 DEF CallShape
<1>4. dev'.layers \in Seq(LayerId)
  <2>1. CASE ServeOp(l)
    <3>1. calls[l].at = "op" /\ dev' \in Carried(calls[l].sent) \cup {dev}
      BY <2>1 DEF ServeOp, Asked
    <3>2. \A d \in Carried(calls[l].sent) : d.layers \in Seq(LayerId)
      BY <1>2, <3>1, CarriedLayers DEF CallShape, OpShape, WholeInv, Wires, LayersInv
    <3> QED
      BY <3>1, <3>2 DEF LayersInv
  <2>2. CASE ServeRead(l) \/ ServeSave(l)
    BY <2>2 DEF ServeRead, ServeSave, server, LayersInv
  <2> QED
    BY <2>1, <2>2 DEF Serve
<1>5. UNCHANGED state
  BY DEF Serve, ServeOp, ServeRead, ServeSave, documents
<1>6. ASSUME NEW k \in 1 .. Len(replies'), calls'[replies'[k].to].at = "state", replies'[k].ok
      PROVE  replies'[k].doc.layers \in Seq(LayerId)
  <2>1. CASE k \in 1 .. Len(replies)
    BY <1>2, <1>6, <2>1 DEF LayersInv
  <2>2. CASE k = Len(replies) + 1
    BY <1>1, <1>2, <1>3, <1>6, <2>2 DEF LayersInv
  <2> QED
    BY <1>2, <2>1, <2>2
<1>7. \A m \in Lane : calls'[m].at = "op" => Indexed(calls'[m].sent)
  BY <1>2, <1>3 DEF LayersInv
<1> QED
  BY <1>4, <1>5, <1>6, <1>7 DEF LayersInv

\* The page goes on with a reply: no call goes on to an operation or a save.
LEMMA ResumeGoes ==
  ASSUME WholeInv, Resume
  PROVE  \E k \in DOMAIN replies : \E c :
            /\ Take(k) /\ GoOn(replies[k].to, c) /\ c.at \notin {"op", "save"}
            /\ UNCHANGED <<dev, file>>
            /\ \/ UNCHANGED state
               \/ calls[replies[k].to].at = "state" /\ replies[k].ok /\ state' = replies[k].doc
            /\ \/ meta' \in {meta, <<>>}
               \/ /\ calls[replies[k].to].at \in {"groups", "save"} /\ replies[k].ok
                  /\ meta' = replies[k].doc.groups
<1>1. PICK k \in DOMAIN replies :
         /\ Take(k)
         /\ \/ OpAnswered(k) \/ StateRead(k) \/ FeaturesRead(k) \/ ReloadFailed(k)
            \/ GroupsRead(k) \/ SaveAnswered(k) \/ SnapshotTaken(k)
         /\ UNCHANGED <<server, events>>
  BY DEF Resume
<1> DEFINE l == replies[k].to
<1>2. k \in 1 .. Len(replies)
  BY DEF WholeInv, Wires, Replies
<1>3. PICK c : NextCall(k, c) /\ GoOn(l, c)
  <2>1. CASE OpAnswered(k)
    BY <2>1 DEF OpAnswered, NextCall
  <2>2. CASE StateRead(k)
    BY <2>2 DEF StateRead, NextCall
  <2>3. CASE FeaturesRead(k)
    BY <2>3 DEF FeaturesRead, AfterReload, NextCall
  <2>4. CASE ReloadFailed(k)
    BY <2>4 DEF ReloadFailed, AfterReload, NextCall
  <2>5. CASE GroupsRead(k) \/ SaveAnswered(k) \/ SnapshotTaken(k)
    BY <2>5 DEF GroupsRead, SaveAnswered, SnapshotTaken, NextCall
  <2> QED
    BY <1>1, <2>1, <2>2, <2>3, <2>4, <2>5
<1>4. c.at \notin {"op", "save"}
  <2>1. CallShape(calls[l])
    BY <1>2 DEF WholeInv, Wires, Calls, Replies
  <2>2. CASE c = Free
    BY <2>2 DEF Free
  <2>3. ASSUME NEW at \in {"state", "features", "groups"}, c = Next1(calls[l], at)
        PROVE  c.at \notin {"op", "save"}
    <3> DEFINE was == calls[l]
    <3>1. CallShape(was)
      BY <2>1
    <3> HIDE DEF was
    <3>2. Next1(was, at).at = at
      BY <3>1, Goes
    <3> QED
      BY <2>3, <3>2 DEF was
  <2> QED
    BY <1>3, <2>2, <2>3 DEF NextCall
<1>5. \/ UNCHANGED state
      \/ calls[l].at = "state" /\ replies[k].ok /\ state' = replies[k].doc
  BY <1>1 DEF OpAnswered, StateRead, FeaturesRead, ReloadFailed, GroupsRead, SaveAnswered,
              SnapshotTaken, documents
<1>6. \/ meta' \in {meta, <<>>}
      \/ calls[l].at \in {"groups", "save"} /\ replies[k].ok /\ meta' = replies[k].doc.groups
  BY <1>1 DEF OpAnswered, StateRead, FeaturesRead, ReloadFailed, GroupsRead, SaveAnswered, SnapshotTaken
<1> QED
  BY <1>1, <1>2, <1>3, <1>4, <1>5, <1>6 DEF server

\* What a step comes down to.
Aims == state # None /\ open' = Closed /\ \E oper : Aim(oper) /\ Run(oper, None, TRUE)

LEMMA StepKinds ==
  ASSUME LayersInv, [CardNext]_cardVars
  PROVE  \/ UNCHANGED cardVars
         \/ state # None /\ Opens
         \/ Shuts \/ Aims
         \/ \E c : Other(c)
         \/ \E l \in Lane : Serve(l) /\ UNCHANGED open
         \/ Lock /\ UNCHANGED open
         \/ Resume /\ UNCHANGED open
<1>1. CASE state # None /\ CardStep
  BY <1>1, CardStepKinds DEF Aims
<1>2. CASE PageStep
  BY <1>2, PageStepKinds
<1>3. CASE ServerStep \/ ReplyStep
  BY <1>3 DEF ServerStep, ReplyStep
<1> QED
  BY <1>1, <1>2, <1>3 DEF CardNext

LEMMA RowsAre ==
  ASSUME LayersInv, state # None
  PROVE  Rows \subseteq Nat /\ \A i \in Rows : i < Len(state.layers)
<1>1. Len(state.layers) \in Nat
  BY DEF LayersInv
<1> QED
  BY <1>1 DEF Rows

LEMMA AimLayers ==
  ASSUME WholeInv, LayersInv, Aims
  PROVE  LayersInv'
<1>1. PICK oper : Aim(oper) /\ Run(oper, None, TRUE)
  BY DEF Aims
<1> DEFINE c == Call("op", oper, None, TRUE)
<1>2. Indexed(oper)
  BY <1>1, RowsAre DEF Aim, Indexed, LayersInv
<1>3. c # Free /\ c.sent = oper
  BY DEF Call, Free
<1>4. (Start(c) \/ UNCHANGED calls) /\ UNCHANGED <<dev, state, replies>>
  BY <1>1 DEF Run, server, documents
<1> HIDE DEF c
<1> QED
  BY <1>2, <1>3, <1>4, StartLayers DEF Aims

LEMMA ResumeLayers ==
  ASSUME WholeInv, LayersInv, Resume, UNCHANGED open
  PROVE  LayersInv'
<1>0. PICK k \in DOMAIN replies : \E c :
         /\ Take(k) /\ GoOn(replies[k].to, c) /\ c.at \notin {"op", "save"}
         /\ UNCHANGED dev
         /\ \/ UNCHANGED state
            \/ calls[replies[k].to].at = "state" /\ replies[k].ok /\ state' = replies[k].doc
  BY ResumeGoes
<1>1. PICK c :
         /\ Take(k) /\ GoOn(replies[k].to, c) /\ c.at \notin {"op", "save"}
         /\ UNCHANGED dev
         /\ \/ UNCHANGED state
            \/ calls[replies[k].to].at = "state" /\ replies[k].ok /\ state' = replies[k].doc
  BY <1>0
<1>2. /\ k \in 1 .. Len(replies) /\ calls'[replies[k].to] = c
      /\ \A m \in Lane \ {replies[k].to} : calls'[m] = calls[m]
      /\ \A j \in 1 .. Len(replies') :
            /\ Was(k, j) \in 1 .. Len(replies) \ {k}
            /\ replies'[j] = replies[Was(k, j)]
            /\ calls'[replies[Was(k, j)].to] = calls[replies[Was(k, j)].to]
  <2>1. Wires /\ Take(k) /\ GoOn(replies[k].to, c)
    BY <1>1 DEF WholeInv
  <2>2. k \in 1 .. Len(replies) /\ calls'[replies[k].to] = c
    BY <2>1, Resumed
  <2>3. \A m \in Lane \ {replies[k].to} : calls'[m] = calls[m]
    BY <2>1, Resumed
  <2>4. \A j \in 1 .. Len(replies') :
            /\ Was(k, j) \in 1 .. Len(replies) \ {k}
            /\ replies'[j] = replies[Was(k, j)]
            /\ replies[Was(k, j)].to \in Lane \ {replies[k].to}
            /\ calls'[replies[Was(k, j)].to] = calls[replies[Was(k, j)].to]
    BY <2>1, Resumed
  <2> QED
    BY <2>2, <2>3, <2>4
<1>3. state' # None => state'.layers \in Seq(LayerId)
  BY <1>1, <1>2 DEF LayersInv
<1>4. ASSUME NEW j \in 1 .. Len(replies'), calls'[replies'[j].to].at = "state", replies'[j].ok
      PROVE  replies'[j].doc.layers \in Seq(LayerId)
  BY <1>2, <1>4 DEF LayersInv
<1>5. \A m \in Lane : calls'[m].at = "op" => Indexed(calls'[m].sent)
  BY <1>1, <1>2 DEF LayersInv
<1> QED
  BY <1>1, <1>3, <1>4, <1>5 DEF LayersInv

LEMMA StepLayersInv ==
  ASSUME WholeInv, LayersInv, [CardNext]_cardVars
  PROVE  LayersInv'
<1>1. CASE UNCHANGED cardVars \/ (state # None /\ Opens) \/ Shuts
  <2>1. UNCHANGED pageVars
    BY <1>1 DEF cardVars, Opens, Shuts
  <2>2. UNCHANGED <<dev, state, replies, calls>>
    BY <2>1 DEF pageVars
  <2>3. open'.ui \in {"confirm", "drag"} => open'.index \in Nat
    BY <1>1, RowsAre DEF cardVars, Opens, Shuts, LayersInv
  <2> QED
    BY <2>2, <2>3 DEF LayersInv
<1>2. CASE Aims
  BY <1>2, AimLayers
<1>3. ASSUME NEW c, Other(c) PROVE LayersInv'
  BY <1>3, StartLayers DEF Other
<1>4. ASSUME NEW l \in Lane, Serve(l), UNCHANGED open PROVE LayersInv'
  BY <1>4, ServeLayers
<1>5. CASE Lock /\ UNCHANGED open
  <2>1. dev'.layers = dev.layers /\ UNCHANGED <<state, calls, replies, open>>
    BY <1>5 DEF Lock, WholeInv, Wires, Device, documents
  <2> QED
    BY <2>1 DEF LayersInv
<1>6. CASE Resume /\ UNCHANGED open
  BY <1>6, ResumeLayers
<1> QED
  BY <1>1, <1>2, <1>3, <1>4, <1>5, <1>6, StepKinds

-----------------------------------------------------------------------------
(* A removal or a move that was begun on a quiet page is alone until it is  *)
(* served, and names layers the keyboard has where the page showed them.    *)

Hits(oper, layers) ==
    LET shows(i, id) == i < Len(layers) /\ At(layers, i) = id
    IN  IF oper.do = "remove" THEN shows(oper.index, oper.aim)
        ELSE shows(oper.start, oper.aim) /\ shows(oper.dest, oper.over)

SureOp(c) == c.at = "op" /\ ~c.served /\ c.sent.do \in {"remove", "move"} /\ c.sent.sure

SureInv ==
    /\ open.ui \in {"confirm", "drag"} /\ open.sure => Sure
    /\ open.ui = "drag" /\ open.sure => open.index \in Rows /\ At(state.layers, open.index) = open.layer
    /\ \A l \in Lane : SureOp(calls[l]) =>
          /\ busy /\ open = Closed
          /\ \A m \in Lane \ {l} : calls[m] = Free
          /\ Hits(calls[l].sent, dev.layers)

LEMMA InitSureInv == CardInit => SureInv
<1> SUFFICES ASSUME CardInit PROVE SureInv
  OBVIOUS
<1>1. open.ui = "none"
  BY DEF CardInit, Closed
<1>2. ASSUME NEW l \in Lane PROVE calls[l].at # "op"
  <2>1. CASE l = 1
    BY <2>1 DEF CardInit, PageInit, Call
  <2>2. CASE l = 2
    BY <2>2 DEF CardInit, PageInit, Call
  <2>3. CASE l # 1 /\ l # 2
    BY <2>3 DEF CardInit, PageInit, Free
  <2> QED
    BY <2>1, <2>2, <2>3
<1> QED
  BY <1>1, <1>2 DEF SureInv, SureOp

\* A step of a call that is under way: no other call is a sure one.
LEMMA CallSure ==
  ASSUME SureInv, NEW l \in Lane, calls[l] # Free, ~SureOp(calls'[l]),
         \A m \in Lane \ {l} : calls'[m] = calls[m], UNCHANGED open
  PROVE  SureInv'
<1>1. ~Sure
  BY DEF Sure, Quiet, UnderWay
<1>2. ASSUME NEW m \in Lane, SureOp(calls'[m]) PROVE FALSE
  BY <1>2 DEF SureInv
<1> QED
  BY <1>1, <1>2 DEF SureInv

LEMMA AimSure ==
  ASSUME FreshInv, WholeInv, LayersInv, SureInv, Aims
  PROVE  SureInv'
<1>1. PICK oper : Aim(oper) /\ Run(oper, None, TRUE)
  BY DEF Aims
<1> DEFINE c == Call("op", oper, None, TRUE)
<1>2. open.ui \in {"confirm", "drag"} /\ state # None /\ open # Closed
  BY <1>1 DEF Aim, Closed
<1>3. \A l \in Lane : ~SureOp(calls[l])
  BY <1>2 DEF SureInv
<1>4. open'.ui = "none" /\ open' = Closed /\ UNCHANGED dev
  BY <1>1 DEF Aims, Closed, Run, server
<1>5. CASE UNCHANGED calls
  BY <1>3, <1>4, <1>5 DEF SureInv
<1>6. CASE ~UNCHANGED calls
  <2>1. busy' = TRUE /\ Start(c)
    BY <1>1, <1>6 DEF Run
  <2>2. PICK l \in Lane : calls[l] = Free /\ calls' = [calls EXCEPT ![l] = c]
    BY <2>1 DEF Start, UnderWay
  <2>3. calls'[l] = c /\ \A m \in Lane \ {l} : calls'[m] = calls[m]
    BY <2>2 DEF WholeInv, Wires, Calls
  <2>4. c.sent = oper
    BY DEF Call
  <2> HIDE DEF c
  <2>5. ASSUME oper.sure
        PROVE  (\A m \in Lane \ {l} : calls'[m] = Free) /\ Hits(oper, dev.layers)
    <3>1. Quiet /\ missed = {}
      BY <1>1, <1>2, <2>5 DEF Aim, SureInv, Sure
    <3>2. state.layers = dev.layers
      BY <3>1, QuietShows DEF QuietPageIsFresh
    <3>3. \A m \in Lane \ {l} : calls'[m] = Free
      BY <2>3, <3>1 DEF Quiet, UnderWay
    <3>4. Hits(oper, state.layers)
      <4>1. CASE oper.do = "remove"
        BY <1>1, <1>2, <4>1, RowsAre DEF Aim, Hits
      <4>2. CASE oper.do = "move" /\ open.ui = "drag"
        BY <1>1, <1>2, <2>5, <4>2, RowsAre DEF Aim, Hits, SureInv
      <4> QED
        BY <1>1, <4>1, <4>2 DEF Aim
    <3> QED
      BY <3>2, <3>3, <3>4
  <2>6. ASSUME NEW m \in Lane, SureOp(calls'[m]) PROVE m = l /\ oper.sure
    BY <1>3, <2>3, <2>4, <2>6 DEF SureOp
  <2> QED
    BY <1>4, <2>1, <2>3, <2>4, <2>5, <2>6 DEF SureInv
<1> QED
  BY <1>5, <1>6

LEMMA StepSureInv ==
  ASSUME FreshInv, WholeInv, LayersInv, SureInv, [CardNext]_cardVars
  PROVE  SureInv'
<1>1. CASE UNCHANGED cardVars
  BY <1>1 DEF cardVars, pageVars, SureInv, Sure, Quiet, UnderWay, Rows
<1>2. CASE Opens
  <2>1. \A l \in Lane : ~SureOp(calls[l])
    BY <1>2 DEF Opens, SureInv
  <2>2. UNCHANGED <<calls, missed, state>>
    BY <1>2 DEF Opens, pageVars
  <2>3. Sure' = Sure /\ Rows' = Rows
    BY <2>2 DEF Sure, Quiet, UnderWay, Rows
  <2> QED
    BY <1>2, <2>1, <2>2, <2>3 DEF Opens, SureInv
<1>3. CASE Shuts
  <2>1. \A l \in Lane : ~SureOp(calls[l])
    BY <1>3 DEF Shuts, SureInv
  <2> QED
    BY <1>3, <2>1 DEF Shuts, pageVars, SureInv
<1>4. CASE Aims
  BY <1>4, AimSure
<1>5. ASSUME NEW c, Other(c) PROVE SureInv'
  <2>1. \A l \in Lane : ~SureOp(calls[l])
    BY <1>5 DEF Other, SureInv
  <2>2. ~SureOp(c) /\ open'.ui = "none"
    BY <1>5 DEF Other, SureOp, Closed
  <2>3. \A l \in Lane : calls'[l] \in {calls[l], c}
    BY <1>5 DEF Other, Start, WholeInv, Wires, Calls
  <2> QED
    BY <2>1, <2>2, <2>3 DEF SureInv
<1>6. ASSUME NEW l \in Lane, Serve(l), UNCHANGED open PROVE SureInv'
  <2>1. \E what, ok, doc : Free.at \notin what /\ Asked(l, what) /\ Reply(l, ok, doc)
    <3>1. CASE ServeOp(l)
      <4>1. Free.at \notin {"op"} /\ Asked(l, {"op"}) /\ \E ok, doc : Reply(l, ok, doc)
        BY <3>1 DEF ServeOp, Free
      <4> QED
        BY <4>1
    <3>2. CASE ServeRead(l)
      <4> DEFINE what == {"state", "features", "groups", "snapshot"}
      <4>1. Free.at \notin what /\ Asked(l, what) /\ \E ok, doc : Reply(l, ok, doc)
        BY <3>2 DEF ServeRead, Free
      <4> QED
        BY <4>1
    <3>3. CASE ServeSave(l)
      <4>1. Free.at \notin {"save"} /\ Asked(l, {"save"}) /\ \E ok, doc : Reply(l, ok, doc)
        BY <3>3 DEF ServeSave, Free
      <4> QED
        BY <4>1
    <3> QED
      BY <1>6, <3>1, <3>2, <3>3 DEF Serve
  <2>2. /\ calls[l] # Free /\ CallShape(calls[l])
        /\ \A m \in Lane \ {l} : calls'[m] = calls[m]
        /\ calls'[l] = [calls[l] EXCEPT !.served = TRUE]
    BY <2>1, Replied DEF WholeInv
  <2>3. ~SureOp(calls'[l])
    BY <2>2 DEF SureOp, CallShape
  <2> QED
    BY <1>6, <2>2, <2>3, CallSure
<1>7. CASE Lock /\ UNCHANGED open
  <2>1. dev'.layers = dev.layers /\ UNCHANGED <<state, calls, busy, missed, open>>
    BY <1>7 DEF Lock, WholeInv, Wires, Device, documents
  <2>2. Sure' = Sure /\ Rows' = Rows
    BY <2>1 DEF Sure, Quiet, UnderWay, Rows
  <2> QED
    BY <2>1, <2>2 DEF SureInv
<1>8. CASE Resume /\ UNCHANGED open
  <2>0. PICK k \in DOMAIN replies : \E c : Take(k) /\ GoOn(replies[k].to, c) /\ c.at # "op"
    BY <1>8, ResumeGoes
  <2>1. PICK c : Take(k) /\ GoOn(replies[k].to, c) /\ c.at # "op"
    BY <2>0
  <2> DEFINE l == replies[k].to
  <2>2. l \in Lane /\ calls[l] # Free /\ calls'[l] = c /\ \A m \in Lane \ {l} : calls'[m] = calls[m]
    BY <2>1, Resumed DEF WholeInv
  <2>3. ~SureOp(calls'[l])
    BY <2>1, <2>2 DEF SureOp
  <2> HIDE DEF l
  <2> QED
    BY <1>8, <2>2, <2>3, CallSure
<1> QED
  BY <1>1, <1>2, <1>3, <1>4, <1>5, <1>6, <1>7, <1>8, StepKinds

\* A removal or a move begun on a quiet page, where nothing has failed, hits the layers
\* the page showed, for any layers and any number of calls, if replies arrive in the
\* order they were given (LayerChips.tsx, App.tsx runLayer: indices are sent, and are
\* carried out when the request gets its turn).
THEOREM SureOpsAlwaysHit ==
  ASSUME InOrder = TRUE
  PROVE  CardSpec => []SureOpsHit
<1>1. CardInit => FreshInv /\ WholeInv /\ LayersInv /\ SureInv
  BY InitFreshInv, InitWholeInv, InitLayersInv, InitSureInv
<1>2. (FreshInv /\ WholeInv /\ LayersInv /\ SureInv) /\ [CardNext]_cardVars
          => (FreshInv /\ WholeInv /\ LayersInv /\ SureInv)'
  BY StepFreshInv, StepWholeInv, StepLayersInv, StepSureInv
<1>3. FreshInv /\ WholeInv /\ LayersInv /\ SureInv => SureOpsHit
  BY DEF SureInv, SureOpsHit, SureOp, Hits
<1> QED
  BY <1>1, <1>2, <1>3, PTL DEF CardSpec

-----------------------------------------------------------------------------
(* No layer is in two groups, in any document that is stored, read or sent. *)

Shaped(doc) ==
    /\ \E S : doc \in Seq(S)
    /\ \A i \in DOMAIN doc : DOMAIN doc[i] = {"id", "name", "layers"}

Sendable(doc) == Shaped(doc) /\ Disjoint(doc)
\* What the server has stored: a layer moved into a group goes to one group only.
Stored(doc) == Sendable(doc) /\ UniqueIds(doc)

GroupsInv ==
    /\ Stored(file)
    /\ meta # None => Stored(meta)
    /\ \A k \in 1 .. Len(replies) :
          calls[replies[k].to].at \in {"groups", "save"} /\ replies[k].ok => Stored(replies[k].doc.groups)
    /\ \A l \in Lane : calls[l].at = "save" => Sendable(calls[l].sent.doc)

LEMMA NoGroups == Stored(<<>>)
<1>1. <<>> \in Seq({}) /\ DOMAIN <<>> = {}
  OBVIOUS
<1> QED
  BY <1>1 DEF Stored, Sendable, Shaped, Disjoint, UniqueIds

\* A change of one field of some groups keeps the document a document.
LEMMA ChangedGroups ==
  ASSUME NEW doc, Shaped(doc), NEW new, new = [i \in DOMAIN doc |-> new[i]],
         \A i \in DOMAIN doc : DOMAIN new[i] = DOMAIN doc[i]
  PROVE  Shaped(new)
<1>1. PICK S : doc \in Seq(S)
  BY DEF Shaped
<1>2. DOMAIN doc = 1 .. Len(doc) /\ Len(doc) \in Nat
  BY <1>1
<1> DEFINE T == {new[i] : i \in DOMAIN doc}
<1>3. new \in Seq(T)
  BY <1>2
<1> QED
  BY <1>3 DEF Shaped

LEMMA MovedGroups ==
  ASSUME NEW doc, Stored(doc), NEW id, NEW to
  PROVE  Sendable(MoveLayer(doc, id, to))
<1> DEFINE new == MoveLayer(doc, id, to)
<1>1. /\ new = [i \in DOMAIN doc |-> new[i]]
      /\ \A i \in DOMAIN doc :
            /\ DOMAIN new[i] = DOMAIN doc[i]
            /\ new[i].layers = IF doc[i].id = to THEN doc[i].layers \cup {id} ELSE doc[i].layers \ {id}
  BY DEF MoveLayer, Stored, Sendable, Shaped
<1> HIDE DEF new
<1>2. Shaped(new)
  BY <1>1, ChangedGroups DEF Stored, Sendable
<1>3. Disjoint(new)
  <2> SUFFICES ASSUME NEW i \in DOMAIN new, NEW j \in DOMAIN new, i # j
               PROVE  new[i].layers \cap new[j].layers = {}
    BY DEF Disjoint
  <2>1. i \in DOMAIN doc /\ j \in DOMAIN doc
    BY <1>1
  <2>2. doc[i].layers \cap doc[j].layers = {}
    BY <2>1 DEF Stored, Sendable, Disjoint
  <2>3. ~(doc[i].id = to /\ doc[j].id = to)
    BY <2>1 DEF Stored, UniqueIds
  <2> QED
    BY <1>1, <2>1, <2>2, <2>3
<1> QED
  BY <1>2, <1>3 DEF Sendable, new

\* The groups that stay have as many places as there are of them.
LEMMA Places ==
  ASSUME NEW N \in Nat, NEW kept \in SUBSET (1 .. N), NEW n \in 1 .. Cardinality(kept)
  PROVE  \E i \in kept : Cardinality({j \in kept : j <= i}) = n
<1> DEFINE upTo(i) == {j \in kept : j <= i}
           f == [i \in kept |-> Cardinality(upTo(i))]
           m == Cardinality(kept)
<1>1. IsFiniteSet(kept) /\ m \in Nat
  <2>1. IsFiniteSet(1 .. N)
    BY FS_Interval
  <2>2. IsFiniteSet(kept)
    BY <2>1, FS_Subset
  <2> QED
    BY <2>2, FS_CardinalityType
<1>2. \A i \in kept : IsFiniteSet(upTo(i)) /\ Cardinality(upTo(i)) \in Nat /\ Cardinality(upTo(i)) <= m
  BY <1>1, FS_Subset, FS_CardinalityType
<1>3. \A i \in kept : Cardinality(upTo(i)) # 0
  <2> SUFFICES ASSUME NEW i \in kept, Cardinality(upTo(i)) = 0 PROVE FALSE
    OBVIOUS
  <2>1. upTo(i) = {}
    BY <1>2, FS_EmptySet
  <2>2. i \in upTo(i)
    OBVIOUS
  <2> QED
    BY <2>1, <2>2
<1>4. ASSUME NEW i \in kept, NEW j \in kept, i < j
      PROVE  Cardinality(upTo(i)) # Cardinality(upTo(j))
  <2>0. i \in Int /\ j \in Int /\ kept \subseteq Int
    OBVIOUS
  <2>1. upTo(i) \in SUBSET upTo(j) /\ j \in upTo(j) /\ j \notin upTo(i)
    <3>1. \A x \in kept : x <= i => x <= j
      BY <1>4, <2>0
    <3>2. j <= j /\ ~(j <= i)
      BY <1>4, <2>0
    <3> QED
      BY <3>1, <3>2
  <2> HIDE DEF upTo
  <2>2. Cardinality(upTo(i)) = Cardinality(upTo(j)) => upTo(i) = upTo(j)
    BY <1>2, <2>1, FS_Subset
  <2> QED
    BY <2>1, <2>2
<1>5. \A i \in kept, j \in kept : f[i] = f[j] => i = j
  <2> SUFFICES ASSUME NEW i \in kept, NEW j \in kept, f[i] = f[j], i # j PROVE FALSE
    OBVIOUS
  <2>1. i < j \/ j < i
    OBVIOUS
  <2> QED
    BY <1>4, <2>1
<1>6. f \in [kept -> 1 .. m]
  BY <1>1, <1>2, <1>3
<1> HIDE DEF f, m
<1>7. f \in Injection(kept, 1 .. m)
  BY <1>5, <1>6 DEF Injection, IsInjective
<1>8. IsFiniteSet(1 .. m) /\ Cardinality(1 .. m) = m
  BY <1>1, FS_Interval
<1>9. f \in Surjection(kept, 1 .. m)
  BY <1>7, <1>8, FS_Injection DEF m
<1>10. PICK i \in kept : f[i] = n
  BY <1>9 DEF Surjection, m
<1> QED
  BY <1>10 DEF f

LEMMA FewerGroups ==
  ASSUME NEW doc, Sendable(doc), NEW id
  PROVE  Sendable(Without(doc, id))
<1> DEFINE kept == {i \in DOMAIN doc : doc[i].id # id}
           rank(i) == Cardinality({j \in kept : j <= i})
           nth(n) == CHOOSE i \in kept : rank(i) = n
           new == Without(doc, id)
           m == Cardinality(kept)
<1>1. PICK S : doc \in Seq(S)
  BY DEF Sendable, Shaped
<1>2. DOMAIN doc = 1 .. Len(doc) /\ Len(doc) \in Nat /\ kept \in SUBSET (1 .. Len(doc))
  BY <1>1
<1>3. m \in Nat
  <2>1. IsFiniteSet(kept)
    <3>1. IsFiniteSet(1 .. Len(doc))
      BY <1>2, FS_Interval
    <3> HIDE DEF kept
    <3> QED
      BY <1>2, <3>1, FS_Subset
  <2> QED
    BY <2>1, FS_CardinalityType
<1>4. new = [n \in 1 .. m |-> doc[nth(n)]]
  BY DEF Without
<1>5. \A n \in 1 .. m : nth(n) \in kept /\ rank(nth(n)) = n
  <2> SUFFICES ASSUME NEW n \in 1 .. m PROVE nth(n) \in kept /\ rank(nth(n)) = n
    OBVIOUS
  <2>1. \E i \in kept : rank(i) = n
    BY <1>2, Places
  <2> QED
    BY <2>1
<1>6. kept \subseteq DOMAIN doc
  OBVIOUS
<1> HIDE DEF kept, rank, nth, new, m
<1>7. \A n \in 1 .. m : new[n] = doc[nth(n)] /\ nth(n) \in DOMAIN doc
  BY <1>4, <1>5, <1>6
<1>8. DOMAIN new = 1 .. m
  BY <1>4
<1>9. Shaped(new)
  <2> DEFINE T == {new[n] : n \in 1 .. m}
  <2>1. new \in Seq(T)
    BY <1>3, <1>4
  <2> QED
    BY <1>7, <1>8, <2>1 DEF Sendable, Shaped
<1>10. Disjoint(new)
  <2> SUFFICES ASSUME NEW n \in 1 .. m, NEW k \in 1 .. m, n # k
               PROVE  new[n].layers \cap new[k].layers = {}
    BY <1>8 DEF Disjoint
  <2>1. nth(n) # nth(k)
    BY <1>5
  <2> QED
    BY <1>7, <2>1 DEF Sendable, Disjoint
<1> QED
  BY <1>9, <1>10 DEF Sendable, new

LEMMA RenamedGroups ==
  ASSUME NEW doc, Sendable(doc), NEW id, NEW n
  PROVE  Sendable([i \in DOMAIN doc |-> IF doc[i].id = id THEN [doc[i] EXCEPT !.name = n] ELSE doc[i]])
<1> DEFINE new == [i \in DOMAIN doc |-> IF doc[i].id = id THEN [doc[i] EXCEPT !.name = n] ELSE doc[i]]
<1>1. /\ new = [i \in DOMAIN doc |-> new[i]]
      /\ \A i \in DOMAIN doc : DOMAIN new[i] = DOMAIN doc[i] /\ new[i].layers = doc[i].layers
  BY DEF Sendable, Shaped
<1> HIDE DEF new
<1>2. Shaped(new)
  BY <1>1, ChangedGroups DEF Sendable
<1>3. Disjoint(new)
  BY <1>1 DEF Sendable, Disjoint
<1> QED
  BY <1>2, <1>3 DEF Sendable, new

LEMMA MoreGroups ==
  ASSUME NEW doc, Sendable(doc), NEW id, NEW n
  PROVE  Sendable(Append(doc, [id |-> id, name |-> n, layers |-> {}]))
<1> DEFINE g == [id |-> id, name |-> n, layers |-> {}]
           new == Append(doc, g)
<1>1. PICK S : doc \in Seq(S)
  BY DEF Sendable, Shaped
<1>2. DOMAIN g = {"id", "name", "layers"} /\ g.layers = {}
  OBVIOUS
<1> HIDE DEF g
<1>3. /\ new \in Seq(S \cup {g}) /\ DOMAIN new = 1 .. Len(doc) + 1 /\ Len(doc) \in Nat
      /\ DOMAIN doc = 1 .. Len(doc)
      /\ \A i \in DOMAIN doc : new[i] = doc[i]
      /\ new[Len(doc) + 1] = g
  BY <1>1
<1> HIDE DEF new
<1>4. \A i \in DOMAIN new : (i \in DOMAIN doc /\ new[i] = doc[i]) \/ (i = Len(doc) + 1 /\ new[i] = g)
  BY <1>3
<1>5. Shaped(new)
  BY <1>2, <1>3, <1>4 DEF Sendable, Shaped
<1>6. Disjoint(new)
  BY <1>2, <1>4 DEF Sendable, Disjoint
<1> QED
  BY <1>5, <1>6 DEF Sendable, new, g

\* What the server stores has an id of its own for each group.
LEMMA SluggedGroups ==
  ASSUME NEW doc, Sendable(doc)
  PROVE  Stored(Slugged(doc))
<1> DEFINE new == Slugged(doc)
           stem(i) == Stem[doc[i].name]
           before(i) == {j \in 1 .. i : stem(j) = stem(i)}
<1>1. PICK S : doc \in Seq(S)
  BY DEF Sendable, Shaped
<1>2. DOMAIN doc = 1 .. Len(doc) /\ Len(doc) \in Nat
  BY <1>1
<1>3. /\ new = [i \in DOMAIN doc |-> new[i]]
      /\ \A i \in DOMAIN doc :
            /\ DOMAIN new[i] = DOMAIN doc[i] /\ new[i].layers = doc[i].layers
            /\ new[i].id = <<stem(i), Cardinality(before(i))>>
  BY DEF Slugged, Sendable, Shaped
<1>4. ASSUME NEW i \in DOMAIN doc, NEW j \in DOMAIN doc, i < j, stem(i) = stem(j)
      PROVE  Cardinality(before(i)) # Cardinality(before(j))
  <2>1. before(i) \in SUBSET before(j) /\ j \in before(j) /\ j \notin before(i)
    BY <1>2, <1>4
  <2>2. IsFiniteSet(before(j))
    <3>1. IsFiniteSet(1 .. j) /\ before(j) \in SUBSET (1 .. j)
      BY <1>2, FS_Interval
    <3> HIDE DEF before
    <3> QED
      BY <3>1, FS_Subset
  <2> HIDE DEF before
  <2>3. Cardinality(before(i)) = Cardinality(before(j)) => before(i) = before(j)
    BY <2>1, <2>2, FS_Subset
  <2> QED
    BY <2>1, <2>3
<1> HIDE DEF new, before, stem
<1>5. Shaped(new)
  BY <1>3, ChangedGroups DEF Sendable
<1>6. Disjoint(new)
  BY <1>3 DEF Sendable, Disjoint
<1>7. UniqueIds(new)
  <2> SUFFICES ASSUME NEW i \in DOMAIN doc, NEW j \in DOMAIN doc, new[i].id = new[j].id, i # j
               PROVE  FALSE
    BY <1>3 DEF UniqueIds
  <2>1. stem(i) = stem(j) /\ Cardinality(before(i)) = Cardinality(before(j))
    BY <1>3
  <2>2. i < j \/ j < i
    BY <1>2
  <2> QED
    BY <1>4, <2>1, <2>2
<1> QED
  BY <1>5, <1>6, <1>7 DEF Stored, Sendable, new

-----------------------------------------------------------------------------
LEMMA InitGroupsInv == CardInit => GroupsInv
<1> SUFFICES ASSUME CardInit PROVE GroupsInv
  OBVIOUS
<1>1. file = FirstGroups /\ meta = None /\ replies = <<>>
  BY DEF CardInit, PageInit
<1>2. Stored(FirstGroups)
  <2>1. FirstGroups \in Seq(Group) /\ Disjoint(FirstGroups) /\ UniqueIds(FirstGroups)
    BY PageAssumption DEF PageAssumption
  <2>2. \A i \in DOMAIN FirstGroups : FirstGroups[i] \in Group
    BY <2>1
  <2>3. \A g \in Group : DOMAIN g = {"id", "name", "layers"}
    BY DEF Group
  <2> QED
    BY <2>1, <2>2, <2>3 DEF Stored, Sendable, Shaped
<1>3. ASSUME NEW l \in Lane PROVE calls[l].at # "save"
  <2>1. CASE l = 1
    BY <2>1 DEF CardInit, PageInit, Call
  <2>2. CASE l = 2
    BY <2>2 DEF CardInit, PageInit, Call
  <2>3. CASE l # 1 /\ l # 2
    BY <2>3 DEF CardInit, PageInit, Free
  <2> QED
    BY <2>1, <2>2, <2>3
<1> QED
  BY <1>1, <1>2, <1>3 DEF GroupsInv

\* A call that is no save, or none, starts; no document is touched.
Leaves ==
    /\ UNCHANGED <<file, meta, replies>>
    /\ UNCHANGED calls \/ \E c : Start(c) /\ c # Free /\ c.at # "save"

LEMMA RunLeaves ==
  ASSUME NEW oper, NEW parts, NEW groups, Run(oper, parts, groups)
  PROVE  Leaves
<1> DEFINE c == Call("op", oper, parts, groups)
<1>1. c # Free /\ c.at # "save"
  BY DEF Call, Free
<1>2. UNCHANGED calls \/ Start(c)
  BY DEF Run
<1> HIDE DEF c
<1> QED
  BY <1>1, <1>2 DEF Run, Leaves, server

\* The card sends what it has read, changed in one place.
LEMMA CardSends ==
  ASSUME GroupsInv, CardStep
  PROVE  Leaves \/ \E doc : Sendable(doc) /\ SaveGroups([doc |-> doc])
<1>1. Stored(CardGroups)
  BY NoGroups DEF GroupsInv, CardGroups
<1>2. Sendable(CardGroups)
  BY <1>1 DEF Stored
<1>3. CASE UNCHANGED pageVars
  BY <1>3 DEF pageVars, Leaves
<1>4. ASSUME NEW oper, NEW groups, Do(oper, groups) PROVE Leaves
  BY <1>4, RunLeaves DEF Do
<1>5. ASSUME NEW g, ToGroup(g) PROVE \E doc : Sendable(doc) /\ SaveGroups([doc |-> doc])
  BY <1>1, <1>5, MovedGroups DEF ToGroup, Save
<1>6. ASSUME DeleteGroup PROVE \E doc : Sendable(doc) /\ SaveGroups([doc |-> doc])
  BY <1>2, <1>6, FewerGroups DEF DeleteGroup, Save
<1>7. ASSUME Recolour PROVE \E doc : Sendable(doc) /\ SaveGroups([doc |-> doc])
  BY <1>2, <1>7 DEF Recolour, Save
<1>8. ASSUME NEW n, CommitGroupName(n) PROVE \E doc : Sendable(doc) /\ SaveGroups([doc |-> doc])
  BY <1>2, <1>8, RenamedGroups DEF CommitGroupName, Save
<1>9. ASSUME NEW n, CreateGroup(n) PROVE \E doc : Sendable(doc) /\ SaveGroups([doc |-> doc])
  BY <1>2, <1>9, MoreGroups DEF CreateGroup, Save
<1>10. ASSUME \/ \E i \in Rows : OpenConfirm(i) \/ DragStart(i) \/ StartEdit(i) \/ OpenLayerMenu(i)
              \/ \E g \in GroupIds : OpenGroupMenu(g)
              \/ StartCreating \/ StartGroupName \/ Close
       PROVE  UNCHANGED pageVars
  BY <1>10 DEF OpenConfirm, DragStart, StartEdit, OpenLayerMenu, OpenGroupMenu, StartCreating,
               StartGroupName, Close, Open
<1>11. ASSUME \/ \E i \in Rows : DropOnRow(i)
              \/ ConfirmRemove \/ CommitRename \/ Add
              \/ \E id \in LayerId : Restore(id)
       PROVE  Leaves
  BY <1>4, <1>11 DEF DropOnRow, ConfirmRemove, CommitRename, Add, Restore
<1> QED
  BY <1>3, <1>5, <1>6, <1>7, <1>8, <1>9, <1>10, <1>11 DEF CardStep

LEMMA PageLeaves ==
  ASSUME PageStep
  PROVE  Leaves
<1>1. ASSUME NEW c, c # Free, c.at # "save", Start(c), UNCHANGED <<file, meta, replies>> PROVE Leaves
  BY <1>1 DEF Leaves
<1>2. CASE Refresh
  <2> DEFINE c == Call("state", None, None, FALSE)
  <2>1. c # Free /\ c.at # "save"
    BY DEF Call, Free
  <2>2. Start(c) /\ UNCHANGED <<file, meta, replies>>
    BY <1>2 DEF Refresh, server
  <2> HIDE DEF c
  <2> QED
    BY <1>1, <2>1, <2>2
<1>3. CASE DoSnapshot
  <2> DEFINE c == Call("snapshot", None, None, FALSE)
  <2>1. c # Free /\ c.at # "save"
    BY DEF Call, Free
  <2>2. Start(c) /\ UNCHANGED <<file, meta, replies>>
    BY <1>3 DEF DoSnapshot, server, Start
  <2> HIDE DEF c
  <2> QED
    BY <1>1, <2>1, <2>2
<1>4. CASE Reset \/ EditKey \/ \E p \in Part : EditPart(p)
  BY <1>4, RunLeaves DEF Reset, EditKey, EditPart
<1> QED
  BY <1>2, <1>3, <1>4 DEF PageStep

LEMMA StartGroups ==
  ASSUME WholeInv, GroupsInv, NEW c, Start(c), c # Free,
         c.at = "save" => Sendable(c.sent.doc), UNCHANGED <<file, meta, replies>>
  PROVE  GroupsInv'
<1>1. PICK l \in Lane : calls[l] = Free /\ calls' = [calls EXCEPT ![l] = c]
  BY DEF Start, UnderWay
<1>2. calls'[l] = c /\ \A m \in Lane \ {l} : calls'[m] = calls[m]
  BY <1>1 DEF WholeInv, Wires, Calls
<1>3. \A k \in 1 .. Len(replies) : calls'[replies[k].to] = calls[replies[k].to]
  BY <1>1, <1>2 DEF WholeInv, Wires, Replies
<1> QED
  BY <1>2, <1>3 DEF GroupsInv

LEMMA ServeGroups ==
  ASSUME WholeInv, GroupsInv, NEW l \in Lane, Serve(l)
  PROVE  GroupsInv'
<1>1. PICK what, ok, doc :
         /\ Free.at \notin what /\ Asked(l, what) /\ Reply(l, ok, doc) /\ Stored(file')
         /\ calls[l].at \in {"groups", "save"} /\ ok => Stored(doc.groups)
  <2>1. CASE ServeOp(l)
    <3>1. Asked(l, {"op"}) /\ Free.at \notin {"op"} /\ calls[l].at \notin {"groups", "save"}
      BY <2>1 DEF ServeOp, Free, Asked
    <3>2. \E ok, doc : Reply(l, ok, doc)
      BY <2>1 DEF ServeOp
    <3>3. Stored(file')
      BY <2>1 DEF ServeOp, GroupsInv
    <3> QED
      BY <3>1, <3>2, <3>3
  <2>2. CASE ServeRead(l)
    <3> DEFINE what == {"state", "features", "groups", "snapshot"}
    <3>1. Asked(l, what) /\ Free.at \notin what /\ calls[l].at # "save"
      BY <2>2 DEF ServeRead, Free, Asked
    <3>2. Stored(file')
      BY <2>2 DEF ServeRead, server, GroupsInv
    <3>3. CASE Reply(l, FALSE, None)
      BY <3>1, <3>2, <3>3
    <3>4. CASE \E doc : Reply(l, TRUE, doc) /\ (calls[l].at = "groups" => doc = MetaDoc(file))
      <4>1. PICK doc : Reply(l, TRUE, doc) /\ (calls[l].at = "groups" => doc = MetaDoc(file))
        BY <3>4
      <4>2. calls[l].at \in {"groups", "save"} => Stored(doc.groups)
        BY <3>1, <4>1 DEF MetaDoc, GroupsInv
      <4> HIDE DEF what
      <4> QED
        BY <3>1, <3>2, <4>1, <4>2
    <3>5. \/ Reply(l, FALSE, None)
          \/ \E doc : Reply(l, TRUE, doc) /\ (calls[l].at = "groups" => doc = MetaDoc(file))
      BY <2>2 DEF ServeRead
    <3> QED
      BY <3>3, <3>4, <3>5
  <2>3. CASE ServeSave(l)
    <3> DEFINE new == Slugged(calls[l].sent.doc)
    <3>1. Asked(l, {"save"}) /\ Free.at \notin {"save"} /\ calls[l].at = "save"
      BY <2>3 DEF ServeSave, Free, Asked
    <3>2. Stored(new)
      BY <3>1, SluggedGroups DEF GroupsInv
    <3>3. Stored(MetaDoc(new).groups)
      BY <3>2 DEF MetaDoc
    <3>4. \E ok, doc : Reply(l, ok, doc) /\ (ok => doc = MetaDoc(new))
      BY <2>3 DEF ServeSave
    <3>5. file' \in {file, new}
      BY <2>3 DEF ServeSave
    <3> HIDE DEF new
    <3>6. Stored(file')
      BY <3>2, <3>5 DEF GroupsInv
    <3> QED
      BY <3>1, <3>3, <3>4, <3>6
  <2> QED
    BY <2>1, <2>2, <2>3 DEF Serve
<1>2. /\ Len(replies) \in Nat /\ Len(replies') = Len(replies) + 1
      /\ \A k \in 1 .. Len(replies) :
            /\ replies'[k] = replies[k] /\ replies[k].to \in Lane \ {l}
            /\ calls'[replies[k].to] = calls[replies[k].to]
      /\ LET r == replies'[Len(replies) + 1] IN r.to = l /\ r.ok = ok /\ r.doc = doc
      /\ CallShape(calls[l])
      /\ \A m \in Lane \ {l} : calls'[m] = calls[m]
      /\ calls'[l] = [calls[l] EXCEPT !.served = TRUE]
  BY <1>1, Replied DEF WholeInv
<1>3. calls'[l].at = calls[l].at /\ calls'[l].sent = calls[l].sent
  BY <1>2 DEF CallShape
<1>4. UNCHANGED meta
  BY DEF Serve, ServeOp, ServeRead, ServeSave
<1>5. ASSUME NEW k \in 1 .. Len(replies'), calls'[replies'[k].to].at \in {"groups", "save"}, replies'[k].ok
      PROVE  Stored(replies'[k].doc.groups)
  <2>1. CASE k \in 1 .. Len(replies)
    BY <1>2, <1>5, <2>1 DEF GroupsInv
  <2>2. CASE k = Len(replies) + 1
    BY <1>1, <1>2, <1>3, <1>5, <2>2
  <2> QED
    BY <1>2, <2>1, <2>2
<1>6. ASSUME NEW m \in Lane, calls'[m].at = "save"
      PROVE  Sendable(calls'[m].sent.doc)
  <2>1. calls'[m].at = calls[m].at /\ calls'[m].sent = calls[m].sent
    BY <1>2, <1>3
  <2>2. Sendable(calls[m].sent.doc)
    BY <1>6, <2>1 DEF GroupsInv
  <2> QED
    BY <2>1, <2>2
<1> QED
  BY <1>1, <1>4, <1>5, <1>6 DEF GroupsInv

LEMMA ResumeGroups ==
  ASSUME WholeInv, GroupsInv, Resume
  PROVE  GroupsInv'
<1>0. PICK k \in DOMAIN replies : \E c :
         /\ Take(k) /\ GoOn(replies[k].to, c) /\ c.at \notin {"op", "save"}
         /\ UNCHANGED file
         /\ \/ meta' \in {meta, <<>>}
            \/ calls[replies[k].to].at \in {"groups", "save"} /\ replies[k].ok /\ meta' = replies[k].doc.groups
  BY ResumeGoes
<1>1. PICK c :
         /\ Take(k) /\ GoOn(replies[k].to, c) /\ c.at \notin {"op", "save"}
         /\ UNCHANGED file
         /\ \/ meta' \in {meta, <<>>}
            \/ calls[replies[k].to].at \in {"groups", "save"} /\ replies[k].ok /\ meta' = replies[k].doc.groups
  BY <1>0
<1>2. /\ k \in 1 .. Len(replies) /\ calls'[replies[k].to] = c
      /\ \A m \in Lane \ {replies[k].to} : calls'[m] = calls[m]
      /\ \A j \in 1 .. Len(replies') :
            /\ Was(k, j) \in 1 .. Len(replies) \ {k}
            /\ replies'[j] = replies[Was(k, j)]
            /\ calls'[replies[Was(k, j)].to] = calls[replies[Was(k, j)].to]
  <2>1. Wires /\ Take(k) /\ GoOn(replies[k].to, c)
    BY <1>1 DEF WholeInv
  <2>2. k \in 1 .. Len(replies) /\ calls'[replies[k].to] = c
    BY <2>1, Resumed
  <2>3. \A m \in Lane \ {replies[k].to} : calls'[m] = calls[m]
    BY <2>1, Resumed
  <2>4. \A j \in 1 .. Len(replies') :
            /\ Was(k, j) \in 1 .. Len(replies) \ {k}
            /\ replies'[j] = replies[Was(k, j)]
            /\ replies[Was(k, j)].to \in Lane \ {replies[k].to}
            /\ calls'[replies[Was(k, j)].to] = calls[replies[Was(k, j)].to]
    BY <2>1, Resumed
  <2> QED
    BY <2>2, <2>3, <2>4
<1>3. meta' # None => Stored(meta')
  BY <1>1, <1>2, NoGroups DEF GroupsInv
<1>4. ASSUME NEW j \in 1 .. Len(replies'), calls'[replies'[j].to].at \in {"groups", "save"}, replies'[j].ok
      PROVE  Stored(replies'[j].doc.groups)
  BY <1>2, <1>4 DEF GroupsInv
<1>5. \A m \in Lane : calls'[m].at = "save" => Sendable(calls'[m].sent.doc)
  BY <1>1, <1>2 DEF GroupsInv
<1> QED
  BY <1>1, <1>3, <1>4, <1>5 DEF GroupsInv

LEMMA StepGroupsInv ==
  ASSUME WholeInv, GroupsInv, [CardNext]_cardVars
  PROVE  GroupsInv'
<1>1. CASE UNCHANGED cardVars
  BY <1>1 DEF cardVars, pageVars, GroupsInv
<1>2. CASE Leaves
  <2>1. CASE UNCHANGED calls
    BY <1>2, <2>1 DEF Leaves, GroupsInv
  <2>2. ASSUME NEW c, Start(c), c # Free, c.at # "save" PROVE GroupsInv'
    BY <1>2, <2>2, StartGroups DEF Leaves
  <2> QED
    BY <1>2, <2>1, <2>2 DEF Leaves
<1>3. ASSUME NEW doc, Sendable(doc), SaveGroups([doc |-> doc]) PROVE GroupsInv'
  <2> DEFINE c == Call("save", [doc |-> doc], None, FALSE)
  <2>1. c # Free /\ Sendable(c.sent.doc)
    BY <1>3 DEF Call, Free
  <2>2. Start(c) /\ UNCHANGED <<file, meta, replies>>
    BY <1>3 DEF SaveGroups, server
  <2> HIDE DEF c
  <2> QED
    BY <2>1, <2>2, StartGroups
<1>4. CASE CardStep
  BY <1>2, <1>3, <1>4, CardSends
<1>5. CASE PageStep
  BY <1>2, <1>5, PageLeaves
<1>6. ASSUME NEW l \in Lane, Serve(l) PROVE GroupsInv'
  BY <1>6, ServeGroups
<1>7. CASE Lock
  BY <1>7 DEF Lock, GroupsInv
<1>8. CASE Resume
  BY <1>8, ResumeGroups
<1> QED
  BY <1>1, <1>4, <1>5, <1>6, <1>7, <1>8 DEF CardNext, ServerStep, ReplyStep

\* The server refuses no save of the groups for a layer in two of them, for any groups
\* and layers, whatever was renamed, slugged anew, deleted or overtaken in between, and in
\* whatever order replies arrive (groups.ts, LayerChips.tsx; server.py _validate_groups).
THEOREM SavesStayAccepted == CardSpec => []SavesAreAccepted
<1>1. CardInit => WholeInv /\ GroupsInv
  BY InitWholeInv, InitGroupsInv
<1>2. (WholeInv /\ GroupsInv) /\ [CardNext]_cardVars => (WholeInv /\ GroupsInv)'
  BY StepWholeInv, StepGroupsInv
<1>3. WholeInv /\ GroupsInv => SavesAreAccepted
  BY DEF GroupsInv, Sendable, SavesAreAccepted
<1> QED
  BY <1>1, <1>2, <1>3, PTL DEF CardSpec

=============================================================================
