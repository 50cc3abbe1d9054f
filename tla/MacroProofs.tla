----------------------------- MODULE MacroProofs -----------------------------
(***************************************************************************)
(* Proofs about the macro store, for any number of slots, any length of a  *)
(* macro and any macros the host sends.                                    *)
(***************************************************************************)
EXTENDS Macro, FiniteSetTheorems, WellFoundedInduction, TLAPS

\* What flash and cache may hold: macros as the firmware cuts them.
Stored == {Clamp(m) : m \in Macros}

Types ==
    /\ nvs \in [Slot -> Stored \cup {Absent}]
    /\ DOMAIN cache = Slot
    /\ toLoad \subseteq Slot
    /\ slot \in Slot
    /\ waiting \in Slot \cup {None}
    /\ pc \in {"save", "lock", "copy"} => steps \in Stored
    /\ IF up THEN toLoad = {} ELSE pc = "idle"
    /\ \A s \in toLoad : nvs[s] # Absent

\* A cache entry that is being overwritten is guarded by the mutex.
Guarded ==
    /\ pc = "copy" => locked
    /\ \A s \in Slot : (pc = "copy" /\ s = slot) \/ cache[s] \in Stored \cup {<<>>}

\* What a key press took from the cache was whole.
PlayedWhole == played \in Seq(Stored \cup {<<>>})

MutexInv == Types /\ Guarded /\ PlayedWhole

-----------------------------------------------------------------------------

\* The slots are a circle: there is a first, and from each the next one.
LEMMA SlotsAreSome == FirstSlot \in Slot /\ \A s \in Slot : (s + 1) % Slots \in Slot
<1>1. Slots \in Nat /\ Slots >= 1
  BY MacroAssumption DEF MacroAssumption
<1> QED
  BY <1>1 DEF Slot, FirstSlot

\* A cut macro cut again stays as it is.
LEMMA ClampTwice == \A m \in Stored : Clamp(m) = m /\ m # Absent
<1> SUFFICES ASSUME NEW h \in Macros PROVE Clamp(Clamp(h)) = Clamp(h) /\ Clamp(h) # Absent
  BY DEF Stored
<1>1. PICK S : h \in Seq(S)
  BY MacroAssumption DEF MacroAssumption
<1>2. MaxSteps \in Nat
  BY MacroAssumption DEF MacroAssumption
<1>3. \A a, b \in Nat : Min({a, b}) = IF a <= b THEN a ELSE b
  BY DEF Min
<1>4. Len(h) \in Nat
  BY <1>1
<1> DEFINE n == IF Len(h) <= MaxSteps THEN Len(h) ELSE MaxSteps
<1>5. Clamp(h) = SubSeq(h, 1, n) /\ n \in Nat /\ n <= Len(h) /\ n <= MaxSteps
  BY <1>2, <1>3, <1>4 DEF Clamp
<1> HIDE DEF n
<1>6. Clamp(h) \in Seq(S) /\ Len(Clamp(h)) = n
  BY <1>1, <1>5
<1>7. Clamp(Clamp(h)) = SubSeq(Clamp(h), 1, n)
  BY <1>2, <1>3, <1>5, <1>6 DEF Clamp
<1>8. SubSeq(Clamp(h), 1, n) = Clamp(h)
  BY <1>1, <1>5, <1>6
<1> QED
  BY <1>7, <1>8, MacroAssumption DEF MacroAssumption

-----------------------------------------------------------------------------
(* The mutex, and what key presses play. *)

LEMMA InitMutexInv == Init => MutexInv
  BY SlotsAreSome DEF Init, MutexInv, Types, Guarded, PlayedWhole

\* A key press that has the mutex plays a whole macro.
LEMMA PlayIsWhole ==
  ASSUME MutexInv, NEW s \in Slot, ~locked, Play(s)
  PROVE  PlayedWhole'
<1>1. cache[s] \in Stored \cup {<<>>}
  BY DEF MutexInv, Guarded
<1>2. played' = Append(played, cache[s])
  BY DEF Play
<1> QED
  BY <1>1, <1>2 DEF MutexInv, PlayedWhole

LEMMA StepMutexInv == MutexInv /\ [Next]_vars => MutexInv'
<1> SUFFICES ASSUME MutexInv, [Next]_vars
             PROVE  MutexInv'
  OBVIOUS
<1> USE DEF MutexInv, Types, Guarded, PlayedWhole, rpc, keys
<1>1. ASSUME NEW r \in ReqSlot, NEW m \in Macros, SetMacro(r, m)
      PROVE  MutexInv'
  BY <1>1 DEF SetMacro, Ready, Stored
<1>2. ASSUME NEW ok \in BOOLEAN, Save(ok)
      PROVE  MutexInv'
  BY <1>2 DEF Save
<1>3. CASE Lock
  BY <1>3 DEF Lock
<1>4. CASE CopyStep
  BY <1>4 DEF CopyStep
<1>5. CASE CopyDone
  BY <1>5 DEF CopyDone
<1>6. CASE ClearAll
  BY <1>6, SlotsAreSome DEF ClearAll, Ready
<1>7. ASSUME NEW ok \in BOOLEAN, ClearSlot(ok)
      PROVE  MutexInv'
  <2>1. (slot + 1) % Slots \in Slot
    BY SlotsAreSome
  <2>2. nvs' \in [Slot -> Stored \cup {Absent}]
    BY <1>7 DEF ClearSlot
  <2> QED
    BY <1>7, <2>1, <2>2 DEF ClearSlot
<1>8. ASSUME NEW s \in Slot, KeyPress(s)
      PROVE  MutexInv'
  <2>1. PlayedWhole'
    <3>1. CASE locked
      BY <1>8, <3>1 DEF KeyPress
    <3>2. CASE ~locked
      BY <1>8, <3>2, PlayIsWhole DEF KeyPress
    <3> QED
      BY <3>1, <3>2
  <2>2. waiting' \in Slot \cup {None}
    BY <1>8 DEF KeyPress
  <2> QED
    BY <1>8, <2>1, <2>2 DEF KeyPress
<1>9. ASSUME NEW s \in Slot, SettingsSet(s)
      PROVE  MutexInv'
  BY <1>9, ClampTwice DEF SettingsSet
<1>10. CASE MutexGranted
  BY <1>10, PlayIsWhole DEF MutexGranted
<1>11. CASE QueueWork
  BY <1>11 DEF QueueWork
<1>12. CASE PowerCut
  BY <1>12, SlotsAreSome DEF PowerCut
<1>13. CASE LoadDone
  BY <1>13 DEF LoadDone
<1>14. CASE UNCHANGED vars
  BY <1>14 DEF vars
<1> QED
  BY <1>1, <1>2, <1>3, <1>4, <1>5, <1>6, <1>7, <1>8, <1>9, <1>10, <1>11, <1>12, <1>13, <1>14
  DEF Next, RpcStep

\* The work queue preempts cache_update between any two steps, and no key press ever
\* plays half of an old macro and half of a new one, nor what power left unloaded:
\* it plays a macro the host sent, as the firmware cut it, or nothing.
THEOREM WholeMacrosPlay == Spec => []PlaysWholeMacros
<1>1. MutexInv => PlaysWholeMacros
  BY DEF MutexInv, PlayedWhole, PlaysWholeMacros, Stored
<1> QED
  BY <1>1, InitMutexInv, StepMutexInv, PTL DEF Spec

-----------------------------------------------------------------------------
(* The cache and flash. *)

\* Between a save and the end of the copy flash is ahead of the cache by the macro in
\* steps; while the keyboard boots the keys in toLoad are.
CacheInv ==
    /\ MutexInv
    /\ \A s \in Slot :
          \/ cache[s] = Whole(nvs[s])
          \/ up /\ pc \in {"lock", "copy", "clear"} /\ s = slot
          \/ ~up /\ s \in toLoad
    /\ pc \in {"lock", "copy"} => nvs[slot] = steps

LEMMA InitCacheInv == Init => CacheInv
  BY InitMutexInv DEF Init, CacheInv, Whole

LEMMA StepCacheInv ==
  ASSUME ~DeleteMayFail
  PROVE  CacheInv /\ [Next]_vars => CacheInv'
<1> SUFFICES ASSUME CacheInv, [Next]_vars
             PROVE  CacheInv'
  OBVIOUS
<1> USE DEF CacheInv, MutexInv, Types, rpc, keys
<1>0. MutexInv'
  BY StepMutexInv
<1>1. ASSUME NEW r \in ReqSlot, NEW m \in Macros, SetMacro(r, m)
      PROVE  CacheInv'
  BY <1>0, <1>1 DEF SetMacro, Ready
<1>2. ASSUME NEW ok \in BOOLEAN, Save(ok)
      PROVE  CacheInv'
  BY <1>0, <1>2 DEF Save
<1>3. CASE Lock
  BY <1>0, <1>3 DEF Lock
<1>4. CASE CopyStep
  BY <1>0, <1>4 DEF CopyStep
<1>5. CASE CopyDone
  BY <1>0, <1>5, ClampTwice DEF CopyDone, Whole
<1>6. CASE ClearAll
  BY <1>0, <1>6 DEF ClearAll, Ready
<1>7. ASSUME NEW ok \in BOOLEAN, ClearSlot(ok)
      PROVE  CacheInv'
  <2>1. /\ nvs' = [nvs EXCEPT ![slot] = Absent]
        /\ cache' = [cache EXCEPT ![slot] = <<>>]
    BY <1>7 DEF ClearSlot
  <2>2. cache'[slot] = Whole(nvs'[slot])
    BY <2>1 DEF Whole
  <2>3. \A s \in Slot \ {slot} : cache'[s] = cache[s] /\ nvs'[s] = nvs[s]
    BY <2>1
  <2>4. up' = up /\ up /\ pc' \in {"clear", "idle"}
    BY <1>7 DEF ClearSlot
  <2>5. \A s \in Slot : cache'[s] = Whole(nvs'[s])
    BY <1>7, <2>2, <2>3, <2>4 DEF ClearSlot, Whole
  <2> QED
    BY <1>0, <2>4, <2>5 DEF Whole
<1>8. ASSUME NEW s \in Slot, KeyPress(s)
      PROVE  CacheInv'
  BY <1>0, <1>8 DEF KeyPress
<1>9. ASSUME NEW s \in Slot, SettingsSet(s)
      PROVE  CacheInv'
  BY <1>0, <1>9, ClampTwice DEF SettingsSet, Whole
<1>10. CASE MutexGranted
  BY <1>0, <1>10 DEF MutexGranted
<1>11. CASE QueueWork
  BY <1>0, <1>11 DEF QueueWork
<1>12. CASE PowerCut
  BY <1>0, <1>12 DEF PowerCut, Whole
<1>13. CASE LoadDone
  BY <1>0, <1>13 DEF LoadDone
<1>14. CASE UNCHANGED vars
  BY <1>0, <1>14 DEF vars, Whole
<1> QED
  BY <1>1, <1>2, <1>3, <1>4, <1>5, <1>6, <1>7, <1>8, <1>9, <1>10, <1>11, <1>12, <1>13, <1>14
  DEF Next, RpcStep

\* The comment in rt_macro_set_steps, "the cache never diverges from what is stored in
\* NVS": between requests they agree in every slot, whatever saves fail and wherever
\* power is cut, and during one in every slot but its own; if deletions succeed.
THEOREM CacheAndFlashAgree ==
  ASSUME ~DeleteMayFail
  PROVE  Spec => []CacheMatchesFlash
<1>1. CacheInv => CacheMatchesFlash
  BY DEF CacheInv, MutexInv, Types, CacheMatchesFlash
<1> QED
  BY <1>1, InitCacheInv, StepCacheInv, PTL DEF Spec

-----------------------------------------------------------------------------
(* The behavior queue: balanced macros leave no key down.                   *)

\* Every nonempty set of numbers has a least one; induction below is for want of a
\* least counterexample.
LEMMA LeastNumber ==
  ASSUME NEW S \in SUBSET Nat, S # {}
  PROVE  Min(S) \in S /\ \A n \in S : Min(S) <= n
<1>1. \E m \in S : \A n \in S : ~ (<<n, m>> \in OpToRel(<, Nat))
  BY NatLessThanWellFounded, WFMin, Zenon
<1>2. PICK m \in S : \A n \in S : ~ (<<n, m>> \in OpToRel(<, Nat))
  BY <1>1
<1>3. ASSUME NEW n \in S
      PROVE  m <= n
  <2>1. ~ (<<n, m>> \in OpToRel(<, Nat))
    BY <1>2
  <2> QED
    BY <2>1 DEF OpToRel
<1> QED
  BY <1>3 DEF Min

\* Steps as the host sends them, and the items they become.
AnyKey == UNION {{m[i].key : i \in DOMAIN m} : m \in Macros}
Step == [type : {"tap", "press", "release"}, key : AnyKey, hold : BOOLEAN, wait : BOOLEAN]
Item == [key : AnyKey, press : BOOLEAN, wait : BOOLEAN]
BeltType == [queue : Seq(Item), down : SUBSET AnyKey, delayed : BOOLEAN, dropped : BOOLEAN]

\* What is down comes up again, by an item that is still queued or, for the keys in R, by a step
\* that is not queued yet; so does what queued items will press.
Lifts(q, k, i) == \E j \in i .. Len(q) : ~q[j].press /\ q[j].key = k
ComesUp(st, R) ==
    \/ st.dropped
    \/ /\ \A k \in st.down : k \in R \/ Lifts(st.queue, k, 1)
       /\ \A i \in 1 .. Len(st.queue) :
             st.queue[i].press => st.queue[i].key \in R \/ Lifts(st.queue, st.queue[i].key, i + 1)

LEMMA WiderSeq == ASSUME NEW S, NEW T, S \subseteq T, NEW m \in Seq(S) PROVE m \in Seq(T)
  OBVIOUS

LEMMA StoredSteps == Stored \cup {<<>>} \subseteq Seq(Step)
<1>1. ASSUME NEW h \in Macros
      PROVE  Clamp(h) \in Seq(Step)
  <2> DEFINE S == [type : {"tap", "press", "release"}, key : {h[i].key : i \in DOMAIN h},
                   hold : BOOLEAN, wait : BOOLEAN]
             n == Min({Len(h), MaxSteps})
  <2>1. h \in Seq(S)
    BY MacroAssumption DEF MacroAssumption
  <2>2. S \subseteq Step
    <3>1. {h[i].key : i \in DOMAIN h} \subseteq AnyKey
      BY DEF AnyKey
    <3> QED
      BY <3>1 DEF Step
  <2>3. h \in Seq(Step)
    <3> HIDE DEF S
    <3> QED
      BY <2>1, <2>2, WiderSeq
  <2>4. Len(h) \in Nat /\ MaxSteps \in Nat
    BY <2>3, MacroAssumption DEF MacroAssumption
  <2>5. n \in Nat /\ n <= Len(h)
    BY <2>4, LeastNumber
  <2>6. Clamp(h) = SubSeq(h, 1, n)
    BY DEF Clamp
  <2> HIDE DEF n
  <2>7. SubSeq(h, 1, n) \in Seq(Step)
    BY <2>3, <2>5
  <2> QED
    BY <2>6, <2>7
<1>2. \A h \in Macros : Clamp(h) \in Seq(Step)
  BY <1>1
<1>3. <<>> \in Seq(Step)
  OBVIOUS
<1> QED
  BY <1>2, <1>3 DEF Stored

LEMMA ProcessKeeps ==
  ASSUME NEW st \in BeltType
  PROVE  /\ Process(st) \in BeltType
         /\ \A R : ComesUp(st, R) => ComesUp(Process(st), R)
<1> DEFINE q == st.queue
           n == Min({Len(q)} \cup {i \in DOMAIN q : q[i].wait})
           s == SubSeq(q, n + 1, Len(q))
           d == Carried(q, n, st.down)
<1>1. q \in Seq(Item) /\ Len(q) \in Nat
  BY DEF BeltType
<1>2. n \in Nat /\ n <= Len(q)
  <2> DEFINE T == {Len(q)} \cup {i \in DOMAIN q : q[i].wait}
  <2>1. T \in SUBSET Nat /\ Len(q) \in T
    BY <1>1
  <2> HIDE DEF T
  <2>2. Min(T) \in T /\ \A y \in T : Min(T) <= y
    BY <2>1, LeastNumber
  <2>3. Min(T) \in Nat /\ Min(T) <= Len(q)
    BY <2>1, <2>2
  <2> QED
    BY <2>3 DEF T
<1>3. /\ Process(st).queue = s /\ Process(st).down = d /\ Process(st).dropped = st.dropped
      /\ Process(st) = [st EXCEPT !.queue = s, !.down = d, !.delayed = n > 0 /\ q[n].wait]
  BY DEF Process, BeltType
<1> HIDE DEF n
<1>4. /\ s \in Seq(Item) /\ Len(s) = Len(q) - n
      /\ \A i \in 1 .. Len(s) : s[i] = q[n + i]
  BY <1>1, <1>2
<1> HIDE DEF s
<1>5. ASSUME NEW i \in 1 .. n
      PROVE  q[i].key \in AnyKey
  <2>1. q[i] \in Item
    BY <1>1, <1>2
  <2> QED
    BY <2>1 DEF Item
<1>6. d \subseteq AnyKey
  BY <1>1, <1>2, <1>5 DEF Carried, BeltType
<1>7. (n > 0 /\ q[n].wait) \in BOOLEAN
  OBVIOUS
<1> HIDE DEF d, q
<1>8. Process(st) \in BeltType
  BY <1>3, <1>4, <1>6, <1>7 DEF BeltType
<1>9. ASSUME NEW k, NEW j \in n + 1 .. Len(q), ~q[j].press, q[j].key = k, NEW i \in Nat, i + n <= j, i >= 1
      PROVE  Lifts(s, k, i)
  <2>1. j - n \in i .. Len(s) /\ s[j - n] = q[j]
    BY <1>1, <1>2, <1>4, <1>9
  <2> QED
    BY <1>9, <2>1 DEF Lifts
<1>10. ASSUME NEW R, ComesUp(st, R), ~st.dropped
       PROVE  ComesUp(Process(st), R)
  <2>1. ASSUME NEW k \in d, k \notin R
        PROVE  Lifts(s, k, 1)
    <3>1. CASE k \in st.down /\ \A i \in 1 .. n : q[i].key # k
      <4>1. PICK j \in 1 .. Len(q) : ~q[j].press /\ q[j].key = k
        BY <1>10, <2>1, <3>1 DEF ComesUp, Lifts, q
      <4>2. j \in n + 1 .. Len(q)
        BY <1>1, <1>2, <3>1, <4>1
      <4> QED
        BY <1>2, <1>9, <4>1, <4>2
    <3>2. ASSUME NEW i \in 1 .. n, \A j \in i + 1 .. n : q[j].key # q[i].key, q[i].press, k = q[i].key
          PROVE  Lifts(s, k, 1)
      <4>1. PICK j \in i + 1 .. Len(q) : ~q[j].press /\ q[j].key = k
        BY <1>1, <1>2, <1>10, <2>1, <3>2 DEF ComesUp, Lifts, q
      <4>2. j \in n + 1 .. Len(q)
        BY <1>1, <1>2, <3>2, <4>1
      <4> QED
        BY <1>2, <1>9, <4>1, <4>2
    <3> QED
      BY <2>1, <3>1, <3>2 DEF Carried, d
  <2>2. ASSUME NEW i \in 1 .. Len(s), s[i].press, s[i].key \notin R
        PROVE  Lifts(s, s[i].key, i + 1)
    <3>1. n + i \in 1 .. Len(q) /\ s[i] = q[n + i]
      BY <1>1, <1>2, <1>4
    <3>2. PICK j \in n + i + 1 .. Len(q) : ~q[j].press /\ q[j].key = s[i].key
      BY <1>10, <2>2, <3>1 DEF ComesUp, Lifts, q
    <3>3. j \in n + 1 .. Len(q) /\ (i + 1) + n <= j /\ i + 1 \in Nat /\ i + 1 >= 1
      BY <1>1, <1>2, <3>2
    <3> QED
      BY <1>9, <3>2, <3>3
  <2> QED
    BY <1>3, <2>1, <2>2 DEF ComesUp
<1>11. ASSUME NEW R, st.dropped
       PROVE  ComesUp(Process(st), R)
  BY <1>3, <1>11 DEF ComesUp
<1> QED
  BY <1>8, <1>10, <1>11

\* An item is queued: what it presses has to come up later, what it lets go it answers for.
LEMMA AddKeeps ==
  ASSUME NEW st \in BeltType, NEW item \in Item
  PROVE  /\ Add(st, item) \in BeltType
         /\ \A R, Q : /\ ComesUp(st, R)
                      /\ R \subseteq Q \cup (IF item.press THEN {} ELSE {item.key})
                      /\ item.press => item.key \in Q
                      => ComesUp(Add(st, item), Q)
<1> DEFINE q == st.queue
           a == Append(q, item)
           more == [st EXCEPT !.queue = a]
           full == [st EXCEPT !.dropped = TRUE]
<1>1. q \in Seq(Item) /\ Len(q) \in Nat
  BY DEF BeltType
<1>2. /\ a \in Seq(Item) /\ Len(a) = Len(q) + 1 /\ a[Len(q) + 1] = item
      /\ \A i \in 1 .. Len(q) : a[i] = q[i]
  BY <1>1
<1>3. /\ more.queue = a /\ more.down = st.down /\ more.dropped = st.dropped
      /\ full.dropped = TRUE
      /\ Add(st, item) \in {full, more, Process(more)}
  BY DEF Add, BeltType
<1> HIDE DEF a
<1>4. more \in BeltType /\ full \in BeltType
  BY <1>2 DEF BeltType
<1> HIDE DEF more, full, q
<1>5. ASSUME NEW R, NEW Q, ComesUp(st, R),
             R \subseteq Q \cup (IF item.press THEN {} ELSE {item.key}), item.press => item.key \in Q
      PROVE  ComesUp(more, Q)
  <2> SUFFICES ASSUME ~st.dropped
               PROVE  ComesUp(more, Q)
    BY <1>3 DEF ComesUp
  <2>1. ASSUME NEW k, NEW i \in 1 .. Len(q) + 1, k \in R \/ Lifts(q, k, i), k \notin Q
        PROVE  Lifts(a, k, i)
    <3>1. CASE Lifts(q, k, i)
      BY <1>1, <1>2, <3>1 DEF Lifts
    <3>2. CASE k \in R
      <4>1. ~item.press /\ item.key = k
        BY <1>5, <2>1, <3>2
      <4> QED
        BY <1>1, <1>2, <4>1 DEF Lifts
    <3> QED
      BY <2>1, <3>1, <3>2
  <2>2. ASSUME NEW k \in st.down, k \notin Q
        PROVE  Lifts(a, k, 1)
    <3>1. 1 \in 1 .. Len(q) + 1
      BY <1>1
    <3> QED
      BY <1>5, <2>1, <2>2, <3>1 DEF ComesUp, q
  <2>3. ASSUME NEW i \in 1 .. Len(a), a[i].press, a[i].key \notin Q
        PROVE  Lifts(a, a[i].key, i + 1)
    <3>1. i \in 1 .. Len(q) /\ a[i] = q[i]
      BY <1>1, <1>2, <1>5, <2>3
    <3>2. i + 1 \in 1 .. Len(q) + 1
      BY <1>1, <3>1
    <3> QED
      BY <1>5, <2>1, <2>3, <3>1, <3>2 DEF ComesUp, q
  <2> QED
    BY <1>3, <2>2, <2>3 DEF ComesUp
<1>6. \A Q : ComesUp(full, Q)
  BY <1>3 DEF ComesUp
<1> QED
  BY <1>3, <1>4, <1>5, <1>6, ProcessKeeps

\* The keys that are let go by a step of m from the nth on.
ToLift(m, n) == {m[j].key : j \in {j \in n .. Len(m) : m[j].type = "release"}}

LEMMA AddStepKeeps ==
  ASSUME NEW st \in BeltType, NEW m \in Seq(Step), NEW n \in 1 .. Len(m)
  PROVE  /\ AddStep(st, m[n]) \in BeltType
         /\ /\ ComesUp(st, ToLift(m, n))
            /\ m[n].type = "press" => m[n].key \in ToLift(m, n + 1)
            => ComesUp(AddStep(st, m[n]), ToLift(m, n + 1))
<1> DEFINE s == m[n]
           R == ToLift(m, n)
           Q == ToLift(m, n + 1)
           on == [key |-> s.key, press |-> TRUE, wait |-> IF s.type = "tap" THEN s.hold ELSE s.wait]
           off == [key |-> s.key, press |-> FALSE, wait |-> s.wait]
<1>1. s \in Step
  OBVIOUS
<1>2. R \subseteq Q \cup (IF s.type = "release" THEN {s.key} ELSE {})
  BY DEF ToLift
<1> HIDE DEF s, R, Q
<1>3. on \in Item /\ off \in Item /\ on.press /\ ~off.press /\ on.key = s.key /\ off.key = s.key
  BY <1>1 DEF Step, Item
<1>4. /\ s.type = "press" => Items(s) = <<on>>
      /\ s.type = "release" => Items(s) = <<off>>
      /\ s.type = "tap" => Items(s) = <<on, off>>
  BY DEF Items
<1> HIDE DEF on, off
<1>5. ASSUME NEW x, Items(s) = <<x>>
      PROVE  AddStep(st, s) = Add(st, x)
  BY <1>5 DEF AddStep
<1>6. Items(s) = <<on, off>> => AddStep(st, s) = Add(Add(st, on), off)
  BY DEF AddStep
<1>7. /\ s.type = "press" => AddStep(st, s) = Add(st, on)
      /\ s.type = "release" => AddStep(st, s) = Add(st, off)
      /\ s.type = "tap" => AddStep(st, s) = Add(Add(st, on), off)
  BY <1>4, <1>5, <1>6
<1>8. CASE s.type = "press"
  BY <1>2, <1>3, <1>7, <1>8, AddKeeps DEF s, R, Q
<1>9. CASE s.type = "release"
  BY <1>2, <1>3, <1>7, <1>9, AddKeeps DEF s, R, Q
<1>10. CASE s.type = "tap"
  <2>1. Add(st, on) \in BeltType
    BY <1>3, AddKeeps
  <2>2. ComesUp(st, R) => ComesUp(Add(st, on), Q \cup {s.key})
    <3>1. R \subseteq (Q \cup {s.key}) \cup (IF on.press THEN {} ELSE {on.key}) /\ on.key \in Q \cup {s.key}
      BY <1>2, <1>3, <1>10
    <3> QED
      BY <1>3, <3>1, AddKeeps
  <2>3. ComesUp(Add(st, on), Q \cup {s.key}) => ComesUp(Add(Add(st, on), off), Q)
    <3>1. Q \cup {s.key} \subseteq Q \cup (IF off.press THEN {} ELSE {off.key})
      BY <1>3
    <3> QED
      BY <1>3, <2>1, <3>1, AddKeeps
  <2>4. Add(Add(st, on), off) \in BeltType
    BY <1>3, <2>1, AddKeeps
  <2> QED
    BY <1>7, <1>10, <2>2, <2>3, <2>4 DEF s, R, Q
<1>11. s.type \in {"press", "release", "tap"}
  BY <1>1 DEF Step
<1> QED
  BY <1>8, <1>9, <1>10, <1>11

\* In a balanced macro every press has its release behind it.
LEMMA BalancedLifts ==
  ASSUME NEW m \in Seq(Step), Balanced(m), NEW n \in 1 .. Len(m), m[n].type = "press"
  PROVE  m[n].key \in ToLift(m, n + 1)
<1> DEFINE k == m[n].key
           At(t, i) == {x \in 1 .. i : m[x].type = t /\ m[x].key = k}
           Open(i) == Cardinality(At("press", i)) - Cardinality(At("release", i))
<1> SUFFICES ASSUME k \notin ToLift(m, n + 1)
             PROVE  FALSE
  OBVIOUS
<1>1. Len(m) \in Nat /\ n \in Nat /\ n - 1 \in Nat /\ n <= Len(m) /\ DOMAIN m = 1 .. Len(m)
  OBVIOUS
<1>2. /\ n - 1 \in 1 .. Len(m) => Open(n - 1) >= 0
      /\ Open(Len(m)) = 0
  <2>1. k \in {m[i].key : i \in DOMAIN m}
    BY <1>1
  <2> QED
    BY <1>1, <2>1 DEF Balanced
<1>3. ASSUME NEW i \in Nat, NEW t
      PROVE  IsFiniteSet(At(t, i)) /\ Cardinality(At(t, i)) \in Nat
  <2>1. IsFiniteSet(1 .. i)
    <3>1. 1 \in Int /\ i \in Int
      BY <1>3
    <3> HIDE DEF At, k
    <3> QED
      BY <3>1, FS_Interval, Zenon
  <2>2. At(t, i) \in SUBSET (1 .. i)
    OBVIOUS
  <2> HIDE DEF At
  <2> QED
    BY <2>1, <2>2, FS_Subset, FS_CardinalityType
<1>4. At("release", Len(m)) = At("release", n - 1)
  <2>1. ASSUME NEW x \in n + 1 .. Len(m), m[x].type = "release", m[x].key = k
        PROVE  FALSE
    BY <2>1 DEF ToLift
  <2>2. m[n].type # "release"
    OBVIOUS
  <2>3. \A x \in 1 .. Len(m) : x \in 1 .. n - 1 \/ x = n \/ x \in n + 1 .. Len(m)
    BY <1>1
  <2>4. \A x \in 1 .. n - 1 : x \in 1 .. Len(m)
    BY <1>1
  <2> QED
    BY <2>1, <2>2, <2>3, <2>4
<1>5. At("press", n) = At("press", n - 1) \cup {n} /\ n \notin At("press", n - 1)
  <2>1. \A x \in 1 .. n : x \in 1 .. n - 1 \/ x = n
    BY <1>1
  <2>2. \A x \in 1 .. n - 1 : x \in 1 .. n /\ x # n
    BY <1>1
  <2> QED
    BY <1>1, <2>1, <2>2
<1>6. At("press", n) \in SUBSET At("press", Len(m))
  BY <1>1
<1>7. n = 1 => At("press", n - 1) = {} /\ At("release", n - 1) = {}
  BY <1>1
<1> HIDE DEF At, k
<1>8. Cardinality(At("press", n)) = Cardinality(At("press", n - 1)) + 1
  BY <1>1, <1>3, <1>5, FS_AddElement
<1>9. Cardinality(At("press", n)) <= Cardinality(At("press", Len(m)))
  BY <1>1, <1>3, <1>6, FS_Subset
<1>10. Open(n - 1) >= 0
  <2>1. CASE n = 1
    <3>1. Cardinality(At("press", n - 1)) = 0 /\ Cardinality(At("release", n - 1)) = 0
      BY <1>7, <2>1, FS_EmptySet
    <3> QED
      BY <3>1
  <2>2. CASE n # 1
    BY <1>1, <1>2, <2>2
  <2> QED
    BY <2>1, <2>2
<1>11. /\ Cardinality(At("press", n - 1)) \in Nat /\ Cardinality(At("press", Len(m))) \in Nat
       /\ Cardinality(At("release", n - 1)) \in Nat
       /\ Cardinality(At("release", Len(m))) = Cardinality(At("release", n - 1))
  BY <1>1, <1>3, <1>4
<1> QED
  BY <1>2, <1>8, <1>9, <1>10, <1>11

\* The states between the steps of a macro, the first being st.
StepStates(st, m, n, g) == g = [i \in 1 .. n |-> IF i = 1 THEN st ELSE AddStep(g[i - 1], m[i - 1])]

LEMMA StepStatesExist ==
  ASSUME NEW st, NEW m, NEW n \in Nat, n >= 1
  PROVE  \E g : StepStates(st, m, n, g)
<1> DEFINE T == {i \in Nat : i >= 1 /\ ~ \E g : StepStates(st, m, i, g)}
<1> SUFFICES ASSUME T # {}
             PROVE  FALSE
  OBVIOUS
<1>1. PICK i \in T : \A j \in T : i <= j
  <2>1. T \in SUBSET Nat
    OBVIOUS
  <2> HIDE DEF T
  <2> QED
    BY <2>1, LeastNumber
<1>2. i \in Nat /\ i >= 1 /\ ~ \E g : StepStates(st, m, i, g)
  BY <1>1
<1>3. CASE i = 1
  <2>1. StepStates(st, m, 1, [j \in 1 .. 1 |-> st])
    BY DEF StepStates
  <2> QED
    BY <1>2, <1>3, <2>1
<1>4. CASE i # 1
  <2>1. i - 1 \in Nat /\ i - 1 >= 1 /\ i - 1 \notin T
    BY <1>1, <1>2, <1>4
  <2>2. PICK g : StepStates(st, m, i - 1, g)
    BY <2>1
  <2> DEFINE f == [j \in 1 .. i |-> IF j = 1 THEN st ELSE AddStep(g[j - 1], m[j - 1])]
  <2>3. \A j \in 1 .. i - 1 : g[j] = f[j]
    BY <1>2, <2>2 DEF StepStates
  <2>4. ASSUME NEW j \in 1 .. i, j # 1
        PROVE  j - 1 \in 1 .. i - 1
    BY <1>2, <2>4
  <2>5. StepStates(st, m, i, f)
    <3> HIDE DEF f
    <3>1. \A j \in 1 .. i : j # 1 => g[j - 1] = f[j - 1]
      BY <2>3, <2>4
    <3> QED
      BY <3>1 DEF StepStates, f
  <2> QED
    BY <1>2, <2>5
<1> QED
  BY <1>3, <1>4

\* A macro is queued: if it is balanced, everything still comes up.
LEMMA AddStepsKeep ==
  ASSUME NEW st \in BeltType, NEW m \in Seq(Step)
  PROVE  /\ AddSteps(st, m) \in BeltType
         /\ Balanced(m) /\ ComesUp(st, {}) => ComesUp(AddSteps(st, m), {})
<1> DEFINE N == Len(m) + 1
<1>1. PICK g : StepStates(st, m, N, g) /\ AddSteps(st, m) = g[N]
  <2> DEFINE P(g) == g = [i \in 1 .. N |-> IF i = 1 THEN st ELSE AddStep(g[i - 1], m[i - 1])]
  <2>1. \E g : StepStates(st, m, N, g)
    <3>1. N \in Nat /\ N >= 1
      OBVIOUS
    <3> HIDE DEF N
    <3> QED
      BY <3>1, StepStatesExist
  <2>2. AddSteps(st, m) = (CHOOSE g : P(g))[N]
    BY DEF AddSteps
  <2>3. \A g : P(g) <=> StepStates(st, m, N, g)
    BY DEF StepStates
  <2> HIDE DEF P, N
  <2> QED
    BY <2>1, <2>2, <2>3
<1>2. N \in Nat /\ N >= 1 /\ Len(m) \in Nat
  OBVIOUS
<1>3. /\ g[1] = st
      /\ \A i \in 1 .. Len(m) : g[i + 1] = AddStep(g[i], m[i])
  <2>1. g[1] = st
    BY <1>1, <1>2 DEF StepStates
  <2>2. ASSUME NEW i \in 1 .. Len(m)
        PROVE  g[i + 1] = AddStep(g[i], m[i])
    <3>1. i + 1 \in 1 .. N /\ i + 1 # 1 /\ (i + 1) - 1 = i
      BY <1>2
    <3> QED
      BY <1>1, <3>1 DEF StepStates
  <2> QED
    BY <2>1, <2>2
<1> DEFINE Good(i) == /\ g[i] \in BeltType
                      /\ Balanced(m) /\ ComesUp(st, {}) => ComesUp(g[i], ToLift(m, i))
           T == {i \in 1 .. N : ~Good(i)}
<1>4. Good(1)
  <2>1. ComesUp(st, {}) => ComesUp(st, ToLift(m, 1))
    BY DEF ComesUp
  <2> QED
    BY <1>3, <2>1
<1>5. ASSUME NEW i \in 1 .. Len(m), Good(i)
      PROVE  Good(i + 1)
  <2>1. Balanced(m) /\ m[i].type = "press" => m[i].key \in ToLift(m, i + 1)
    BY BalancedLifts
  <2> QED
    BY <1>3, <1>5, <2>1, AddStepKeeps
<1>6. T = {}
  <2> SUFFICES ASSUME T # {}
               PROVE  FALSE
    OBVIOUS
  <2> HIDE DEF Good
  <2>1. T \in SUBSET Nat
    BY <1>2
  <2>2. PICK i \in T : \A j \in T : i <= j
    <3> HIDE DEF T
    <3> QED
      BY <2>1, LeastNumber
  <2>3. i # 1 /\ i \in 1 .. N /\ ~Good(i)
    BY <1>4, <2>2
  <2>4. i - 1 \in 1 .. Len(m) /\ i - 1 \in 1 .. N /\ i - 1 \notin T /\ (i - 1) + 1 = i
    BY <1>2, <2>2, <2>3
  <2>5. Good(i - 1)
    BY <2>4
  <2> QED
    BY <1>5, <2>3, <2>4, <2>5
<1>7. Good(N)
  BY <1>2, <1>6
<1>8. ToLift(m, N) = {}
  BY <1>2 DEF ToLift
<1> QED
  BY <1>1, <1>7, <1>8

\* As long as the macros are balanced and nothing was dropped, what is down is let go
\* by what is queued.
UpInv ==
    /\ Belt \in BeltType
    /\ (\A i \in DOMAIN played : Balanced(played[i])) => ComesUp(Belt, {})

LEMMA EmptyBelt ==
  ASSUME NEW st, st = [queue |-> <<>>, down |-> {}, delayed |-> FALSE, dropped |-> FALSE]
  PROVE  st \in BeltType /\ ComesUp(st, {})
<1>1. st.queue = <<>> /\ st.down = {}
  OBVIOUS
<1>2. <<>> \in Seq(Item) /\ Len(<<>>) = 0
  OBVIOUS
<1>3. st \in BeltType
  BY <1>2 DEF BeltType
<1> QED
  BY <1>1, <1>2, <1>3 DEF ComesUp

LEMMA InitUpInv == Init => UpInv
<1>1. Init => Belt = [queue |-> <<>>, down |-> {}, delayed |-> FALSE, dropped |-> FALSE]
  BY DEF Init, Belt
<1> QED
  BY <1>1, EmptyBelt DEF UpInv

\* A key press that has the mutex.
LEMMA PlayKeepsUp ==
  ASSUME MutexInv, UpInv, NEW s \in Slot, ~locked, Play(s)
  PROVE  UpInv'
<1> DEFINE m == cache[s]
           st == AddSteps(Belt, m)
<1>1. m \in Stored \cup {<<>>} /\ played \in Seq(Stored \cup {<<>>})
  BY DEF MutexInv, Guarded, PlayedWhole
<1>2. m \in Seq(Step)
  BY <1>1, StoredSteps
<1>3. st \in BeltType /\ (Balanced(m) /\ ComesUp(Belt, {}) => ComesUp(st, {}))
  BY <1>2, AddStepsKeep DEF UpInv
<1>4. /\ queue' = st.queue /\ down' = st.down /\ delayed' = st.delayed /\ dropped' = st.dropped
      /\ played' = Append(played, m)
  BY DEF Play
<1> HIDE DEF st, m
<1>5. Belt' = st
  BY <1>3, <1>4 DEF Belt, BeltType
<1>6. /\ DOMAIN played' = DOMAIN played \cup {Len(played) + 1}
      /\ played'[Len(played) + 1] = m
      /\ \A i \in DOMAIN played : played'[i] = played[i]
  BY <1>1, <1>4
<1>7. (\A i \in DOMAIN played' : Balanced(played'[i])) =>
         Balanced(m) /\ \A i \in DOMAIN played : Balanced(played[i])
  BY <1>6
<1> QED
  BY <1>3, <1>5, <1>7 DEF UpInv

LEMMA StepUpInv == MutexInv /\ UpInv /\ [Next]_vars => UpInv'
<1> SUFFICES ASSUME MutexInv, UpInv, [Next]_vars
             PROVE  UpInv'
  OBVIOUS
<1>1. ASSUME UNCHANGED <<queue, delayed, down, played, dropped>>
      PROVE  UpInv'
  <2>1. Belt' = Belt /\ played' = played
    BY <1>1 DEF Belt
  <2> QED
    BY <2>1 DEF UpInv
<1>2. ASSUME NEW s \in Slot, KeyPress(s)
      PROVE  UpInv'
  BY <1>1, <1>2, PlayKeepsUp DEF KeyPress
<1>3. CASE MutexGranted
  <2>1. waiting \in Slot /\ ~locked /\ Play(waiting)
    BY <1>3 DEF MutexGranted, MutexInv, Types
  <2> QED
    BY <2>1, PlayKeepsUp
<1>4. CASE QueueWork
  <2> DEFINE st == Process(Belt)
  <2>1. st \in BeltType /\ st.dropped = dropped /\ (ComesUp(Belt, {}) => ComesUp(st, {}))
    <3>1. Belt.dropped = dropped
      BY DEF Belt
    <3>2. st.dropped = Belt.dropped
      BY DEF UpInv, BeltType, Process
    <3> QED
      BY <3>1, <3>2, ProcessKeeps DEF UpInv
  <2>2. /\ queue' = st.queue /\ down' = st.down /\ delayed' = st.delayed
        /\ dropped' = dropped /\ played' = played
    BY <1>4 DEF QueueWork
  <2> HIDE DEF st
  <2>3. Belt' = st
    BY <2>1, <2>2 DEF Belt, BeltType
  <2> QED
    BY <2>1, <2>2, <2>3 DEF UpInv
<1>5. CASE PowerCut
  <2>1. Belt' = [queue |-> <<>>, down |-> {}, delayed |-> FALSE, dropped |-> FALSE]
    BY <1>5 DEF PowerCut, Belt
  <2>2. Belt' \in BeltType /\ ComesUp(Belt', {})
    BY <2>1, EmptyBelt
  <2> QED
    BY <2>2 DEF UpInv
<1> QED
  BY <1>1, <1>2, <1>3, <1>4, <1>5
  DEF Next, RpcStep, SetMacro, Lock, CopyStep, CopyDone, Save, ClearSlot, ClearAll, SettingsSet,
      LoadDone, keys, vars

\* Balanced macros, of any length and any number of them queued behind each other, leave no
\* key down once the queue has carried them out, unless it was full.
THEOREM NoKeyStaysDown == Spec => []KeysComeUp
<1>1. UpInv => KeysComeUp
  BY DEF UpInv, KeysComeUp, ComesUp, Lifts, Belt
<1> QED
  BY <1>1, InitMutexInv, StepMutexInv, InitUpInv, StepUpInv, PTL DEF Spec
===============================================================================
