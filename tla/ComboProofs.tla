----------------------------- MODULE ComboProofs -----------------------------
(***************************************************************************)
(* Proofs about the combo engine, for any keyboard, any combos, any edits  *)
(* and any order of keys: no key press is lost, doubled or made up, a      *)
(* combo takes its own keys, its behavior is down while they say so, and   *)
(* no key passes another that was pressed before it.                       *)
(***************************************************************************)
EXTENDS Combo, SequenceTheorems, FiniteSetTheorems, WellFoundedInduction, TLAPS

-----------------------------------------------------------------------------
(* The inductive invariant.  In the middle of a call a key may also be in   *)
(* an event the agenda is about to raise, or its release may be under way.  *)

\* A call that brings the press of a key, a call that brings its release.
Raises(c) == c.do \in {"down", "bubble"}
LetsGo(c) == c.do \in {"up", "upRest", "cleanup", "cleanupRest"} /\ c.pos # NoKey

Raised(s) == {s[i].pos : i \in {j \in DOMAIN s : Raises(s[j])}}
LetGo(s) == {s[i].pos : i \in {j \in DOMAIN s : LetsGo(s[j])}}

Press == [pos : Position, at : Nat]
Call ==
    [do : {"down", "bubble"}, pos : Position, at : Nat]
        \cup [do : {"up"}, pos : Position]
        \cup [do : {"upRest"}, pos : Position, released : Nat]
        \cup [do : {"cleanup", "cleanupRest"}, pos : Position \cup {NoKey}]
        \cup [do : {"update"}]

Types ==
    /\ build \in Builds
    /\ pressed \in Seq(Press)
    /\ candidates \subseteq Combo
    /\ fully \in Combo \cup {None}
    /\ active \in Seq([combo : Combo, keys : Seq(Position)])
    /\ agenda \in Seq(Call)
    /\ now \in Nat
    /\ held \in Seq(Position)
    /\ passed \subseteq Position

PressedOnce(s) == \A i, j \in DOMAIN s : s[i].pos = s[j].pos => i = j
RaisedOnce(s) == \A i, j \in DOMAIN s : Raises(s[i]) /\ Raises(s[j]) /\ s[i].pos = s[j].pos => i = j
HeldOnce == \A i, j \in DOMAIN held : held[i] = held[j] => i = j

OnePlace ==
    /\ ToSet(held) \cup LetGo(agenda) = passed \cup Captured \cup InCombos \cup Raised(agenda)
    /\ ToSet(held) \cap LetGo(agenda) = {}
    /\ passed \cap (Captured \cup InCombos \cup Raised(agenda)) = {}
    /\ Captured \cap (InCombos \cup Raised(agenda)) = {}
    /\ InCombos \cap Raised(agenda) = {}
    /\ PressedOnce(pressed)
    /\ RaisedOnce(agenda)
    /\ CombosShareNoKey
    /\ HeldOnce

\* A release waits for the presses before it: it is the last call of the agenda.
UpLast(s) == \A i \in DOMAIN s : LetsGo(s[i]) => i = Len(s)

\* A release that is not raised again finds no press on its way.
UpAlone ==
    \A i \in DOMAIN agenda : agenda[i].do = "upRest" /\ agenda[i].released <= 1 =>
        i = 1 /\ pressed = <<>>

KeyInv == Types /\ OnePlace /\ UpLast(agenda) /\ UpAlone

-----------------------------------------------------------------------------
(* The operators of the model. *)

Positions(keys) == {keys[j].pos : j \in DOMAIN keys}
Distinct(s) == \A i, j \in DOMAIN s : s[i] = s[j] => i = j

\* A set of natural numbers has a least one.
LEMMA MinIs ==
  ASSUME NEW T \in SUBSET Nat, T # {}
  PROVE  Min(T) \in T /\ \A y \in T : Min(T) <= y
<1> DEFINE R == {ss \in Nat \X Nat : ss[1] < ss[2]}
<1>1. IsWellFoundedOn(R, Nat)
  BY NatLessThanWellFounded DEF OpToRel
<1>2. PICK x \in T : \A y \in T : <<y, x>> \notin R
  <2> HIDE DEF R
  <2> QED
    BY <1>1, WFMin
<1>3. \A y, z \in Nat : y < z => <<y, z>> \in R
  OBVIOUS
<1>4. \A y \in T : x <= y
  <2> SUFFICES ASSUME NEW y \in T, ~(x <= y) PROVE FALSE
    OBVIOUS
  <2>1. x \in Nat /\ y \in Nat /\ y < x
    OBVIOUS
  <2> HIDE DEF R
  <2> QED
    BY <1>2, <1>3, <2>1
<1> QED
  BY <1>4 DEF Min

\* What Without returns, for a key that is there once.
LEMMA WithoutIs ==
  ASSUME NEW S, NEW s \in Seq(S), NEW p \in ToSet(s), Distinct(s)
  PROVE  /\ Without(s, p) \in Seq(S)
         /\ ToSet(Without(s, p)) = ToSet(s) \ {p}
         /\ Distinct(Without(s, p))
         /\ Len(Without(s, p)) = Len(s) - 1
         /\ \A i, j \in DOMAIN Without(s, p) : i < j =>
                \E a, b \in DOMAIN s : a < b /\ s[a] = Without(s, p)[i] /\ s[b] = Without(s, p)[j]
<1>1. PICK k \in 1 .. Len(s) : s[k] = p
  BY DEF ToSet
<1>2. {j \in DOMAIN s : s[j] = p} = {k}
  BY <1>1 DEF Distinct
<1>3. Min({k}) = k
  BY <1>1 DEF Min
<1> DEFINE t == Without(s, p)
<1>4. t = SubSeq(s, 1, k - 1) \o SubSeq(s, k + 1, Len(s))
  BY <1>2, <1>3 DEF Without, RemoveAt
<1>5. /\ t \in Seq(S) /\ Len(t) = Len(s) - 1
      /\ \A i \in 1 .. Len(t) : t[i] = s[IF i < k THEN i ELSE i + 1]
  <2> DEFINE a == SubSeq(s, 1, k - 1)
             b == SubSeq(s, k + 1, Len(s))
  <2>1. a \in Seq(S) /\ Len(a) = k - 1 /\ \A i \in 1 .. k - 1 : a[i] = s[i]
    BY <1>1
  <2>2. b \in Seq(S) /\ Len(b) = Len(s) - k /\ \A i \in 1 .. Len(s) - k : b[i] = s[k + i]
    BY <1>1
  <2>3. t = a \o b
    BY <1>4
  <2> HIDE DEF a, b, t
  <2>4. t \in Seq(S) /\ Len(t) = Len(s) - 1
    BY <1>1, <2>1, <2>2, <2>3
  <2>5. ASSUME NEW i \in 1 .. Len(t) PROVE t[i] = s[IF i < k THEN i ELSE i + 1]
    <3>1. t[i] = IF i <= Len(a) THEN a[i] ELSE b[i - Len(a)]
      BY <2>1, <2>2, <2>3, <2>4
    <3>2. CASE i < k
      BY <1>1, <2>1, <2>4, <3>1, <3>2
    <3>3. CASE ~(i < k)
      <4>1. i - (k - 1) \in 1 .. Len(s) - k /\ k + (i - (k - 1)) = i + 1
        BY <1>1, <2>4, <3>3
      <4> QED
        BY <1>1, <2>1, <2>2, <2>4, <3>1, <3>3, <4>1
    <3> QED
      BY <3>2, <3>3
  <2> QED
    BY <2>4, <2>5
<1> HIDE DEF t
<1>6. ToSet(t) \subseteq ToSet(s) \ {p}
  <2> SUFFICES ASSUME NEW i \in 1 .. Len(t) PROVE t[i] \in ToSet(s) \ {p}
    BY <1>5 DEF ToSet
  <2>1. PICK m \in 1 .. Len(s) : t[i] = s[m] /\ m # k
    BY <1>1, <1>5
  <2> QED
    BY <1>1, <2>1 DEF ToSet, Distinct
<1>7. ToSet(s) \ {p} \subseteq ToSet(t)
  <2> SUFFICES ASSUME NEW m \in 1 .. Len(s), m # k PROVE s[m] \in ToSet(t)
    BY <1>1 DEF ToSet
  <2>1. PICK i \in 1 .. Len(t) : m = IF i < k THEN i ELSE i + 1
    <3>1. CASE m < k
      BY <1>1, <1>5, <3>1
    <3>2. CASE m > k
      <4>1. m - 1 \in 1 .. Len(t) /\ m = IF m - 1 < k THEN m - 1 ELSE (m - 1) + 1
        BY <1>1, <1>5, <3>2
      <4> QED
        BY <4>1
    <3> QED
      BY <1>1, <3>1, <3>2
  <2> QED
    BY <1>5, <2>1 DEF ToSet
<1>8. Distinct(t)
  <2> SUFFICES ASSUME NEW i \in 1 .. Len(t), NEW j \in 1 .. Len(t), t[i] = t[j] PROVE i = j
    BY <1>5 DEF Distinct
  <2> DEFINE m == IF i < k THEN i ELSE i + 1
             n == IF j < k THEN j ELSE j + 1
  <2>1. m \in 1 .. Len(s) /\ n \in 1 .. Len(s)
    BY <1>1, <1>5
  <2>2. t[i] = s[m] /\ t[j] = s[n]
    BY <1>5
  <2> HIDE DEF m, n
  <2>0. \A x, y \in 1 .. Len(s) : s[x] = s[y] => x = y
    BY DEF Distinct
  <2>3. m = n
    BY <2>0, <2>1, <2>2
  <2> QED
    BY <1>1, <2>3 DEF m, n
<1>9. ASSUME NEW i \in 1 .. Len(t), NEW j \in 1 .. Len(t), i < j
      PROVE  \E a, b \in DOMAIN s : a < b /\ s[a] = t[i] /\ s[b] = t[j]
  <2> DEFINE a == IF i < k THEN i ELSE i + 1
             b == IF j < k THEN j ELSE j + 1
  <2>1. a \in 1 .. Len(s) /\ b \in 1 .. Len(s) /\ a < b
    BY <1>1, <1>5, <1>9
  <2>2. t[i] = s[a] /\ t[j] = s[b]
    BY <1>5
  <2> HIDE DEF a, b
  <2> QED
    BY <2>1, <2>2
<1>10. \A i, j \in DOMAIN t : i < j => \E a, b \in DOMAIN s : a < b /\ s[a] = t[i] /\ s[b] = t[j]
  <2>1. DOMAIN t = 1 .. Len(t)
    BY <1>5
  <2> QED
    BY <1>9, <2>1
<1>11. ToSet(t) = ToSet(s) \ {p}
  BY <1>6, <1>7
<1> QED
  BY <1>5, <1>8, <1>10, <1>11 DEF t

\* The calls the actions push are calls, and what calls are.
LEMMA CallsAre ==
  /\ \A p \in Position, t \in Nat : Down(p, t) \in Call /\ Bubble(p, t) \in Call /\ Up(p) \in Call
  /\ \A p \in Position, n \in Nat : UpRest(p, n) \in Call
  /\ \A p \in Position \cup {NoKey} : Cleanup(p) \in Call /\ CleanupRest(p) \in Call
  /\ Update \in Call
  BY DEF Down, Bubble, Up, UpRest, Cleanup, CleanupRest, Update, Call

LEMMA CallParts ==
  ASSUME build \in Builds, NEW c \in Call
  PROVE  /\ c.do \in {"down", "bubble", "up", "upRest", "cleanup", "cleanupRest", "update"}
         /\ Raises(c) => c.pos \in Position /\ c.at \in Nat
         /\ LetsGo(c) => c.pos \in Position
         /\ c.do \in {"up", "upRest"} => c.pos \in Position /\ LetsGo(c)
         /\ c.do = "upRest" => c.released \in Nat
         /\ c.do \in {"cleanup", "cleanupRest"} => c.pos \in Position \cup {NoKey}
<1>1. NoKey \notin Position
  BY ComboAssumption DEF ComboAssumption, Position
<1> QED
  BY <1>1 DEF Call, Raises, LetsGo

\* The parts of a list of calls.
LEMMA OneCall ==
  ASSUME NEW c
  PROVE  /\ Raised(<<c>>) = IF Raises(c) THEN {c.pos} ELSE {}
         /\ LetGo(<<c>>) = IF LetsGo(c) THEN {c.pos} ELSE {}
         /\ RaisedOnce(<<c>>) /\ UpLast(<<c>>)
  BY DEF Raised, LetGo, RaisedOnce, UpLast

LEMMA NoCall == /\ Raised(<<>>) = {} /\ LetGo(<<>>) = {}
                /\ RaisedOnce(<<>>) /\ UpLast(<<>>)
  BY DEF Raised, LetGo, RaisedOnce, UpLast

LEMMA Joined ==
  ASSUME NEW s \in Seq(Call), NEW t \in Seq(Call)
  PROVE  /\ s \o t \in Seq(Call)
         /\ Raised(s \o t) = Raised(s) \cup Raised(t)
         /\ LetGo(s \o t) = LetGo(s) \cup LetGo(t)
         /\ RaisedOnce(s) /\ RaisedOnce(t) /\ Raised(s) \cap Raised(t) = {} => RaisedOnce(s \o t)
         /\ LetGo(s) = {} /\ UpLast(t) => UpLast(s \o t)
<1> DEFINE u == s \o t
<1>1. u \in Seq(Call) /\ Len(u) = Len(s) + Len(t)
  OBVIOUS
<1>2. \A i \in 1 .. Len(s) : u[i] = s[i]
  OBVIOUS
<1>3. \A i \in 1 .. Len(t) : u[Len(s) + i] = t[i]
  OBVIOUS
<1> HIDE DEF u
<1>4. ASSUME NEW i \in 1 .. Len(u)
      PROVE  \/ i \in 1 .. Len(s) /\ u[i] = s[i]
             \/ i - Len(s) \in 1 .. Len(t) /\ u[i] = t[i - Len(s)]
  <2>1. CASE i <= Len(s)
    BY <1>2, <2>1
  <2>2. CASE i > Len(s)
    <3>1. i - Len(s) \in 1 .. Len(t) /\ Len(s) + (i - Len(s)) = i
      BY <1>1, <2>2
    <3> QED
      BY <1>3, <3>1
  <2> QED
    BY <2>1, <2>2
<1>5. \A i \in 1 .. Len(s) : i \in 1 .. Len(u)
  BY <1>1
<1>6. \A i \in 1 .. Len(t) : Len(s) + i \in 1 .. Len(u)
  BY <1>1
<1>7. Raised(u) = Raised(s) \cup Raised(t)
  <2>1. Raised(u) \subseteq Raised(s) \cup Raised(t)
    BY <1>1, <1>4 DEF Raised
  <2>2. Raised(s) \subseteq Raised(u)
    BY <1>1, <1>2, <1>5 DEF Raised
  <2>3. Raised(t) \subseteq Raised(u)
    <3> SUFFICES ASSUME NEW i \in 1 .. Len(t), Raises(t[i]) PROVE t[i].pos \in Raised(u)
      BY DEF Raised
    <3>1. Len(s) + i \in DOMAIN u /\ u[Len(s) + i] = t[i]
      BY <1>1, <1>3, <1>6
    <3> QED
      BY <3>1 DEF Raised
  <2> QED
    BY <2>1, <2>2, <2>3
<1>8. LetGo(u) = LetGo(s) \cup LetGo(t)
  <2>1. LetGo(u) \subseteq LetGo(s) \cup LetGo(t)
    BY <1>1, <1>4 DEF LetGo
  <2>2. LetGo(s) \subseteq LetGo(u)
    BY <1>1, <1>2, <1>5 DEF LetGo
  <2>3. LetGo(t) \subseteq LetGo(u)
    <3> SUFFICES ASSUME NEW i \in 1 .. Len(t), LetsGo(t[i]) PROVE t[i].pos \in LetGo(u)
      BY DEF LetGo
    <3>1. Len(s) + i \in DOMAIN u /\ u[Len(s) + i] = t[i]
      BY <1>1, <1>3, <1>6
    <3> QED
      BY <3>1 DEF LetGo
  <2> QED
    BY <2>1, <2>2, <2>3
<1>9. ASSUME RaisedOnce(s), RaisedOnce(t), Raised(s) \cap Raised(t) = {}
      PROVE  RaisedOnce(u)
  <2> SUFFICES ASSUME NEW i \in 1 .. Len(u), NEW j \in 1 .. Len(u),
                      Raises(u[i]), Raises(u[j]), u[i].pos = u[j].pos
               PROVE  i = j
    BY <1>1 DEF RaisedOnce
  <2>1. CASE i \in 1 .. Len(s) /\ u[i] = s[i] /\ j \in 1 .. Len(s) /\ u[j] = s[j]
    BY <1>9, <2>1 DEF RaisedOnce
  <2>2. CASE /\ i - Len(s) \in 1 .. Len(t) /\ u[i] = t[i - Len(s)]
             /\ j - Len(s) \in 1 .. Len(t) /\ u[j] = t[j - Len(s)]
    <3>1. i - Len(s) = j - Len(s)
      BY <1>9, <2>2 DEF RaisedOnce
    <3> QED
      BY <3>1
  <2>3. CASE i \in 1 .. Len(s) /\ u[i] = s[i] /\ j - Len(s) \in 1 .. Len(t) /\ u[j] = t[j - Len(s)]
    <3>1. u[i].pos \in Raised(s) /\ u[j].pos \in Raised(t)
      BY <2>3 DEF Raised
    <3> QED
      BY <1>9, <3>1
  <2>4. CASE j \in 1 .. Len(s) /\ u[j] = s[j] /\ i - Len(s) \in 1 .. Len(t) /\ u[i] = t[i - Len(s)]
    <3>1. u[j].pos \in Raised(s) /\ u[i].pos \in Raised(t)
      BY <2>4 DEF Raised
    <3> QED
      BY <1>9, <3>1
  <2> QED
    BY <1>4, <2>1, <2>2, <2>3, <2>4
<1>10. ASSUME LetGo(s) = {}, UpLast(t), NEW i \in 1 .. Len(u), LetsGo(u[i])
       PROVE  i = Len(u)
  <2>1. ASSUME i \in 1 .. Len(s), u[i] = s[i] PROVE FALSE
    <3>1. s[i].pos \in LetGo(s)
      BY <1>10, <2>1 DEF LetGo
    <3> QED
      BY <1>10, <3>1
  <2>2. i - Len(s) \in 1 .. Len(t) /\ u[i] = t[i - Len(s)]
    BY <1>4, <2>1
  <2>3. i - Len(s) = Len(t)
    BY <1>10, <2>2 DEF UpLast
  <2> QED
    BY <1>1, <2>3
<1>11. LetGo(s) = {} /\ UpLast(t) => UpLast(u)
  BY <1>1, <1>10 DEF UpLast
<1> QED
  BY <1>1, <1>7, <1>8, <1>9, <1>11 DEF u

\* The head of a list of calls, and its tail.
LEMMA Behead ==
  ASSUME NEW s \in Seq(Call), s # <<>>, RaisedOnce(s), UpLast(s)
  PROVE  /\ Head(s) \in Call /\ Tail(s) \in Seq(Call)
         /\ Raised(s) = Raised(<<Head(s)>>) \cup Raised(Tail(s))
         /\ Raised(<<Head(s)>>) \cap Raised(Tail(s)) = {}
         /\ LetGo(s) = LetGo(<<Head(s)>>) \cup LetGo(Tail(s))
         /\ RaisedOnce(Tail(s)) /\ UpLast(Tail(s))
         /\ LetsGo(Head(s)) => Tail(s) = <<>>
<1> DEFINE h == Head(s)
           t == Tail(s)
<1>1. /\ h \in Call /\ t \in Seq(Call) /\ h = s[1]
      /\ Len(s) \in Nat /\ Len(t) = Len(s) - 1 /\ Len(t) \in Nat
      /\ \A i \in 1 .. Len(t) : t[i] = s[i + 1]
      /\ 1 \in 1 .. Len(s) /\ \A i \in 1 .. Len(t) : i + 1 \in 1 .. Len(s) /\ i + 1 # 1
      /\ DOMAIN s = 1 .. Len(s) /\ DOMAIN t = 1 .. Len(t)
  OBVIOUS
<1> HIDE DEF h, t
<1>2. ASSUME NEW i \in 1 .. Len(s)
      PROVE  s[i] = h \/ (i - 1 \in 1 .. Len(t) /\ s[i] = t[i - 1])
  <2>1. CASE i = 1
    BY <1>1, <2>1
  <2>2. CASE i # 1
    <3>1. i - 1 \in 1 .. Len(t) /\ (i - 1) + 1 = i
      BY <1>1, <2>2
    <3> QED
      BY <1>1, <3>1
  <2> QED
    BY <2>1, <2>2
<1>3. Raised(s) = Raised(<<h>>) \cup Raised(t)
  <2>1. Raised(s) \subseteq (IF Raises(h) THEN {h.pos} ELSE {}) \cup Raised(t)
    BY <1>1, <1>2 DEF Raised
  <2>2. (IF Raises(h) THEN {h.pos} ELSE {}) \subseteq Raised(s)
    BY <1>1 DEF Raised
  <2>3. Raised(t) \subseteq Raised(s)
    BY <1>1 DEF Raised
  <2> QED
    BY <2>1, <2>2, <2>3, OneCall
<1>4. LetGo(s) = LetGo(<<h>>) \cup LetGo(t)
  <2>1. LetGo(s) \subseteq (IF LetsGo(h) THEN {h.pos} ELSE {}) \cup LetGo(t)
    BY <1>1, <1>2 DEF LetGo
  <2>2. (IF LetsGo(h) THEN {h.pos} ELSE {}) \subseteq LetGo(s)
    BY <1>1 DEF LetGo
  <2>3. LetGo(t) \subseteq LetGo(s)
    BY <1>1 DEF LetGo
  <2> QED
    BY <2>1, <2>2, <2>3, OneCall
<1>5. Raised(<<h>>) \cap Raised(t) = {}
  <2> SUFFICES ASSUME Raises(h), NEW i \in 1 .. Len(t), Raises(t[i]), t[i].pos = h.pos
               PROVE  FALSE
    BY <1>1, OneCall DEF Raised
  <2>1. s[i + 1] = t[i] /\ i + 1 \in DOMAIN s /\ 1 \in DOMAIN s /\ s[1] = h /\ i + 1 # 1
    BY <1>1
  <2> QED
    BY <2>1 DEF RaisedOnce
<1>6. RaisedOnce(t)
  <2> SUFFICES ASSUME NEW i \in 1 .. Len(t), NEW j \in 1 .. Len(t),
                      Raises(t[i]), Raises(t[j]), t[i].pos = t[j].pos
               PROVE  i = j
    BY <1>1 DEF RaisedOnce
  <2>1. i + 1 = j + 1
    BY <1>1 DEF RaisedOnce
  <2> QED
    BY <2>1
<1>7. UpLast(t)
  <2> SUFFICES ASSUME NEW i \in 1 .. Len(t), LetsGo(t[i])
               PROVE  i = Len(t)
    BY <1>1 DEF UpLast
  <2>1. i + 1 = Len(s)
    BY <1>1 DEF UpLast
  <2> QED
    BY <1>1, <2>1
<1>8. LetsGo(h) => t = <<>>
  BY <1>1 DEF UpLast
<1> QED
  BY <1>1, <1>3, <1>4, <1>5, <1>6, <1>7, <1>8 DEF h, t

\* The calls release_pressed_keys makes raise all its keys but the first.
LEMMA RaisedAgain ==
  ASSUME build \in Builds, NEW keys \in Seq(Press), PressedOnce(keys),
         NEW downs, downs = [i \in 1 .. Len(keys) - 1 |-> Down(keys[i + 1].pos, keys[i + 1].at)]
  PROVE  /\ downs \in Seq(Call)
         /\ Raised(downs) = IF keys = <<>> THEN {} ELSE Positions(keys) \ {keys[1].pos}
         /\ LetGo(downs) = {} /\ RaisedOnce(downs)
         /\ Len(keys) <= 1 => downs = <<>>
         /\ \A i \in DOMAIN downs : downs[i].do = "down"
<1>1. /\ Len(keys) \in Nat /\ DOMAIN keys = 1 .. Len(keys)
      /\ \A i \in 1 .. Len(keys) : keys[i].pos \in Position /\ keys[i].at \in Nat
  <2>1. \A i \in 1 .. Len(keys) : keys[i] \in Press
    OBVIOUS
  <2> QED
    BY <2>1 DEF Press
<1>2. \A i \in 1 .. Len(keys) - 1 : i + 1 \in 1 .. Len(keys) /\ i + 1 # 1
  BY <1>1
<1>3. /\ DOMAIN downs = 1 .. Len(keys) - 1
      /\ \A i \in 1 .. Len(keys) - 1 : downs[i] = Down(keys[i + 1].pos, keys[i + 1].at)
  OBVIOUS
<1>4. \A i \in 1 .. Len(keys) - 1 : downs[i] \in Call
  BY <1>1, <1>2, <1>3, CallsAre
<1>5. CASE keys = <<>>
  <2>1. downs = <<>>
    BY <1>5
  <2> QED
    BY <1>5, <2>1, NoCall
<1>6. CASE keys # <<>>
  <2>1. Len(keys) - 1 \in Nat
    BY <1>1, <1>6
  <2>2. downs \in Seq(Call)
    BY <1>4, <2>1
  <2>3. \A i \in 1 .. Len(keys) - 1 :
            Raises(downs[i]) /\ ~LetsGo(downs[i]) /\ downs[i].pos = keys[i + 1].pos /\ downs[i].do = "down"
    BY <1>3 DEF Down, Raises, LetsGo
  <2>4. Raised(downs) = Positions(keys) \ {keys[1].pos}
    <3>1. Raised(downs) = {keys[i + 1].pos : i \in 1 .. Len(keys) - 1}
      <4>1. {j \in DOMAIN downs : Raises(downs[j])} = 1 .. Len(keys) - 1
        BY <1>3, <2>3
      <4>2. Raised(downs) = {downs[i].pos : i \in 1 .. Len(keys) - 1}
        BY <4>1 DEF Raised
      <4>3. \A i \in 1 .. Len(keys) - 1 : downs[i].pos = keys[i + 1].pos
        BY <2>3
      <4>4. {downs[i].pos : i \in 1 .. Len(keys) - 1} = {keys[i + 1].pos : i \in 1 .. Len(keys) - 1}
        BY <4>3
      <4> QED
        BY <4>2, <4>4
    <3>2. \A i \in 1 .. Len(keys) - 1 : keys[i + 1].pos \in Positions(keys) \ {keys[1].pos}
      BY <1>1, <1>2 DEF Positions, PressedOnce
    <3>3. ASSUME NEW k \in 1 .. Len(keys), keys[k].pos # keys[1].pos
          PROVE  keys[k].pos \in {keys[i + 1].pos : i \in 1 .. Len(keys) - 1}
      <4>1. k - 1 \in 1 .. Len(keys) - 1 /\ (k - 1) + 1 = k
        BY <1>1, <3>3
      <4> QED
        BY <4>1
    <3> QED
      BY <1>1, <3>1, <3>2, <3>3 DEF Positions
  <2>5. LetGo(downs) = {}
    BY <1>3, <2>3 DEF LetGo
  <2>6. RaisedOnce(downs)
    <3> SUFFICES ASSUME NEW i \in 1 .. Len(keys) - 1, NEW j \in 1 .. Len(keys) - 1,
                        downs[i].pos = downs[j].pos
                 PROVE  i = j
      BY <1>3 DEF RaisedOnce
    <3>1. keys[i + 1].pos = keys[j + 1].pos
      BY <2>3
    <3>2. \A x, y \in 1 .. Len(keys) : keys[x].pos = keys[y].pos => x = y
      BY <1>1 DEF PressedOnce
    <3>3. i + 1 = j + 1
      BY <1>2, <3>1, <3>2
    <3> QED
      BY <3>3
  <2>7. Len(keys) <= 1 => downs = <<>>
    BY <1>3, <2>1, <2>2
  <2> QED
    BY <1>3, <1>6, <2>2, <2>3, <2>4, <2>5, <2>6, <2>7
<1> QED
  BY <1>5, <1>6

\* Keys that are released are passed on or about to be raised again, once each.
LEMMA KeysReleased ==
  ASSUME build \in Builds, passed \subseteq Position,
         NEW keys \in Seq(Press), PressedOnce(keys),
         NEW rest \in Seq(Call), RaisedOnce(rest), UpLast(rest),
         Positions(keys) \cap Raised(rest) = {},
         passed \cap (Positions(keys) \cup Raised(rest)) = {},
         ReleasePressed(keys, rest)
  PROVE  /\ pressed' = <<>> /\ agenda' \in Seq(Call) /\ passed' \subseteq Position
         /\ passed' \cup Raised(agenda') = passed \cup Positions(keys) \cup Raised(rest)
         /\ passed' \cap Raised(agenda') = {}
         /\ LetGo(agenda') = LetGo(rest)
         /\ RaisedOnce(agenda') /\ UpLast(agenda')
         /\ \A i \in DOMAIN agenda' : agenda'[i].do = "upRest" =>
                \E j \in DOMAIN rest : rest[j] = agenda'[i] /\ (Len(keys) <= 1 => i = j)
<1> DEFINE downs == [i \in 1 .. Len(keys) - 1 |-> Down(keys[i + 1].pos, keys[i + 1].at)]
           lead == IF keys = <<>> THEN {} ELSE {keys[1].pos}
<1>1. pressed' = <<>> /\ agenda' = downs \o rest
  BY DEF ReleasePressed
<1>2. passed' = passed \cup lead
  BY DEF ReleasePressed, Pass
<1>3. lead \subseteq Position /\ lead \subseteq Positions(keys)
  <2>1. CASE keys = <<>>
    BY <2>1
  <2>2. CASE keys # <<>>
    <3>1. 1 \in DOMAIN keys /\ keys[1] \in Press
      BY <2>2
    <3>2. lead = {keys[1].pos}
      BY <2>2
    <3> QED
      BY <3>1, <3>2 DEF Positions, Press
  <2> QED
    BY <2>1, <2>2
<1>4. /\ downs \in Seq(Call)
      /\ Raised(downs) = IF keys = <<>> THEN {} ELSE Positions(keys) \ {keys[1].pos}
      /\ LetGo(downs) = {} /\ RaisedOnce(downs)
      /\ Len(keys) <= 1 => downs = <<>>
      /\ \A i \in DOMAIN downs : downs[i].do = "down"
  BY RaisedAgain
<1>5. Positions(<<>>) = {}
  BY DEF Positions
<1>6. Raised(downs) = Positions(keys) \ lead
  BY <1>4, <1>5
<1> HIDE DEF downs, lead
<1>7. /\ agenda' \in Seq(Call)
      /\ Raised(agenda') = Raised(downs) \cup Raised(rest)
      /\ LetGo(agenda') = LetGo(downs) \cup LetGo(rest)
  BY <1>1, <1>4, Joined
<1>8. RaisedOnce(agenda') /\ UpLast(agenda')
  BY <1>1, <1>4, <1>6, Joined
<1>9. ASSUME NEW i \in DOMAIN agenda', agenda'[i].do = "upRest"
      PROVE  \E j \in DOMAIN rest : rest[j] = agenda'[i] /\ (Len(keys) <= 1 => i = j)
  <2>1. i \in 1 .. Len(downs) + Len(rest)
    BY <1>1, <1>4, <1>9
  <2>2. i \notin 1 .. Len(downs)
    BY <1>1, <1>4, <1>9
  <2>3. i - Len(downs) \in 1 .. Len(rest) /\ rest[i - Len(downs)] = agenda'[i]
    BY <1>1, <1>4, <2>1, <2>2
  <2>4. Len(keys) <= 1 => Len(downs) = 0
    BY <1>4
  <2>5. i \in Int
    BY <2>1, <1>4
  <2> QED
    BY <2>3, <2>4, <2>5
<1> QED
  BY <1>1, <1>2, <1>3, <1>4, <1>6, <1>7, <1>8, <1>9

-----------------------------------------------------------------------------
(* The inductive invariant holds. *)

\* The keyboard stays, and what depends on it.
LEMMA SameKeyboard ==
  ASSUME build' = build
  PROVE  Position' = Position /\ Press' = Press /\ Call' = Call
  BY DEF Position, Press, Call

\* A call but the innermost that waits for its cleanup's result is not alone.
LEMMA TailIsNotAlone ==
  ASSUME agenda \in Seq(Call), UpAlone, agenda # <<>>
  PROVE  \A j \in DOMAIN Tail(agenda) : Tail(agenda)[j].do = "upRest" => ~(Tail(agenda)[j].released <= 1)
<1> SUFFICES ASSUME NEW j \in DOMAIN Tail(agenda), Tail(agenda)[j].do = "upRest",
                    Tail(agenda)[j].released <= 1
             PROVE  FALSE
  OBVIOUS
<1>1. Tail(agenda)[j] = agenda[j + 1] /\ j + 1 \in DOMAIN agenda /\ j + 1 # 1
  OBVIOUS
<1> QED
  BY <1>1 DEF UpAlone

\* What a cleanup leaves on the agenda, be it called for a release or not.
LEMMA ThenIs ==
  ASSUME KeyInv, agenda # <<>>, Head(agenda).do \in {"cleanup", "cleanupRest"},
         NEW n \in Nat, NEW rest, rest = Then(Head(agenda).pos, n, Tail(agenda))
  PROVE  /\ rest \in Seq(Call) /\ RaisedOnce(rest) /\ UpLast(rest)
         /\ Raised(rest) = Raised(agenda) /\ LetGo(rest) = LetGo(agenda)
         /\ \A j \in DOMAIN rest : rest[j].do = "upRest" =>
                (j = 1 /\ rest[j].released = n) \/ ~(rest[j].released <= 1)
<1> DEFINE h == Head(agenda)
           t == Tail(agenda)
<1>1. /\ h \in Call /\ t \in Seq(Call)
      /\ Raised(agenda) = Raised(<<h>>) \cup Raised(t)
      /\ LetGo(agenda) = LetGo(<<h>>) \cup LetGo(t)
      /\ RaisedOnce(t) /\ UpLast(t)
      /\ LetsGo(h) => t = <<>>
  BY Behead DEF KeyInv, Types, OnePlace
<1>2. \A j \in DOMAIN t : t[j].do = "upRest" => ~(t[j].released <= 1)
  BY TailIsNotAlone DEF KeyInv, Types
<1>3. Raised(<<h>>) = {} /\ LetGo(<<h>>) = IF h.pos # NoKey THEN {h.pos} ELSE {}
  BY OneCall DEF Raises, LetsGo
<1>4. h.pos \in Position \cup {NoKey}
  BY <1>1, CallParts DEF KeyInv, Types
<1> HIDE DEF h, t
<1>5. CASE h.pos = NoKey
  <2>1. rest = t
    BY <1>5 DEF h, t, Then
  <2> QED
    BY <1>1, <1>2, <1>3, <1>5, <2>1
<1>6. CASE h.pos # NoKey
  <2>1. t = <<>> /\ LetsGo(h)
    BY <1>1, <1>6 DEF h, t, LetsGo
  <2>3. UpRest(h.pos, n) \in Call
    BY <1>4, <1>6, CallsAre
  <2>2. rest = <<UpRest(h.pos, n)>>
    <3>1. \A x \in Call : <<x>> \o <<>> = <<x>>
      OBVIOUS
    <3>2. rest = <<UpRest(h.pos, n)>> \o <<>>
      BY <1>6, <2>1 DEF h, t, Then
    <3> QED
      BY <2>3, <3>1, <3>2
  <2>4. /\ ~Raises(UpRest(h.pos, n)) /\ LetsGo(UpRest(h.pos, n)) /\ UpRest(h.pos, n).pos = h.pos
        /\ UpRest(h.pos, n).released = n
    BY <1>6 DEF UpRest, Raises, LetsGo
  <2>5. Raised(rest) = {} /\ LetGo(rest) = {h.pos} /\ RaisedOnce(rest) /\ UpLast(rest)
    BY <2>2, <2>4, OneCall
  <2>6. Raised(t) = {} /\ LetGo(t) = {}
    BY <2>1, NoCall
  <2>7. rest \in Seq(Call) /\ \A j \in DOMAIN rest : j = 1 /\ rest[j].released = n
    <3>1. \A x \in Call : <<x>> \in Seq(Call) /\ DOMAIN <<x>> = {1} /\ <<x>>[1] = x
      OBVIOUS
    <3> QED
      BY <2>2, <2>3, <2>4, <3>1
  <2>8. Raised(rest) = Raised(agenda) /\ LetGo(rest) = LetGo(agenda)
    BY <1>1, <1>3, <1>6, <2>5, <2>6
  <2> QED
    BY <2>5, <2>7, <2>8
<1> QED
  BY <1>5, <1>6

\* cleanup lets "keys" go; the other keys pressed, if any, went to a combo.
LEMMA CleanupStep ==
  ASSUME KeyInv, build' = build, now' = now, held' = held,
         candidates' \subseteq Combo, fully' \in Combo \cup {None},
         active' \in Seq([combo : Combo, keys : Seq(Position)]),
         NEW keys \in Seq(Press), PressedOnce(keys), Positions(keys) \subseteq Captured,
         InCombos' = InCombos \cup (Captured \ Positions(keys)), CombosShareNoKey',
         NEW rest \in Seq(Call), RaisedOnce(rest), UpLast(rest),
         Raised(rest) = Raised(agenda), LetGo(rest) = LetGo(agenda),
         \A j \in DOMAIN rest : rest[j].do = "upRest" =>
                (j = 1 /\ rest[j].released = Len(keys)) \/ ~(rest[j].released <= 1),
         ReleasePressed(keys, rest)
  PROVE  KeyInv'
<1>1. /\ Positions(keys) \cap Raised(rest) = {}
      /\ passed \cap (Positions(keys) \cup Raised(rest)) = {}
      /\ build \in Builds /\ passed \subseteq Position
  BY DEF KeyInv, OnePlace, Types
<1>2. /\ pressed' = <<>> /\ agenda' \in Seq(Call) /\ passed' \subseteq Position
      /\ passed' \cup Raised(agenda') = passed \cup Positions(keys) \cup Raised(rest)
      /\ passed' \cap Raised(agenda') = {}
      /\ LetGo(agenda') = LetGo(rest)
      /\ RaisedOnce(agenda') /\ UpLast(agenda')
      /\ \A i \in DOMAIN agenda' : agenda'[i].do = "upRest" =>
             \E j \in DOMAIN rest : rest[j] = agenda'[i] /\ (Len(keys) <= 1 => i = j)
  BY <1>1, KeysReleased
<1>3. Types'
  BY <1>2, SameKeyboard DEF KeyInv, Types
<1>4. Captured' = {} /\ PressedOnce(pressed')
  BY <1>2 DEF Captured, PressedOnce
<1>5. OnePlace'
  BY <1>2, <1>4 DEF KeyInv, OnePlace, HeldOnce
<1>6. UpAlone'
  <2> SUFFICES ASSUME NEW i \in DOMAIN agenda', agenda'[i].do = "upRest", agenda'[i].released <= 1
               PROVE  i = 1
    BY <1>2 DEF UpAlone
  <2>1. PICK j \in DOMAIN rest : rest[j] = agenda'[i] /\ (Len(keys) <= 1 => i = j)
    BY <1>2
  <2> QED
    BY <2>1
<1> QED
  BY <1>2, <1>3, <1>5, <1>6 DEF KeyInv

\* The key at the head of the agenda is passed on, captured or raised again:
\* what the steps that pop it have in common.
LEMMA HeadFacts ==
  ASSUME KeyInv, agenda # <<>>
  PROVE  /\ Head(agenda) \in Call /\ Tail(agenda) \in Seq(Call)
         /\ Raised(agenda) = Raised(<<Head(agenda)>>) \cup Raised(Tail(agenda))
         /\ Raised(<<Head(agenda)>>) \cap Raised(Tail(agenda)) = {}
         /\ LetGo(agenda) = LetGo(<<Head(agenda)>>) \cup LetGo(Tail(agenda))
         /\ RaisedOnce(Tail(agenda)) /\ UpLast(Tail(agenda))
         /\ LetsGo(Head(agenda)) => Tail(agenda) = <<>>
         /\ \A j \in DOMAIN Tail(agenda) :
                Tail(agenda)[j].do = "upRest" => ~(Tail(agenda)[j].released <= 1)
         /\ Raised(<<Head(agenda)>>) = IF Raises(Head(agenda)) THEN {Head(agenda).pos} ELSE {}
         /\ LetGo(<<Head(agenda)>>) = IF LetsGo(Head(agenda)) THEN {Head(agenda).pos} ELSE {}
  BY Behead, TailIsNotAlone, OneCall DEF KeyInv, Types, OnePlace

\* A press at the head of the agenda goes by.
LEMMA GoesBy ==
  ASSUME KeyInv, agenda # <<>>, Raises(Head(agenda)),
         Pass(Head(agenda).pos, Head(agenda).at), agenda' = Tail(agenda),
         UNCHANGED <<build, pressed, candidates, fully, active, now, held>>
  PROVE  KeyInv'
<1>1. Head(agenda).pos \in Position
  BY HeadFacts, CallParts DEF KeyInv, Types
<1>2. passed' = passed \cup {Head(agenda).pos}
  BY DEF Pass
<1>3. Types'
  BY <1>1, <1>2, HeadFacts, SameKeyboard DEF KeyInv, Types
<1>4. ~LetsGo(Head(agenda))
  BY DEF Raises, LetsGo
<1>5. Captured' = Captured /\ InCombos' = InCombos /\ (CombosShareNoKey <=> CombosShareNoKey')
  BY DEF Captured, InCombos, CombosShareNoKey
<1>6. OnePlace'
  BY <1>2, <1>4, <1>5, HeadFacts DEF KeyInv, OnePlace, HeldOnce
<1>7. UpAlone' /\ UpLast(agenda')
  BY HeadFacts DEF UpAlone
<1> QED
  BY <1>3, <1>6, <1>7 DEF KeyInv

\* A step that leaves the keys where they are, and puts "lead" at the place of
\* the innermost call.
LEMMA CallsPushed ==
  ASSUME KeyInv, agenda # <<>>, NEW lead \in Seq(Call),
         Raised(lead) = Raised(<<Head(agenda)>>), LetGo(lead) = LetGo(<<Head(agenda)>>),
         RaisedOnce(lead), UpLast(lead), \A j \in DOMAIN lead : lead[j].do # "upRest",
         agenda' = lead \o Tail(agenda),
         candidates' \subseteq Combo, fully' \in Combo \cup {None},
         UNCHANGED <<build, pressed, active, now, held, passed>>
  PROVE  KeyInv'
<1> DEFINE t == Tail(agenda)
<1>1. t \in Seq(Call) /\ Raised(lead) \cap Raised(t) = {} /\ RaisedOnce(t) /\ UpLast(t)
  BY HeadFacts
<1>2. UpLast(agenda')
  <2>1. CASE LetsGo(Head(agenda))
    <3>1. t = <<>>
      BY <2>1, HeadFacts
    <3>2. agenda' = lead
      BY <3>1, ConcatEmptySeq
    <3> QED
      BY <3>2
  <2>2. CASE ~LetsGo(Head(agenda))
    BY <1>1, <2>2, HeadFacts, Joined
  <2> QED
    BY <2>1, <2>2
<1>3. /\ agenda' \in Seq(Call)
      /\ Raised(agenda') = Raised(lead) \cup Raised(t)
      /\ LetGo(agenda') = LetGo(lead) \cup LetGo(t)
      /\ RaisedOnce(agenda')
  BY <1>1, Joined
<1>4. Raised(agenda') = Raised(agenda) /\ LetGo(agenda') = LetGo(agenda)
  BY <1>3, HeadFacts
<1>5. UpAlone'
  <2> SUFFICES ASSUME NEW i \in DOMAIN agenda', agenda'[i].do = "upRest", agenda'[i].released <= 1
               PROVE  FALSE
    BY DEF UpAlone
  <2> HIDE DEF t
  <2>0. agenda' = lead \o t
    BY DEF t
  <2>1. i \notin 1 .. Len(lead)
    BY <1>1, <2>0
  <2>2. i - Len(lead) \in DOMAIN t /\ t[i - Len(lead)] = agenda'[i]
    BY <1>1, <2>0, <2>1
  <2>3. \A j \in DOMAIN t : t[j].do = "upRest" => ~(t[j].released <= 1)
    BY HeadFacts DEF t
  <2> QED
    BY <2>2, <2>3
<1>6. Captured' = Captured /\ InCombos' = InCombos /\ (CombosShareNoKey <=> CombosShareNoKey')
  BY DEF Captured, InCombos, CombosShareNoKey
<1>7. Types'
  BY <1>3, SameKeyboard DEF KeyInv, Types
<1>8. OnePlace'
  BY <1>3, <1>4, <1>6 DEF KeyInv, OnePlace, HeldOnce
<1> QED
  BY <1>2, <1>5, <1>7, <1>8 DEF KeyInv

\* Another call, not a release waiting for its cleanup, takes the place of the innermost.
LEMMA CallReplaced ==
  ASSUME KeyInv, agenda # <<>>, NEW c \in Call, c.do # "upRest",
         Raised(<<c>>) = Raised(<<Head(agenda)>>), LetGo(<<c>>) = LetGo(<<Head(agenda)>>),
         agenda' = <<c>> \o Tail(agenda),
         candidates' \subseteq Combo, fully' \in Combo \cup {None},
         UNCHANGED <<build, pressed, active, now, held, passed>>
  PROVE  KeyInv'
<1>1. <<c>> \in Seq(Call) /\ \A j \in DOMAIN <<c>> : <<c>>[j].do # "upRest"
  <2>1. \A x \in Call : <<x>> \in Seq(Call) /\ DOMAIN <<x>> = {1} /\ <<x>>[1] = x
    OBVIOUS
  <2> QED
    BY <2>1
<1>2. RaisedOnce(<<c>>) /\ UpLast(<<c>>)
  BY OneCall
<1> QED
  BY <1>1, <1>2, CallsPushed

\* A call that moves no key is over.
LEMMA CallOver ==
  ASSUME KeyInv, agenda # <<>>, ~Raises(Head(agenda)), ~LetsGo(Head(agenda)),
         agenda' = Tail(agenda), candidates' \subseteq Combo, fully' \in Combo \cup {None},
         UNCHANGED <<build, pressed, active, now, held, passed>>
  PROVE  KeyInv'
<1>1. <<>> \in Seq(Call) /\ \A j \in DOMAIN <<>> : <<>>[j].do # "upRest"
  OBVIOUS
<1>3. RaisedOnce(<<>>) /\ UpLast(<<>>) /\ Raised(<<>>) = {} /\ LetGo(<<>>) = {}
  BY NoCall
<1>4. Raised(<<>>) = Raised(<<Head(agenda)>>) /\ LetGo(<<>>) = LetGo(<<Head(agenda)>>)
  BY <1>3, HeadFacts
<1>2. agenda' = <<>> \o Tail(agenda)
  BY HeadFacts, ConcatEmptySeq
<1> QED
  BY <1>1, <1>2, <1>3, <1>4, CallsPushed

LEMMA DownIgnoredStep == KeyInv /\ DownIgnored => KeyInv'
<1> SUFFICES ASSUME KeyInv, DownIgnored PROVE KeyInv'
  OBVIOUS
<1>1. Raises(Head(agenda)) /\ agenda # <<>>
  BY DEF DownIgnored, Doing, Raises
<1>2. Pass(Head(agenda).pos, Head(agenda).at) /\ agenda' = Tail(agenda)
  BY DEF DownIgnored
<1>3. UNCHANGED <<build, pressed, candidates, fully, active, now, held>>
  BY DEF DownIgnored, settings, outside
<1> QED
  BY <1>1, <1>2, <1>3, GoesBy

LEMMA BubbleDownStep == KeyInv /\ BubbleDown => KeyInv'
<1> SUFFICES ASSUME KeyInv, BubbleDown PROVE KeyInv'
  OBVIOUS
<1>1. Raises(Head(agenda)) /\ agenda # <<>>
  BY DEF BubbleDown, Doing, Raises
<1>2. Pass(Head(agenda).pos, Head(agenda).at) /\ agenda' = Tail(agenda)
  BY DEF BubbleDown
<1>3. UNCHANGED <<build, pressed, candidates, fully, active, now, held>>
  BY DEF BubbleDown, settings, outside
<1> QED
  BY <1>1, <1>2, <1>3, GoesBy

LEMMA UpdateStep == KeyInv /\ UpdateTimeoutTask => KeyInv'
<1> SUFFICES ASSUME KeyInv, UpdateTimeoutTask PROVE KeyInv'
  OBVIOUS
<1>1. ~Raises(Head(agenda)) /\ ~LetsGo(Head(agenda)) /\ agenda # <<>>
  BY DEF UpdateTimeoutTask, Doing, Raises, LetsGo
<1>2. agenda' = Tail(agenda) /\ UNCHANGED <<build, pressed, candidates, fully, active, now, held, passed>>
  BY DEF UpdateTimeoutTask, settings, outside
<1>3. candidates' \subseteq Combo /\ fully' \in Combo \cup {None}
  BY <1>2 DEF KeyInv, Types
<1> QED
  BY <1>1, <1>2, <1>3, CallOver

LEMMA PositionStateUpStep == KeyInv /\ PositionStateUp => KeyInv'
<1> SUFFICES ASSUME KeyInv, PositionStateUp PROVE KeyInv'
  OBVIOUS
<1> DEFINE p == Head(agenda).pos
<1>1. agenda # <<>> /\ Head(agenda).do = "up"
  BY DEF PositionStateUp, Doing
<1>2. agenda' = <<Cleanup(p)>> \o Tail(agenda)
  BY DEF PositionStateUp
<1>3. UNCHANGED <<build, pressed, candidates, fully, active, now, held, passed>>
  BY DEF PositionStateUp, settings, engine, outside
<1>4. p \in Position /\ LetsGo(Head(agenda)) /\ ~Raises(Head(agenda))
  BY <1>1, HeadFacts, CallParts DEF KeyInv, Types, Raises
<1>5. Cleanup(p) \in Call /\ Cleanup(p).do # "upRest"
  BY <1>4, CallsAre DEF Cleanup
<1>6. LetsGo(Cleanup(p)) /\ ~Raises(Cleanup(p)) /\ Cleanup(p).pos = p
  BY <1>4 DEF Cleanup, LetsGo, Raises
<1>7. Raised(<<Cleanup(p)>>) = Raised(<<Head(agenda)>>) /\ LetGo(<<Cleanup(p)>>) = LetGo(<<Head(agenda)>>)
  BY <1>4, <1>6, OneCall
<1>8. candidates' \subseteq Combo /\ fully' \in Combo \cup {None}
  BY <1>3 DEF KeyInv, Types
<1> QED
  BY <1>1, <1>2, <1>3, <1>5, <1>7, <1>8, CallReplaced

\* What position_state_down pushes: no release, and the press only if it is full.
LEMMA DownPushes ==
  ASSUME NEW c \in Call, c.do = "bubble",
         NEW a \in {<<>>, <<Cleanup(NoKey)>>}, NEW b \in {<<>>, <<c>>},
         NEW lead, lead = <<Update>> \o a \o b
  PROVE  /\ lead \in Seq(Call) /\ LetGo(lead) = {} /\ Raised(lead) = (IF b = <<>> THEN {} ELSE {c.pos})
         /\ RaisedOnce(lead) /\ UpLast(lead) /\ \A j \in DOMAIN lead : lead[j].do # "upRest"
<1> DEFINE u == <<Update>>
<1>1. /\ ~Raises(Update) /\ ~LetsGo(Update) /\ Update.do # "upRest"
      /\ ~Raises(Cleanup(NoKey)) /\ ~LetsGo(Cleanup(NoKey)) /\ Cleanup(NoKey).do # "upRest"
      /\ Raises(c) /\ ~LetsGo(c) /\ c.do # "upRest"
  BY DEF Update, Cleanup, Bubble, Raises, LetsGo
<1>2. \A x \in Call : <<x>> \in Seq(Call) /\ DOMAIN <<x>> = {1} /\ <<x>>[1] = x
  OBVIOUS
<1>3. <<>> \in Seq(Call) /\ DOMAIN <<>> = {}
  OBVIOUS
<1>4. Update \in Call /\ Cleanup(NoKey) \in Call
  BY CallsAre
<1>5. /\ u \in Seq(Call) /\ LetGo(u) = {} /\ Raised(u) = {} /\ RaisedOnce(u) /\ UpLast(u)
      /\ \A j \in DOMAIN u : u[j].do # "upRest"
  BY <1>1, <1>2, <1>4, OneCall
<1>6. /\ a \in Seq(Call) /\ LetGo(a) = {} /\ Raised(a) = {} /\ RaisedOnce(a) /\ UpLast(a)
      /\ \A j \in DOMAIN a : a[j].do # "upRest"
  <2>1. CASE a = <<Cleanup(NoKey)>>
    BY <1>1, <1>2, <1>4, <2>1, OneCall
  <2>2. CASE a = <<>>
    BY <1>3, <2>2, NoCall
  <2> QED
    BY <2>1, <2>2
<1>7. /\ b \in Seq(Call) /\ LetGo(b) = {} /\ Raised(b) = (IF b = <<>> THEN {} ELSE {c.pos})
      /\ RaisedOnce(b) /\ UpLast(b) /\ \A j \in DOMAIN b : b[j].do # "upRest"
  <2>1. CASE b = <<c>>
    BY <1>1, <1>2, <1>4, <2>1, OneCall
  <2>2. CASE b = <<>>
    BY <1>3, <2>2, NoCall
  <2> QED
    BY <2>1, <2>2
<1>8. lead = (u \o a) \o b
  OBVIOUS
<1> HIDE DEF u
<1>9. /\ u \o a \in Seq(Call) /\ LetGo(u \o a) = {} /\ Raised(u \o a) = {}
      /\ RaisedOnce(u \o a) /\ UpLast(u \o a)
  BY <1>5, <1>6, Joined
<1>10. /\ lead \in Seq(Call) /\ LetGo(lead) = {} /\ Raised(lead) = (IF b = <<>> THEN {} ELSE {c.pos})
       /\ RaisedOnce(lead) /\ UpLast(lead)
  <2> DEFINE v == u \o a
  <2>1. v \in Seq(Call) /\ LetGo(v) = {} /\ Raised(v) = {} /\ RaisedOnce(v) /\ lead = v \o b
    BY <1>8, <1>9
  <2> HIDE DEF v
  <2>2. /\ v \o b \in Seq(Call)
        /\ Raised(v \o b) = Raised(v) \cup Raised(b)
        /\ LetGo(v \o b) = LetGo(v) \cup LetGo(b)
        /\ Raised(v) \cap Raised(b) = {} => RaisedOnce(v \o b)
        /\ UpLast(v \o b)
    BY <1>7, <2>1, Joined
  <2>3. Raised(lead) = Raised(b) /\ LetGo(lead) = {}
    BY <1>7, <2>1, <2>2
  <2> QED
    BY <1>7, <2>1, <2>2, <2>3
<1>11. \A j \in DOMAIN lead : lead[j].do # "upRest"
  <2>1. \A s, r \in Seq(Call) :
            (\A j \in DOMAIN s : s[j].do # "upRest") /\ (\A j \in DOMAIN r : r[j].do # "upRest")
              => \A j \in DOMAIN (s \o r) : (s \o r)[j].do # "upRest"
    <3> SUFFICES ASSUME NEW s \in Seq(Call), NEW r \in Seq(Call), NEW j \in DOMAIN (s \o r),
                        \A i \in DOMAIN s : s[i].do # "upRest", \A i \in DOMAIN r : r[i].do # "upRest"
                 PROVE  (s \o r)[j].do # "upRest"
      OBVIOUS
    <3>1. CASE j <= Len(s)
      BY <3>1
    <3>2. CASE ~(j <= Len(s))
      <4>1. j - Len(s) \in DOMAIN r /\ (s \o r)[j] = r[j - Len(s)]
        BY <3>2
      <4> QED
        BY <4>1
    <3> QED
      BY <3>1, <3>2
  <2>2. \A j \in DOMAIN (u \o a) : (u \o a)[j].do # "upRest"
    BY <1>5, <1>6, <2>1
  <2> QED
    BY <1>7, <1>8, <1>9, <2>1, <2>2
<1> QED
  BY <1>10, <1>11

LEMMA PositionStateDownStep == KeyInv /\ PositionStateDown => KeyInv'
<1> SUFFICES ASSUME KeyInv, PositionStateDown PROVE KeyInv'
  OBVIOUS
<1> DEFINE e == Head(agenda)
           t == Tail(agenda)
           first == FirstCandidates(e.pos, e.at)
           left == IF pressed = <<>> THEN candidates \cup first
                   ELSE InTime(candidates, e.at) \cap Lookup(e.pos)
           matches == IF pressed = <<>> THEN first ELSE left
           full == Len(pressed) = MaxComboKeys
           captured == IF full THEN pressed ELSE Append(pressed, [pos |-> e.pos, at |-> e.at])
           complete == left # {} /\ Cardinality(Keys[Min(left)]) = Len(captured)
           over == matches = {} \/ (complete /\ Cardinality(matches) = 1)
           lead == <<Update>> \o (IF over THEN <<Cleanup(NoKey)>> ELSE <<>>)
                              \o (IF full THEN <<Bubble(e.pos, e.at)>> ELSE <<>>)
<1>1. agenda # <<>> /\ e.do = "down"
  BY DEF PositionStateDown, Doing
<1>2. /\ candidates' = left /\ pressed' = captured
      /\ fully' = IF complete THEN Min(left) ELSE fully
      /\ agenda' = lead \o t
      /\ UNCHANGED <<build, active, now, held, passed>>
  BY DEF PositionStateDown, settings, outside
<1>3. e \in Call /\ Raises(e) /\ ~LetsGo(e) /\ e.pos \in Position /\ e.at \in Nat
  BY <1>1, HeadFacts, CallParts DEF KeyInv, Types, Raises, LetsGo
<1>4. left \subseteq Combo
  BY DEF KeyInv, Types, FirstCandidates, InTime, Lookup
<1>5. candidates' \subseteq Combo /\ fully' \in Combo \cup {None}
  <2>1. left \in SUBSET Nat
    BY <1>4, ComboAssumption DEF ComboAssumption, Combo
  <2>2. complete => Min(left) \in left
    <3> HIDE DEF left
    <3> QED
      BY <2>1, MinIs
  <2> HIDE DEF left, complete
  <2> QED
    BY <1>2, <1>4, <2>2 DEF KeyInv, Types
<1>6. /\ lead \in Seq(Call) /\ LetGo(lead) = {} /\ Raised(lead) = (IF full THEN {e.pos} ELSE {})
      /\ RaisedOnce(lead) /\ UpLast(lead) /\ \A j \in DOMAIN lead : lead[j].do # "upRest"
  <2> HIDE DEF over, full, e
  <2> DEFINE a == IF over THEN <<Cleanup(NoKey)>> ELSE <<>>
             b == IF full THEN <<Bubble(e.pos, e.at)>> ELSE <<>>
  <2>1. a \in {<<>>, <<Cleanup(NoKey)>>} /\ b \in {<<>>, <<Bubble(e.pos, e.at)>>}
    OBVIOUS
  <2>2. lead = <<Update>> \o a \o b
    OBVIOUS
  <2>3. (b = <<>>) <=> ~full
    OBVIOUS
  <2> HIDE DEF first, left, matches, captured, complete, lead, a, b
  <2>4. /\ lead \in Seq(Call) /\ LetGo(lead) = {} /\ Raised(lead) = (IF b = <<>> THEN {} ELSE {e.pos})
        /\ RaisedOnce(lead) /\ UpLast(lead) /\ \A j \in DOMAIN lead : lead[j].do # "upRest"
    <3> DEFINE c == Bubble(e.pos, e.at)
    <3>1. c \in Call /\ c.do = "bubble" /\ c.pos = e.pos /\ b \in {<<>>, <<c>>}
      BY <1>3, <2>1, CallsAre DEF Bubble
    <3> HIDE DEF c
    <3> QED
      BY <2>1, <2>2, <3>1, DownPushes
  <2> QED
    BY <2>3, <2>4
<1>7. captured = IF full THEN pressed ELSE Append(pressed, [pos |-> e.pos, at |-> e.at])
  OBVIOUS
<1> HIDE DEF e, t, first, left, matches, full, captured, complete, over, lead
<1>8. CASE full
  <2>1. UNCHANGED <<build, pressed, active, now, held, passed>>
    BY <1>2, <1>7, <1>8
  <2>2. Raised(lead) = Raised(<<e>>) /\ LetGo(lead) = LetGo(<<e>>)
    BY <1>3, <1>6, <1>8, OneCall
  <2> QED
    BY <1>1, <1>2, <1>5, <1>6, <2>1, <2>2, CallsPushed DEF e, t
<1>9. CASE ~full
  <2> DEFINE k == [pos |-> e.pos, at |-> e.at]
  <2>1. pressed' = Append(pressed, k) /\ k \in Press /\ k.pos = e.pos
    BY <1>2, <1>3, <1>7, <1>9 DEF Press
  <2> HIDE DEF k
  <2>2. /\ t \in Seq(Call) /\ RaisedOnce(t) /\ UpLast(t)
        /\ Raised(agenda) = {e.pos} \cup Raised(t) /\ e.pos \notin Raised(t) /\ LetGo(agenda) = LetGo(t)
        /\ \A j \in DOMAIN t : t[j].do = "upRest" => ~(t[j].released <= 1)
    BY <1>1, <1>3, HeadFacts DEF e, t
  <2>3. /\ agenda' \in Seq(Call) /\ Raised(agenda') = Raised(t) /\ LetGo(agenda') = LetGo(t)
        /\ RaisedOnce(agenda') /\ UpLast(agenda')
    <3>1. Raised(lead) = {}
      BY <1>6, <1>9
    <3>2. /\ lead \o t \in Seq(Call)
          /\ Raised(lead \o t) = Raised(lead) \cup Raised(t)
          /\ LetGo(lead \o t) = LetGo(lead) \cup LetGo(t)
          /\ RaisedOnce(lead \o t) /\ UpLast(lead \o t)
      BY <1>6, <2>2, <3>1, Joined
    <3> QED
      BY <1>2, <1>6, <3>1, <3>2
  <2>4. pressed \in Seq(Press) /\ PressedOnce(pressed) /\ e.pos \notin Captured
    BY <2>2 DEF KeyInv, Types, OnePlace
  <2>5. /\ pressed' \in Seq(Press) /\ Len(pressed') = Len(pressed) + 1
        /\ \A i \in 1 .. Len(pressed) : pressed'[i] = pressed[i]
        /\ pressed'[Len(pressed) + 1] = k
        /\ Len(pressed) \in Nat
    BY <2>1, <2>4
  <2>6. Captured' = Captured \cup {e.pos}
    <3>1. DOMAIN pressed' = DOMAIN pressed \cup {Len(pressed) + 1} /\ DOMAIN pressed = 1 .. Len(pressed)
      BY <2>4, <2>5
    <3> QED
      BY <2>1, <2>5, <3>1 DEF Captured
  <2>7. PressedOnce(pressed')
    <3> SUFFICES ASSUME NEW i \in 1 .. Len(pressed) + 1, NEW j \in 1 .. Len(pressed) + 1, i < j,
                        pressed'[i].pos = pressed'[j].pos
                 PROVE  FALSE
      BY <2>5 DEF PressedOnce
    <3>1. i \in 1 .. Len(pressed) /\ pressed'[i].pos = pressed[i].pos
      BY <2>5
    <3>2. CASE j = Len(pressed) + 1
      BY <2>1, <2>4, <2>5, <3>1, <3>2 DEF Captured
    <3>3. CASE j # Len(pressed) + 1
      <4>1. j \in DOMAIN pressed /\ i \in DOMAIN pressed /\ i # j /\ pressed'[j] = pressed[j]
        BY <2>4, <2>5, <3>1, <3>3
      <4>2. pressed[i].pos = pressed[j].pos
        BY <3>1, <4>1
      <4> QED
        BY <2>4, <4>1, <4>2 DEF PressedOnce
    <3> QED
      BY <3>2, <3>3
  <2>8. InCombos' = InCombos /\ (CombosShareNoKey <=> CombosShareNoKey')
    BY <1>2 DEF InCombos, CombosShareNoKey
  <2>9. Types'
    BY <1>2, <1>5, <2>3, <2>5, SameKeyboard DEF KeyInv, Types
  <2>10. OnePlace'
    BY <1>2, <2>2, <2>3, <2>6, <2>7, <2>8 DEF KeyInv, OnePlace, HeldOnce
  <2>11. UpAlone'
    <3> SUFFICES ASSUME NEW i \in DOMAIN agenda', agenda'[i].do = "upRest", agenda'[i].released <= 1
                 PROVE  FALSE
      BY DEF UpAlone
    <3>1. i \notin 1 .. Len(lead)
      BY <1>2, <1>6, <2>2
    <3>2. i - Len(lead) \in DOMAIN t /\ t[i - Len(lead)] = agenda'[i]
      BY <1>2, <1>6, <2>2, <3>1
    <3> QED
      BY <2>2, <3>2
  <2> QED
    BY <2>3, <2>9, <2>10, <2>11 DEF KeyInv
<1> QED
  BY <1>8, <1>9

\* The keys pressed are let go and none goes to a combo.
LEMMA AllReleased ==
  ASSUME KeyInv, NEW rest \in Seq(Call), RaisedOnce(rest), UpLast(rest),
         Raised(rest) = Raised(agenda), LetGo(rest) = LetGo(agenda),
         \A j \in DOMAIN rest : rest[j].do = "upRest" =>
                (j = 1 /\ rest[j].released = Len(pressed)) \/ ~(rest[j].released <= 1),
         ReleasePressed(pressed, rest),
         candidates' \subseteq Combo, fully' \in Combo \cup {None},
         UNCHANGED <<build, active, now, held>>
  PROVE  KeyInv'
<1>1. pressed \in Seq(Press) /\ PressedOnce(pressed) /\ Positions(pressed) = Captured
  BY DEF KeyInv, Types, OnePlace, Positions, Captured
<1>2. InCombos' = InCombos /\ (CombosShareNoKey <=> CombosShareNoKey')
  BY DEF InCombos, CombosShareNoKey
<1>3. active' \in Seq([combo : Combo, keys : Seq(Position)]) /\ CombosShareNoKey'
  BY <1>2 DEF KeyInv, Types, OnePlace
<1> QED
  BY <1>1, <1>2, <1>3, CleanupStep

LEMMA CleanupOnlyStep == KeyInv /\ CleanupOnly => KeyInv'
<1> SUFFICES ASSUME KeyInv, CleanupOnly PROVE KeyInv'
  OBVIOUS
<1> DEFINE rest == Then(Head(agenda).pos, Len(pressed), Tail(agenda))
<1>1. agenda # <<>> /\ Head(agenda).do \in {"cleanup", "cleanupRest"} /\ Len(pressed) \in Nat
  BY DEF CleanupOnly, Doing, KeyInv, Types
<1>2. ReleasePressed(pressed, rest) /\ UNCHANGED <<build, active, now, held>>
  BY DEF CleanupOnly, settings, outside
<1>3. candidates' \subseteq Combo /\ fully' \in Combo \cup {None}
  BY DEF CleanupOnly, KeyInv, Types
<1>4. rest = Then(Head(agenda).pos, Len(pressed), Tail(agenda))
  OBVIOUS
<1> HIDE DEF rest
<1>5. /\ rest \in Seq(Call) /\ RaisedOnce(rest) /\ UpLast(rest)
      /\ Raised(rest) = Raised(agenda) /\ LetGo(rest) = LetGo(agenda)
      /\ \A j \in DOMAIN rest : rest[j].do = "upRest" =>
             (j = 1 /\ rest[j].released = Len(pressed)) \/ ~(rest[j].released <= 1)
  BY <1>1, <1>4, ThenIs
<1> QED
  BY <1>2, <1>3, <1>5, AllReleased

LEMMA AfterNoRoomStep == KeyInv /\ AfterNoRoom => KeyInv'
<1> SUFFICES ASSUME KeyInv, AfterNoRoom PROVE KeyInv'
  OBVIOUS
<1> DEFINE rest == Then(Head(agenda).pos, Len(pressed), Tail(agenda))
<1>1. agenda # <<>> /\ Head(agenda).do \in {"cleanup", "cleanupRest"} /\ Len(pressed) \in Nat
  BY DEF AfterNoRoom, Doing, KeyInv, Types
<1>2. ReleasePressed(pressed, rest) /\ UNCHANGED <<build, active, now, held>>
  BY DEF AfterNoRoom, settings, outside
<1>3. candidates' \subseteq Combo /\ fully' \in Combo \cup {None}
  BY DEF AfterNoRoom, KeyInv, Types
<1>4. rest = Then(Head(agenda).pos, Len(pressed), Tail(agenda))
  OBVIOUS
<1> HIDE DEF rest
<1>5. /\ rest \in Seq(Call) /\ RaisedOnce(rest) /\ UpLast(rest)
      /\ Raised(rest) = Raised(agenda) /\ LetGo(rest) = LetGo(agenda)
      /\ \A j \in DOMAIN rest : rest[j].do = "upRest" =>
             (j = 1 /\ rest[j].released = Len(pressed)) \/ ~(rest[j].released <= 1)
  BY <1>1, <1>4, ThenIs
<1> QED
  BY <1>2, <1>3, <1>5, AllReleased

LEMMA ActivateNoRoomStep == KeyInv /\ ActivateNoRoom => KeyInv'
<1> SUFFICES ASSUME KeyInv, ActivateNoRoom PROVE KeyInv'
  OBVIOUS
<1> DEFINE c == CleanupRest(Head(agenda).pos)
           t == Tail(agenda)
           rest == <<c>> \o t
<1>1. agenda # <<>> /\ Head(agenda).do = "cleanup"
  BY DEF ActivateNoRoom, Doing
<1>2. ReleasePressed(pressed, rest) /\ UNCHANGED <<build, active, now, held>>
  BY DEF ActivateNoRoom, settings, outside
<1>3. candidates' \subseteq Combo /\ fully' \in Combo \cup {None}
  BY DEF ActivateNoRoom, KeyInv, Types
<1>4. Head(agenda).pos \in Position \cup {NoKey} /\ ~Raises(Head(agenda))
  BY <1>1, HeadFacts, CallParts DEF KeyInv, Types, Raises
<1>5. c \in Call /\ ~Raises(c) /\ (LetsGo(c) <=> LetsGo(Head(agenda))) /\ c.pos = Head(agenda).pos
      /\ c.do # "upRest"
  BY <1>1, <1>4, CallsAre DEF CleanupRest, Raises, LetsGo
<1>6. rest = <<c>> \o t
  OBVIOUS
<1> HIDE DEF c, rest
<1>7. /\ <<c>> \in Seq(Call) /\ RaisedOnce(<<c>>) /\ UpLast(<<c>>)
      /\ Raised(<<c>>) = {} /\ LetGo(<<c>>) = LetGo(<<Head(agenda)>>)
  <2>1. \A x \in Call : <<x>> \in Seq(Call)
    OBVIOUS
  <2> QED
    BY <1>5, <2>1, OneCall
<1>8. /\ t \in Seq(Call) /\ RaisedOnce(t) /\ UpLast(t)
      /\ Raised(agenda) = Raised(t) /\ LetGo(agenda) = LetGo(<<c>>) \cup LetGo(t)
      /\ \A j \in DOMAIN t : t[j].do = "upRest" => ~(t[j].released <= 1)
      /\ LetsGo(Head(agenda)) => t = <<>>
  BY <1>1, <1>4, <1>7, HeadFacts
<1> HIDE DEF t
<1>9. /\ rest \in Seq(Call) /\ Raised(rest) = Raised(agenda) /\ LetGo(rest) = LetGo(agenda)
      /\ RaisedOnce(rest)
  <2> DEFINE v == <<c>>
  <2>1. /\ v \in Seq(Call) /\ RaisedOnce(v) /\ Raised(v) = {} /\ rest = v \o t
        /\ LetGo(agenda) = LetGo(v) \cup LetGo(t)
    BY <1>6, <1>7, <1>8
  <2> HIDE DEF v
  <2>2. /\ v \o t \in Seq(Call)
        /\ Raised(v \o t) = Raised(v) \cup Raised(t)
        /\ LetGo(v \o t) = LetGo(v) \cup LetGo(t)
        /\ RaisedOnce(v \o t)
    BY <1>8, <2>1, Joined
  <2> QED
    BY <1>8, <2>1, <2>2
<1>10. UpLast(rest)
  <2>1. CASE LetsGo(Head(agenda))
    BY <1>6, <1>7, <1>8, <2>1, ConcatEmptySeq
  <2>2. CASE ~LetsGo(Head(agenda))
    BY <1>6, <1>7, <1>8, <2>2, OneCall, Joined
  <2> QED
    BY <2>1, <2>2
<1>11. ASSUME NEW j \in DOMAIN rest, rest[j].do = "upRest" PROVE ~(rest[j].released <= 1)
  <2>1. \A x \in Call, s \in Seq(Call) : \A i \in DOMAIN (<<x>> \o s) :
            \/ i = 1 /\ (<<x>> \o s)[i] = x
            \/ i - 1 \in DOMAIN s /\ (<<x>> \o s)[i] = s[i - 1]
    OBVIOUS
  <2>2. rest[j] = c \/ \E i \in DOMAIN t : rest[j] = t[i]
    BY <1>5, <1>6, <1>8, <2>1
  <2> QED
    BY <1>5, <1>8, <1>11, <2>2
<1> QED
  BY <1>2, <1>3, <1>9, <1>10, <1>11, AllReleased

\* A combo that becomes active takes the first n keys pressed.
LEMMA ComboTakesKeys ==
  ASSUME KeyInv, NEW n \in 0 .. Len(pressed), NEW record \in [combo : Combo, keys : Seq(Position)],
         record.keys = [j \in 1 .. n |-> pressed[j].pos],
         active' = Append(active, record),
         NEW others, others = SubSeq(pressed, n + 1, Len(pressed))
  PROVE  /\ others \in Seq(Press) /\ PressedOnce(others) /\ Positions(others) \subseteq Captured
         /\ Len(others) = Len(pressed) - n
         /\ active' \in Seq([combo : Combo, keys : Seq(Position)])
         /\ InCombos' = InCombos \cup (Captured \ Positions(others))
         /\ CombosShareNoKey'
<1>1. /\ pressed \in Seq(Press) /\ Len(pressed) \in Nat /\ DOMAIN pressed = 1 .. Len(pressed)
      /\ \A i, j \in 1 .. Len(pressed) : pressed[i].pos = pressed[j].pos => i = j
      /\ Captured \cap InCombos = {}
  BY DEF KeyInv, Types, OnePlace, PressedOnce
<1>2. /\ others \in Seq(Press) /\ Len(others) = Len(pressed) - n
      /\ \A i \in 1 .. Len(pressed) - n : others[i] = pressed[n + i]
      /\ DOMAIN others = 1 .. Len(pressed) - n
  BY <1>1
<1>3. PressedOnce(others)
  <2> SUFFICES ASSUME NEW i \in 1 .. Len(pressed) - n, NEW j \in 1 .. Len(pressed) - n,
                      others[i].pos = others[j].pos
               PROVE  i = j
    BY <1>2 DEF PressedOnce
  <2>1. n + i \in 1 .. Len(pressed) /\ n + j \in 1 .. Len(pressed)
    BY <1>1
  <2>2. n + i = n + j
    BY <1>1, <1>2, <2>1
  <2> QED
    BY <2>2
<1>4. Positions(others) \subseteq Captured
  <2> SUFFICES ASSUME NEW i \in 1 .. Len(pressed) - n PROVE others[i].pos \in Captured
    BY <1>2 DEF Positions
  <2>1. n + i \in DOMAIN pressed
    BY <1>1
  <2> QED
    BY <1>2, <2>1 DEF Captured
<1>5. \A j \in 1 .. n : j \in 1 .. Len(pressed)
  BY <1>1
<1>6. DOMAIN record.keys = 1 .. n /\ \A j \in 1 .. n : record.keys[j] = pressed[j].pos
  OBVIOUS
<1>7. ToSet(record.keys) = Captured \ Positions(others)
  <2>1. ASSUME NEW j \in 1 .. n PROVE pressed[j].pos \in Captured \ Positions(others)
    <3>1. pressed[j].pos \in Captured
      BY <1>1, <1>5 DEF Captured
    <3>2. ASSUME NEW i \in 1 .. Len(pressed) - n, others[i].pos = pressed[j].pos PROVE FALSE
      <4>1. n + i \in 1 .. Len(pressed) /\ n + i # j
        BY <1>1
      <4> QED
        BY <1>1, <1>2, <1>5, <3>2, <4>1
    <3> QED
      BY <1>2, <3>1, <3>2 DEF Positions
  <2>2. ASSUME NEW k \in 1 .. Len(pressed), pressed[k].pos \notin Positions(others)
        PROVE  k \in 1 .. n
    <3> SUFFICES ASSUME k > n PROVE FALSE
      BY <1>1
    <3>1. k - n \in 1 .. Len(pressed) - n /\ n + (k - n) = k
      BY <1>1
    <3>2. others[k - n].pos = pressed[k].pos
      BY <1>2, <3>1
    <3> QED
      BY <1>2, <2>2, <3>1, <3>2 DEF Positions
  <2>3. \A q : q \in ToSet(record.keys) <=> \E j \in 1 .. n : q = pressed[j].pos
    <3> DEFINE f == record.keys
    <3>1. DOMAIN f = 1 .. n /\ \A j \in 1 .. n : f[j] = pressed[j].pos
      BY <1>6
    <3> HIDE DEF f
    <3>2. ToSet(f) = {f[j] : j \in 1 .. n}
      BY <3>1 DEF ToSet
    <3>3. \A q : q \in ToSet(f) <=> \E j \in 1 .. n : q = f[j]
      BY <3>2
    <3>4. \A q : q \in ToSet(f) <=> \E j \in 1 .. n : q = pressed[j].pos
      BY <3>1, <3>3
    <3> QED
      BY <3>4 DEF f
  <2>4. ToSet(record.keys) \subseteq Captured \ Positions(others)
    BY <2>1, <2>3
  <2>5. \A q \in Captured \ Positions(others) : \E j \in 1 .. n : q = pressed[j].pos
    BY <1>1, <2>2 DEF Captured
  <2> QED
    BY <2>3, <2>4, <2>5
<1>8. /\ active' \in Seq([combo : Combo, keys : Seq(Position)])
      /\ Len(active) \in Nat /\ DOMAIN active = 1 .. Len(active)
      /\ DOMAIN active' = 1 .. Len(active) + 1
      /\ \A i \in 1 .. Len(active) : active'[i] = active[i]
      /\ active'[Len(active) + 1] = record
  BY DEF KeyInv, Types
<1>9. InCombos' = InCombos \cup (Captured \ Positions(others))
  <2>1. InCombos' = UNION {ToSet(active'[i].keys) : i \in DOMAIN active'}
    BY DEF InCombos, ToSet
  <2>2. ASSUME NEW q \in InCombos' PROVE q \in InCombos \cup ToSet(record.keys)
    <3>1. PICK i \in 1 .. Len(active) + 1 : q \in ToSet(active'[i].keys)
      BY <1>8, <2>1, <2>2
    <3>2. CASE i = Len(active) + 1
      BY <1>8, <3>1, <3>2
    <3>3. CASE i # Len(active) + 1
      <4>1. i \in DOMAIN active /\ active'[i] = active[i]
        BY <1>8, <3>3
      <4> QED
        BY <3>1, <4>1 DEF InCombos
    <3> QED
      BY <3>2, <3>3
  <2>3. ASSUME NEW q \in InCombos PROVE q \in InCombos'
    <3>1. PICK i \in 1 .. Len(active) : q \in ToSet(active[i].keys)
      BY <1>8, <2>3 DEF InCombos
    <3>2. i \in DOMAIN active' /\ active'[i] = active[i]
      BY <1>8
    <3> QED
      BY <2>1, <3>1, <3>2
  <2>4. ASSUME NEW q \in ToSet(record.keys) PROVE q \in InCombos'
    <3>1. Len(active) + 1 \in DOMAIN active' /\ active'[Len(active) + 1] = record
      BY <1>8
    <3> QED
      BY <2>1, <2>4, <3>1
  <2> QED
    BY <1>7, <2>2, <2>3, <2>4
<1>10. CombosShareNoKey'
  <2> SUFFICES ASSUME NEW i \in DOMAIN active', NEW j \in DOMAIN active',
                      NEW a \in DOMAIN active'[i].keys, NEW b \in DOMAIN active'[j].keys,
                      active'[i].keys[a] = active'[j].keys[b]
               PROVE  i = j /\ a = b
    BY DEF CombosShareNoKey
  <2> DEFINE new == Len(active) + 1
  <2>1. ASSUME NEW k \in DOMAIN active', k # new
        PROVE  /\ k \in DOMAIN active /\ active'[k] = active[k]
               /\ \A c \in DOMAIN active[k].keys : active[k].keys[c] \in InCombos
    <3>0. k \in 1 .. Len(active) + 1 /\ k # Len(active) + 1 /\ Len(active) \in Nat
      BY <1>8, <2>1
    <3>1. k \in DOMAIN active /\ active'[k] = active[k]
      <4>1. k \in 1 .. Len(active)
        BY <3>0
      <4> QED
        BY <1>8, <4>1
    <3> QED
      BY <3>1 DEF InCombos, ToSet
  <2>2. /\ active'[new] = record
        /\ \A c \in DOMAIN record.keys : record.keys[c] \in Captured
    BY <1>7, <1>8 DEF ToSet
  <2>3. CASE i # new /\ j # new
    BY <2>1, <2>3 DEF KeyInv, OnePlace, CombosShareNoKey
  <2>4. CASE i = new /\ j = new
    <3>1. a \in 1 .. n /\ b \in 1 .. n /\ pressed[a].pos = pressed[b].pos
      BY <1>6, <2>2, <2>4
    <3> QED
      BY <1>1, <1>5, <2>4, <3>1
  <2>5. CASE i # new /\ j = new
    <3> HIDE DEF new
    <3>1. active'[i].keys[a] \in InCombos /\ active'[j].keys[b] \in Captured
      BY <2>1, <2>2, <2>5
    <3> QED
      BY <1>1, <3>1
  <2>6. CASE i = new /\ j # new
    <3> HIDE DEF new
    <3>1. active'[j].keys[b] \in InCombos /\ active'[i].keys[a] \in Captured
      BY <2>1, <2>2, <2>6
    <3> QED
      BY <1>1, <3>1
  <2> QED
    BY <2>3, <2>4, <2>5, <2>6
<1> QED
  BY <1>2, <1>3, <1>4, <1>8, <1>9, <1>10

\* How many of the keys pressed the combo takes, and its record.
Taken == Min({Len(pressed), Cardinality(Keys[fully])})
Record == [combo |-> fully, keys |-> [j \in 1 .. Taken |-> SubSeq(pressed, 1, Taken)[j].pos]]

LEMMA TakenKeys ==
  ASSUME KeyInv, fully # None
  PROVE  /\ Taken \in 0 .. Len(pressed) /\ Record \in [combo : Combo, keys : Seq(Position)]
         /\ Record.keys = [j \in 1 .. Taken |-> pressed[j].pos] /\ Record.combo = fully
<1> DEFINE n == Taken
           keys == SubSeq(pressed, 1, n)
<1>1. fully \in Combo
  BY DEF KeyInv, Types
<1>2. n \in 0 .. Len(pressed)
  <2>1. Cardinality(Keys[fully]) \in Nat
    <3>1. IsFiniteSet(build.positions) /\ Keys[fully] \subseteq build.positions
      BY <1>1, ComboAssumption DEF ComboAssumption, KeyInv, Types, Keys
    <3> QED
      BY <3>1, FS_Subset, FS_CardinalityType
  <2>2. Len(pressed) \in Nat
    BY DEF KeyInv, Types
  <2> QED
    BY <2>1, <2>2 DEF Min, Taken
<1> HIDE DEF n
<1>3. \A j \in 1 .. n : keys[j] = pressed[j] /\ pressed[j] \in Press
  BY <1>2 DEF KeyInv, Types
<1>4. \A j \in 1 .. n : pressed[j].pos \in Position
  BY <1>3 DEF Press
<1>5. [j \in 1 .. n |-> keys[j].pos] = [j \in 1 .. n |-> pressed[j].pos]
  BY <1>3
<1>6. [j \in 1 .. n |-> pressed[j].pos] \in Seq(Position)
  BY <1>2, <1>4 DEF KeyInv, Types
<1>7. Record = [combo |-> fully, keys |-> [j \in 1 .. n |-> pressed[j].pos]]
  BY <1>5 DEF Record, n
<1> QED
  BY <1>1, <1>2, <1>6, <1>7 DEF n

LEMMA ActivateComboStep == KeyInv /\ ActivateCombo => KeyInv'
<1> SUFFICES ASSUME KeyInv, ActivateCombo PROVE KeyInv'
  OBVIOUS
<1> DEFINE others == SubSeq(pressed, Taken + 1, Len(pressed))
           rest == Then(Head(agenda).pos, Len(others), Tail(agenda))
<1>1. agenda # <<>> /\ Head(agenda).do \in {"cleanup", "cleanupRest"}
  BY DEF ActivateCombo, Doing
<1>2. ReleasePressed(others, rest) /\ active' = Append(active, Record) /\ UNCHANGED <<build, now, held>>
  BY DEF ActivateCombo, settings, outside, Taken, Record
<1>3. candidates' \subseteq Combo /\ fully' \in Combo \cup {None} /\ fully # None
  BY DEF ActivateCombo, KeyInv, Types
<1>4. /\ Taken \in 0 .. Len(pressed) /\ Record \in [combo : Combo, keys : Seq(Position)]
      /\ Record.keys = [j \in 1 .. Taken |-> pressed[j].pos]
  BY <1>3, TakenKeys
<1>6. others = SubSeq(pressed, Taken + 1, Len(pressed))
  OBVIOUS
<1>7. rest = Then(Head(agenda).pos, Len(others), Tail(agenda))
  OBVIOUS
<1> HIDE DEF others, rest
<1>8. /\ others \in Seq(Press) /\ PressedOnce(others) /\ Positions(others) \subseteq Captured
      /\ active' \in Seq([combo : Combo, keys : Seq(Position)])
      /\ InCombos' = InCombos \cup (Captured \ Positions(others))
      /\ CombosShareNoKey'
  BY <1>2, <1>4, <1>6, ComboTakesKeys
<1>9. Len(others) \in Nat
  BY <1>8
<1>10. /\ rest \in Seq(Call) /\ RaisedOnce(rest) /\ UpLast(rest)
       /\ Raised(rest) = Raised(agenda) /\ LetGo(rest) = LetGo(agenda)
       /\ \A j \in DOMAIN rest : rest[j].do = "upRest" =>
              (j = 1 /\ rest[j].released = Len(others)) \/ ~(rest[j].released <= 1)
  BY <1>1, <1>7, <1>9, ThenIs
<1> QED
  BY <1>2, <1>3, <1>8, <1>10, CleanupStep

\* An active combo that lets go of key p, once its cleanup is done: the combo's
\* record keeps its other keys, or another record takes its place.
LEMMA ComboLetsGo ==
  ASSUME KeyInv, NEW p, NEW i \in DOMAIN active, p \in ToSet(active[i].keys),
         NEW rest, rest = Without(active[i].keys, p),
         active' = IF rest = <<>> THEN Deactivate(i) ELSE [active EXCEPT ![i].keys = rest]
  PROVE  /\ active' \in Seq([combo : Combo, keys : Seq(Position)])
         /\ InCombos' = InCombos \ {p}
         /\ CombosShareNoKey'
<1> DEFINE Rec == [combo : Combo, keys : Seq(Position)]
<1>1. /\ active \in Seq(Rec) /\ Len(active) \in Nat /\ DOMAIN active = 1 .. Len(active)
      /\ CombosShareNoKey
  BY DEF KeyInv, Types, OnePlace
<1> HIDE DEF Rec
<1>2. \A j \in DOMAIN active : active[j] \in Rec
  BY <1>1
<1>3. active[i].keys \in Seq(Position) /\ Distinct(active[i].keys)
  BY <1>1, <1>2 DEF CombosShareNoKey, Distinct, Rec
<1>4. rest \in Seq(Position) /\ ToSet(rest) = ToSet(active[i].keys) \ {p} /\ Distinct(rest)
  BY <1>3, WithoutIs
<1>5. ASSUME NEW j \in DOMAIN active, j # i PROVE p \notin ToSet(active[j].keys)
  BY <1>1, <1>5 DEF CombosShareNoKey, ToSet
<1>6. InCombos' = UNION {ToSet(active'[j].keys) : j \in DOMAIN active'}
  BY DEF InCombos, ToSet
<1>7. CASE rest # <<>>
  <2>1. active' = [active EXCEPT ![i].keys = rest]
    BY <1>7
  <2>2. /\ DOMAIN active' = DOMAIN active
        /\ \A j \in DOMAIN active : j # i => active'[j] = active[j]
        /\ active'[i].keys = rest /\ active'[i].combo = active[i].combo
        /\ active'[i] = [active[i] EXCEPT !.keys = rest]
    BY <1>1, <1>2, <2>1 DEF Rec
  <2>3. active' \in Seq(Rec)
    <3>1. active'[i] \in Rec
      BY <1>2, <1>4, <2>2 DEF Rec
    <3>2. active' = [j \in 1 .. Len(active) |-> active'[j]]
      BY <1>1, <2>1, <2>2
    <3>3. \A j \in 1 .. Len(active) : active'[j] \in Rec
      BY <1>1, <1>2, <2>2, <3>1
    <3> QED
      BY <1>1, <3>2, <3>3
  <2>4. InCombos' = InCombos \ {p}
    <3>1. ASSUME NEW q \in InCombos' PROVE q \in InCombos \ {p}
      <4>1. PICK j \in DOMAIN active : q \in ToSet(active'[j].keys)
        BY <1>6, <2>2, <3>1
      <4>2. CASE j = i
        BY <1>4, <2>2, <4>1, <4>2 DEF InCombos
      <4>3. CASE j # i
        BY <1>5, <2>2, <4>1, <4>3 DEF InCombos
      <4> QED
        BY <4>2, <4>3
    <3>2. ASSUME NEW q \in InCombos, q # p PROVE q \in InCombos'
      <4>1. PICK j \in DOMAIN active : q \in ToSet(active[j].keys)
        BY <3>2 DEF InCombos
      <4>2. CASE j = i
        BY <1>4, <1>6, <2>2, <3>2, <4>1, <4>2
      <4>3. CASE j # i
        BY <1>6, <2>2, <4>1, <4>3
      <4> QED
        BY <4>2, <4>3
    <3> QED
      BY <3>1, <3>2
  <2>5. CombosShareNoKey'
    <3> SUFFICES ASSUME NEW j \in DOMAIN active, NEW k \in DOMAIN active,
                        NEW a \in DOMAIN active'[j].keys, NEW b \in DOMAIN active'[k].keys,
                        active'[j].keys[a] = active'[k].keys[b]
                 PROVE  j = k /\ a = b
      BY <2>2 DEF CombosShareNoKey
    <3>1. CASE j # i /\ k # i
      BY <1>1, <2>2, <3>1 DEF CombosShareNoKey
    <3>2. CASE j = i /\ k = i
      BY <1>4, <2>2, <3>2 DEF Distinct
    <3>3. ASSUME NEW x \in DOMAIN active, x # i, NEW c \in DOMAIN active[x].keys, NEW d \in DOMAIN rest,
                 active[x].keys[c] = rest[d]
          PROVE  FALSE
      <4>1. rest[d] \in ToSet(active[i].keys)
        BY <1>4 DEF ToSet
      <4>2. PICK m \in DOMAIN active[i].keys : active[i].keys[m] = active[x].keys[c]
        BY <3>3, <4>1 DEF ToSet
      <4> QED
        BY <1>1, <3>3, <4>2 DEF CombosShareNoKey
    <3>4. CASE j = i /\ k # i
      BY <2>2, <3>3, <3>4
    <3>5. CASE j # i /\ k = i
      BY <2>2, <3>3, <3>5
    <3> QED
      BY <3>1, <3>2, <3>4, <3>5
  <2> QED
    BY <2>3, <2>4, <2>5 DEF Rec
<1>8. CASE rest = <<>>
  <2> DEFINE n == Len(active)
             src == [j \in 1 .. n - 1 |-> IF j = i THEN n ELSE j]
  <2>1. active' = [j \in 1 .. n - 1 |-> active[src[j]]]
    BY <1>8 DEF Deactivate
  <2>2. /\ \A j \in 1 .. n - 1 : src[j] \in DOMAIN active /\ src[j] # i
        /\ \A j, k \in 1 .. n - 1 : src[j] = src[k] => j = k
        /\ \A m \in DOMAIN active : m # i => \E j \in 1 .. n - 1 : src[j] = m
    <3>1. \A j \in 1 .. n - 1 : src[j] \in DOMAIN active /\ src[j] # i
      BY <1>1
    <3>2. \A j, k \in 1 .. n - 1 : src[j] = src[k] => j = k
      BY <1>1
    <3>3. ASSUME NEW m \in DOMAIN active, m # i PROVE \E j \in 1 .. n - 1 : src[j] = m
      <4>1. CASE m = n
        <5>1. i \in 1 .. n - 1 /\ src[i] = m
          BY <1>1, <3>3, <4>1
        <5> QED
          BY <5>1
      <4>2. CASE m # n
        <5>1. m \in 1 .. n - 1 /\ src[m] = m
          BY <1>1, <3>3, <4>2
        <5> QED
          BY <5>1
      <4> QED
        BY <4>1, <4>2
    <3> QED
      BY <3>1, <3>2, <3>3
  <2>3. DOMAIN active' = 1 .. n - 1 /\ \A j \in 1 .. n - 1 : active'[j] = active[src[j]]
    BY <2>1
  <2>4. active' \in Seq(Rec)
    <3>1. n - 1 \in Nat
      BY <1>1
    <3> HIDE DEF src
    <3> QED
      BY <1>2, <2>1, <2>2, <3>1
  <2> HIDE DEF src, n
  <2>5. ToSet(active[i].keys) = {p}
    BY <1>4, <1>8 DEF ToSet
  <2>6. InCombos' = InCombos \ {p}
    <3>1. ASSUME NEW q \in InCombos' PROVE q \in InCombos \ {p}
      <4>1. PICK j \in 1 .. n - 1 : q \in ToSet(active'[j].keys)
        BY <1>6, <2>3, <3>1
      <4>2. src[j] \in DOMAIN active /\ src[j] # i /\ q \in ToSet(active[src[j]].keys)
        BY <2>2, <2>3, <4>1
      <4> QED
        BY <1>5, <4>2 DEF InCombos
    <3>2. ASSUME NEW q \in InCombos, q # p PROVE q \in InCombos'
      <4>1. PICK m \in DOMAIN active : q \in ToSet(active[m].keys)
        BY <3>2 DEF InCombos
      <4>2. m # i
        BY <2>5, <3>2, <4>1
      <4>3. PICK j \in 1 .. n - 1 : src[j] = m
        BY <2>2, <4>2
      <4> QED
        BY <1>6, <2>3, <4>1, <4>3
    <3> QED
      BY <3>1, <3>2
  <2>7. CombosShareNoKey'
    <3> SUFFICES ASSUME NEW j \in DOMAIN active', NEW k \in DOMAIN active',
                        NEW a \in DOMAIN active'[j].keys, NEW b \in DOMAIN active'[k].keys,
                        active'[j].keys[a] = active'[k].keys[b]
                 PROVE  j = k /\ a = b
      BY DEF CombosShareNoKey
    <3>1. /\ j \in 1 .. n - 1 /\ k \in 1 .. n - 1
          /\ src[j] \in DOMAIN active /\ src[k] \in DOMAIN active
          /\ active'[j] = active[src[j]] /\ active'[k] = active[src[k]]
      BY <2>2, <2>3
    <3>2. src[j] = src[k] /\ a = b
      <4>1. /\ a \in DOMAIN active[src[j]].keys /\ b \in DOMAIN active[src[k]].keys
            /\ active[src[j]].keys[a] = active[src[k]].keys[b]
        BY <3>1
      <4> QED
        BY <1>1, <3>1, <4>1 DEF CombosShareNoKey
    <3> QED
      BY <2>2, <3>1, <3>2
  <2> QED
    BY <2>4, <2>6, <2>7 DEF Rec
<1> QED
  BY <1>7, <1>8

LEMMA ReleaseComboKeyStep == KeyInv /\ ReleaseComboKey => KeyInv'
<1> SUFFICES ASSUME KeyInv, ReleaseComboKey PROVE KeyInv'
  OBVIOUS
<1> DEFINE p == Head(agenda).pos
           i == Min(HolderOf(p))
           rest == Without(active[i].keys, p)
<1>1. agenda # <<>> /\ Head(agenda).do = "upRest" /\ HolderOf(p) # {}
  BY DEF ReleaseComboKey, Doing
<1>2. /\ active' = IF rest = <<>> THEN Deactivate(i) ELSE [active EXCEPT ![i].keys = rest]
      /\ agenda' = Tail(agenda)
      /\ UNCHANGED <<build, pressed, candidates, fully, now, held, passed>>
  BY DEF ReleaseComboKey, settings, outside
<1>3. /\ LetsGo(Head(agenda)) /\ ~Raises(Head(agenda))
  BY <1>1, HeadFacts, CallParts DEF KeyInv, Types, Raises
<1>4. /\ agenda' = <<>> /\ LetGo(agenda) = {p} /\ Raised(agenda) = {}
      /\ Raised(agenda') = {} /\ LetGo(agenda') = {} /\ RaisedOnce(agenda') /\ UpLast(agenda')
  BY <1>1, <1>2, <1>3, HeadFacts, NoCall
<1>5. i \in DOMAIN active /\ p \in ToSet(active[i].keys) /\ p \in InCombos
  <2>1. HolderOf(p) \in SUBSET Nat
    BY DEF HolderOf, KeyInv, Types
  <2>2. i \in HolderOf(p)
    <3> HIDE DEF p
    <3> QED
      BY <1>1, <2>1, MinIs
  <2> HIDE DEF p, i
  <2> QED
    BY <2>2 DEF HolderOf, InCombos
<1>6. rest = Without(active[i].keys, p)
  OBVIOUS
<1> HIDE DEF p, i, rest
<1>7. /\ active' \in Seq([combo : Combo, keys : Seq(Position)])
      /\ InCombos' = InCombos \ {p}
      /\ CombosShareNoKey'
  BY <1>2, <1>5, <1>6, ComboLetsGo
<1>8. Captured' = Captured
  BY <1>2 DEF Captured
<1>9. Types'
  <2>1. agenda' \in Seq(Call)
    BY <1>4
  <2> QED
    BY <1>2, <1>7, <2>1, SameKeyboard DEF KeyInv, Types
<1>10. OnePlace'
  BY <1>2, <1>4, <1>5, <1>7, <1>8 DEF KeyInv, OnePlace, HeldOnce
<1>11. UpAlone'
  BY <1>4 DEF UpAlone
<1> QED
  BY <1>4, <1>9, <1>10, <1>11 DEF KeyInv

LEMMA UpAfterCleanupStep == KeyInv /\ UpAfterCleanup => KeyInv'
<1> SUFFICES ASSUME KeyInv, UpAfterCleanup PROVE KeyInv'
  OBVIOUS
<1> DEFINE p == Head(agenda).pos
           n == Head(agenda).released
<1>1. agenda # <<>> /\ Head(agenda).do = "upRest" /\ HolderOf(p) = {}
  BY DEF UpAfterCleanup, Doing
<1>2. /\ p \in Position /\ n \in Nat /\ LetsGo(Head(agenda)) /\ ~Raises(Head(agenda))
  BY <1>1, HeadFacts, CallParts DEF KeyInv, Types, Raises
<1>3. UNCHANGED <<build, pressed, candidates, fully, active, now, held>>
  BY DEF UpAfterCleanup, settings, engine, outside
<1>4. candidates' \subseteq Combo /\ fully' \in Combo \cup {None}
  BY <1>3 DEF KeyInv, Types
<1>5. CASE n > 1
  <2>1. agenda' = <<Up(p)>> \o Tail(agenda) /\ passed' = passed
    BY <1>5 DEF UpAfterCleanup
  <2>2. Up(p) \in Call /\ Up(p).do # "upRest" /\ LetsGo(Up(p)) /\ ~Raises(Up(p)) /\ Up(p).pos = p
    BY <1>1, <1>2, CallsAre DEF Up, LetsGo, Raises
  <2>3. Raised(<<Up(p)>>) = Raised(<<Head(agenda)>>) /\ LetGo(<<Up(p)>>) = LetGo(<<Head(agenda)>>)
    BY <1>2, <2>2, OneCall
  <2> QED
    BY <1>1, <1>3, <1>4, <2>1, <2>2, <2>3, CallReplaced
<1>6. CASE ~(n > 1)
  <2>1. agenda' = Tail(agenda) /\ passed' = passed \ {p}
    BY <1>6 DEF UpAfterCleanup
  <2>2. /\ agenda' = <<>> /\ LetGo(agenda) = {p} /\ Raised(agenda) = {}
        /\ Raised(agenda') = {} /\ LetGo(agenda') = {} /\ RaisedOnce(agenda') /\ UpLast(agenda')
    BY <1>1, <1>2, <2>1, HeadFacts, NoCall
  <2>3. pressed = <<>>
    <3>1. 1 \in DOMAIN agenda /\ agenda[1].do = "upRest" /\ agenda[1].released <= 1
      BY <1>1, <1>2, <1>6 DEF KeyInv, Types
    <3> QED
      BY <3>1 DEF KeyInv, UpAlone
  <2>4. Captured = {} /\ Captured' = {} /\ PressedOnce(pressed')
    BY <1>3, <2>3 DEF Captured, PressedOnce
  <2>5. p \notin InCombos
    BY <1>1 DEF HolderOf, InCombos
  <2>6. InCombos' = InCombos /\ (CombosShareNoKey <=> CombosShareNoKey')
    BY <1>3 DEF InCombos, CombosShareNoKey
  <2>7. agenda' \in Seq(Call)
    BY <2>2
  <2>8. Types'
    BY <1>3, <2>1, <2>7, SameKeyboard DEF KeyInv, Types
  <2>9. OnePlace'
    BY <1>3, <2>1, <2>2, <2>4, <2>5, <2>6 DEF KeyInv, OnePlace, HeldOnce
  <2>10. UpAlone'
    BY <2>2 DEF UpAlone
  <2> QED
    BY <2>2, <2>8, <2>9, <2>10 DEF KeyInv
<1> QED
  BY <1>5, <1>6

\* Between two events: the listener is called, or the timeout task runs.
LEMMA FromIdle ==
  ASSUME KeyInv, Idle
  PROVE  Raised(agenda) = {} /\ LetGo(agenda) = {}
  BY NoCall DEF Idle

LEMMA TimeoutStep == KeyInv /\ TimeoutHandler => KeyInv'
<1> SUFFICES ASSUME KeyInv, TimeoutHandler PROVE KeyInv'
  OBVIOUS
<1>1. Idle /\ UNCHANGED <<build, pressed, fully, active, now, held, passed>>
  BY DEF TimeoutHandler, settings, outside
<1>2. candidates' \subseteq Combo
  BY DEF TimeoutHandler, KeyInv, Types, InTime
<1>3. agenda' \in {<<>>, <<Update>>, <<Cleanup(NoKey), Update>>}
  BY DEF TimeoutHandler, Idle
<1>4. /\ ~Raises(Update) /\ ~LetsGo(Update) /\ Update.do # "upRest" /\ Update \in Call
      /\ ~Raises(Cleanup(NoKey)) /\ ~LetsGo(Cleanup(NoKey)) /\ Cleanup(NoKey).do # "upRest"
      /\ Cleanup(NoKey) \in Call
  BY CallsAre DEF Update, Cleanup, Raises, LetsGo
<1>5. /\ agenda' \in Seq(Call)
      /\ \A i \in DOMAIN agenda' : ~Raises(agenda'[i]) /\ ~LetsGo(agenda'[i]) /\ agenda'[i].do # "upRest"
  <2>1. CASE agenda' = <<>>
    BY <2>1
  <2>2. CASE agenda' = <<Update>>
    BY <1>4, <2>2
  <2>3. CASE agenda' = <<Cleanup(NoKey), Update>>
    BY <1>4, <2>3
  <2> QED
    BY <1>3, <2>1, <2>2, <2>3
<1>6. /\ Raised(agenda') = {} /\ LetGo(agenda') = {} /\ RaisedOnce(agenda') /\ UpLast(agenda')
  BY <1>5 DEF Raised, LetGo, RaisedOnce, UpLast
<1>7. UpAlone'
  BY <1>5 DEF UpAlone
<1>8. Captured' = Captured /\ InCombos' = InCombos /\ (CombosShareNoKey <=> CombosShareNoKey')
  BY <1>1 DEF Captured, InCombos, CombosShareNoKey
<1>9. Types'
  BY <1>1, <1>2, <1>5, SameKeyboard DEF KeyInv, Types
<1>10. OnePlace'
  BY <1>1, <1>6, <1>8, FromIdle DEF KeyInv, OnePlace, HeldOnce
<1> QED
  BY <1>6, <1>7, <1>9, <1>10 DEF KeyInv

LEMMA KeyDownStep == ASSUME KeyInv, NEW p \in Position, KeyDown(p) PROVE KeyInv'
<1> DEFINE c == Down(p, now)
<1>1. /\ Idle /\ p \notin ToSet(held) /\ held' = Append(held, p) /\ agenda' = <<c>>
      /\ UNCHANGED <<build, pressed, candidates, fully, active, now, passed>>
  BY DEF KeyDown, settings, engine
<1>2. c \in Call /\ Raises(c) /\ ~LetsGo(c) /\ c.pos = p /\ c.do # "upRest"
  BY CallsAre DEF Down, Raises, LetsGo, KeyInv, Types
<1> HIDE DEF c
<1>3. /\ Raised(agenda') = {p} /\ LetGo(agenda') = {} /\ RaisedOnce(agenda') /\ UpLast(agenda')
  BY <1>1, <1>2, OneCall
<1>4. /\ held' \in Seq(Position) /\ Len(held') = Len(held) + 1 /\ Len(held) \in Nat
      /\ DOMAIN held = 1 .. Len(held) /\ DOMAIN held' = 1 .. Len(held) + 1
      /\ \A i \in 1 .. Len(held) : held'[i] = held[i]
      /\ held'[Len(held) + 1] = p
  BY <1>1 DEF KeyInv, Types
<1>5. ToSet(held') = ToSet(held) \cup {p}
  <2>1. ASSUME NEW q \in ToSet(held') PROVE q \in ToSet(held) \cup {p}
    <3>1. PICK i \in 1 .. Len(held) + 1 : q = held'[i]
      BY <1>4, <2>1 DEF ToSet
    <3>2. i = Len(held) + 1 \/ i \in 1 .. Len(held)
      BY <1>4
    <3> QED
      BY <1>4, <3>1, <3>2 DEF ToSet
  <2>2. ASSUME NEW i \in 1 .. Len(held) PROVE held[i] \in ToSet(held')
    <3>1. i \in DOMAIN held' /\ held'[i] = held[i]
      BY <1>4
    <3> QED
      BY <3>1 DEF ToSet
  <2>3. p \in ToSet(held')
    <3>1. Len(held) + 1 \in DOMAIN held'
      BY <1>4
    <3> QED
      BY <1>4, <3>1 DEF ToSet
  <2> QED
    BY <1>4, <2>1, <2>2, <2>3 DEF ToSet
<1>6. HeldOnce'
  <2> SUFFICES ASSUME NEW i \in DOMAIN held', NEW j \in DOMAIN held', held'[i] = held'[j], i < j
               PROVE  FALSE
    BY <1>4 DEF HeldOnce
  <2>1. i \in 1 .. Len(held) /\ held'[i] = held[i]
    BY <1>4
  <2>2. CASE j = Len(held) + 1
    BY <1>1, <1>4, <2>1, <2>2 DEF ToSet
  <2>3. CASE j # Len(held) + 1
    <3>0. j \in 1 .. Len(held) /\ i # j
      BY <1>4, <2>3
    <3>1. j \in DOMAIN held /\ i \in DOMAIN held /\ held[i] = held[j] /\ i # j
      BY <1>4, <2>1, <3>0
    <3> QED
      BY <3>1 DEF KeyInv, OnePlace, HeldOnce
  <2> QED
    BY <2>2, <2>3
<1>7. Captured' = Captured /\ InCombos' = InCombos /\ (CombosShareNoKey <=> CombosShareNoKey')
  BY <1>1 DEF Captured, InCombos, CombosShareNoKey
<1>8. Types'
  <2>1. agenda' \in Seq(Call)
    BY <1>1, <1>2
  <2> QED
    BY <1>1, <1>4, <2>1, SameKeyboard DEF KeyInv, Types
<1>9. OnePlace'
  BY <1>1, <1>3, <1>5, <1>6, <1>7, FromIdle DEF KeyInv, OnePlace
<1>10. UpAlone'
  BY <1>1, <1>2 DEF UpAlone
<1> QED
  BY <1>3, <1>8, <1>9, <1>10 DEF KeyInv

LEMMA KeyUpStep == ASSUME KeyInv, NEW p \in Position, KeyUp(p) PROVE KeyInv'
<1> DEFINE c == Up(p)
<1>1. /\ Idle /\ p \in ToSet(held) /\ held' = Without(held, p) /\ agenda' = <<c>>
      /\ UNCHANGED <<build, pressed, candidates, fully, active, now, passed>>
  BY DEF KeyUp, settings, engine
<1>2. p # NoKey
  BY ComboAssumption DEF ComboAssumption, Position, KeyInv, Types
<1>3. c \in Call /\ ~Raises(c) /\ LetsGo(c) /\ c.pos = p /\ c.do # "upRest"
  BY <1>2, CallsAre DEF Up, Raises, LetsGo, KeyInv, Types
<1> HIDE DEF c
<1>4. /\ Raised(agenda') = {} /\ LetGo(agenda') = {p} /\ RaisedOnce(agenda') /\ UpLast(agenda')
  BY <1>1, <1>3, OneCall
<1>5. held' \in Seq(Position) /\ ToSet(held') = ToSet(held) \ {p} /\ HeldOnce'
  <2>1. held \in Seq(Position) /\ Distinct(held)
    BY DEF KeyInv, Types, OnePlace, HeldOnce, Distinct
  <2>2. /\ Without(held, p) \in Seq(Position) /\ ToSet(Without(held, p)) = ToSet(held) \ {p}
        /\ Distinct(Without(held, p))
    BY <1>1, <2>1, WithoutIs
  <2> QED
    BY <1>1, <2>2 DEF HeldOnce, Distinct
<1>6. Captured' = Captured /\ InCombos' = InCombos /\ (CombosShareNoKey <=> CombosShareNoKey')
  BY <1>1 DEF Captured, InCombos, CombosShareNoKey
<1>7. Types'
  <2>1. agenda' \in Seq(Call)
    BY <1>1, <1>3
  <2> QED
    BY <1>1, <1>5, <2>1, SameKeyboard DEF KeyInv, Types
<1>8. OnePlace'
  BY <1>1, <1>4, <1>5, <1>6, FromIdle DEF KeyInv, OnePlace
<1>9. UpAlone'
  BY <1>1, <1>3 DEF UpAlone
<1> QED
  BY <1>4, <1>7, <1>8, <1>9 DEF KeyInv

-----------------------------------------------------------------------------
(* The theorem. *)

LEMMA InitKeyInv == Init => KeyInv
<1> SUFFICES ASSUME Init PROVE KeyInv
  OBVIOUS
<1>1. /\ build \in Builds /\ pressed = <<>> /\ candidates = {} /\ fully = None /\ active = <<>>
      /\ agenda = <<>> /\ now = 1 /\ held = <<>> /\ passed = {}
  BY DEF Init
<1>2. Types
  BY <1>1 DEF Types
<1>3. Captured = {} /\ InCombos = {} /\ PressedOnce(pressed) /\ CombosShareNoKey /\ HeldOnce
  BY <1>1 DEF Captured, InCombos, PressedOnce, CombosShareNoKey, HeldOnce
<1>4. ToSet(held) = {}
  BY <1>1 DEF ToSet
<1>5. OnePlace /\ UpLast(agenda)
  BY <1>1, <1>3, <1>4, NoCall DEF OnePlace
<1>6. UpAlone
  BY <1>1 DEF UpAlone
<1> QED
  BY <1>2, <1>5, <1>6 DEF KeyInv

\* What changes no key, no call and no combo.
LEMMA KeysStay ==
  ASSUME KeyInv, now' \in Nat,
         UNCHANGED <<build, pressed, candidates, fully, active, agenda, held, passed>>
  PROVE  KeyInv'
<1>1. Captured' = Captured /\ InCombos' = InCombos /\ (CombosShareNoKey <=> CombosShareNoKey')
  BY DEF Captured, InCombos, CombosShareNoKey
<1>2. Types'
  BY SameKeyboard DEF KeyInv, Types
<1>3. OnePlace' /\ UpAlone'
  BY <1>1 DEF KeyInv, OnePlace, HeldOnce, UpAlone
<1> QED
  BY <1>2, <1>3 DEF KeyInv

LEMMA StepKeyInv == KeyInv /\ [Next]_vars => KeyInv'
<1> SUFFICES ASSUME KeyInv, [Next]_vars PROVE KeyInv'
  OBVIOUS
<1>1. CASE Work
  BY <1>1, DownIgnoredStep, PositionStateDownStep, BubbleDownStep, CleanupOnlyStep, ActivateComboStep,
     ActivateNoRoomStep, AfterNoRoomStep, PositionStateUpStep, ReleaseComboKeyStep, UpAfterCleanupStep,
     UpdateStep DEF Work
<1>2. CASE TimeoutHandler
  BY <1>2, TimeoutStep
<1>3. ASSUME NEW p \in Position, KeyDown(p) \/ KeyUp(p) PROVE KeyInv'
  BY <1>3, KeyDownStep, KeyUpStep
<1>4. CASE Tick
  BY <1>4, KeysStay DEF Tick, settings, engine, KeyInv, Types
<1>5. ASSUME NEW l \in Layer, SetLayer(l) PROVE KeyInv'
  BY <1>5, KeysStay DEF SetLayer, settings, engine, KeyInv, Types
<1>6. ASSUME NEW i \in Combo, NEW f, NEW v, CopyField(i, f, v) PROVE KeyInv'
  BY <1>6, KeysStay DEF CopyField, engine, outside, KeyInv, Types
<1>7. CASE UNCHANGED vars
  BY <1>7, KeysStay DEF vars, KeyInv, Types
<1> QED
  BY <1>1, <1>2, <1>3, <1>4, <1>5, <1>6, <1>7 DEF Next

\* No key press is lost, doubled or made up by capturing it, raising it again,
\* giving it to a combo or timing it out (runtime_combo.c): between events each
\* key that is down is in one place, for any keyboard, combos and edits.
THEOREM NoKeyIsLost == Spec => []KeysConserved
<1>1. KeyInv => KeysConserved
  <2> SUFFICES ASSUME KeyInv, Idle PROVE KeysConserved
    BY DEF KeysConserved
  <2> QED
    BY FromIdle DEF KeyInv, OnePlace, PressedOnce, KeysConserved
<1> QED
  BY <1>1, InitKeyInv, StepKeyInv, PTL DEF Spec

-----------------------------------------------------------------------------
(* While no combo is completed with active_combos full, a combo takes the    *)
(* keys it is made of: the candidates all have every key captured so far,    *)
(* and the keys of the combo that is complete are the first ones captured.   *)

Fits ==
    /\ pressed = <<>> => candidates = {} /\ fully = None
    /\ \A c \in candidates : Captured \subseteq Keys[c]
    /\ fully # None =>
        /\ Cardinality(Keys[fully]) <= Len(pressed)
        /\ \A j \in 1 .. Cardinality(Keys[fully]) : pressed[j].pos \in Keys[fully]

Swallowed ==
    \A i \in DOMAIN active :
        ToSet(active[i].keys) \subseteq Keys[active[i].combo] /\ active[i].keys # <<>>

\* Elements of a sequence that has each once are as many as it is long.
LEMMA Counted ==
  ASSUME NEW S, NEW s \in Seq(S), Distinct(s)
  PROVE  IsFiniteSet(ToSet(s)) /\ Cardinality(ToSet(s)) = Len(s)
<1>1. Len(s) \in Nat /\ DOMAIN s = 1 .. Len(s)
  OBVIOUS
<1>2. s \in [1 .. Len(s) -> ToSet(s)]
  BY <1>1 DEF ToSet
<1>3. s \in Surjection(1 .. Len(s), ToSet(s)) /\ s \in Injection(1 .. Len(s), ToSet(s))
  BY <1>1, <1>2 DEF ToSet, Distinct, Surjection, Injection, IsInjective
<1>4. IsFiniteSet(1 .. Len(s)) /\ Cardinality(1 .. Len(s)) = Len(s)
  BY <1>1, FS_Interval
<1> QED
  BY <1>3, <1>4, FS_Surjection

\* Every combo has a key, and pressed_keys room for the longest combo.
LEMMA CombosHaveKeys ==
  ASSUME build \in Builds, NEW c \in Combo
  PROVE  /\ IsFiniteSet(Keys[c]) /\ Keys[c] # {} /\ Keys[c] \subseteq Position
         /\ Cardinality(Keys[c]) \in Nat /\ Cardinality(Keys[c]) # 0
<1>1. IsFiniteSet(build.positions) /\ Keys[c] \subseteq build.positions /\ Keys[c] # {}
  BY ComboAssumption DEF ComboAssumption, Keys
<1>2. IsFiniteSet(Keys[c])
  BY <1>1, FS_Subset
<1> QED
  BY <1>1, <1>2, FS_CardinalityType, FS_EmptySet DEF Position

LEMMA RoomForAKey ==
  ASSUME build \in Builds
  PROVE  /\ MaxComboKeys \in Nat /\ MaxComboKeys # 0
         /\ \A c \in Combo : Cardinality(Keys[c]) <= MaxComboKeys
<1> DEFINE sizes == {Cardinality(Keys[i]) : i \in Combo}
           most == Cardinality(build.positions)
           short == {most - x : x \in sizes}
<1>1. IsFiniteSet(build.positions) /\ most \in Nat
  BY ComboAssumption, FS_CardinalityType DEF ComboAssumption
<1>2. 1 \in Combo
  BY ComboAssumption DEF ComboAssumption, Combo
<1>3. \A x \in sizes : x \in Nat /\ x # 0 /\ x <= most
  <2> SUFFICES ASSUME NEW i \in Combo
               PROVE  LET x == Cardinality(Keys[i]) IN x \in Nat /\ x # 0 /\ x <= most
    OBVIOUS
  <2>1. Keys[i] \in SUBSET build.positions
    BY CombosHaveKeys DEF Position
  <2>2. Cardinality(Keys[i]) <= most
    BY <1>1, <2>1, FS_Subset
  <2> QED
    BY <2>2, CombosHaveKeys
<1>4. sizes # {}
  BY <1>2
<1> HIDE DEF sizes, most
<1>5. short \in SUBSET Nat /\ short # {}
  BY <1>1, <1>3, <1>4
<1>6. Min(short) \in short /\ \A y \in short : Min(short) <= y
  <2> HIDE DEF short
  <2> QED
    BY <1>5, MinIs
<1>7. PICK m \in sizes : Min(short) = most - m
  BY <1>6
<1>8. \A x \in sizes : m >= x
  <2> SUFFICES ASSUME NEW x \in sizes PROVE m >= x
    OBVIOUS
  <2>1. most - m <= most - x
    BY <1>6, <1>7
  <2> QED
    BY <1>1, <1>3, <2>1
<1>9. Max(sizes) \in sizes /\ \A x \in sizes : Max(sizes) >= x
  BY <1>8 DEF Max
<1>10. MaxComboKeys \in sizes /\ \A x \in sizes : MaxComboKeys >= x
  BY <1>9 DEF sizes, MaxComboKeys
<1>11. \A c \in Combo : Cardinality(Keys[c]) \in sizes
  BY DEF sizes
<1> QED
  BY <1>3, <1>10, <1>11

\* Steps that touch neither the keys captured nor the candidates.
LEMMA FitsStays ==
  ASSUME Fits, UNCHANGED <<build, pressed, candidates, fully>>
  PROVE  Fits'
  BY DEF Fits, Captured, Keys

LEMMA FitsDown == KeyInv /\ Fits /\ PositionStateDown => Fits'
<1> SUFFICES ASSUME KeyInv, Fits, PositionStateDown PROVE Fits'
  OBVIOUS
<1> DEFINE e == Head(agenda)
           first == FirstCandidates(e.pos, e.at)
           left == IF pressed = <<>> THEN candidates \cup first
                   ELSE InTime(candidates, e.at) \cap Lookup(e.pos)
           k == [pos |-> e.pos, at |-> e.at]
           full == Len(pressed) = MaxComboKeys
           captured == IF full THEN pressed ELSE Append(pressed, k)
           complete == left # {} /\ Cardinality(Keys[Min(left)]) = Len(captured)
<1>1. /\ candidates' = left /\ pressed' = captured /\ fully' = (IF complete THEN Min(left) ELSE fully)
      /\ build' = build /\ Keys' = Keys
  BY DEF PositionStateDown, settings, Keys
<1>2. /\ pressed \in Seq(Press) /\ Len(pressed) \in Nat /\ DOMAIN pressed = 1 .. Len(pressed)
      /\ build \in Builds /\ candidates \subseteq Combo
      /\ Len(Append(pressed, k)) = Len(pressed) + 1
      /\ \A j \in 1 .. Len(pressed) : Append(pressed, k)[j] = pressed[j]
      /\ Append(pressed, k)[Len(pressed) + 1] = k
      /\ DOMAIN Append(pressed, k) = 1 .. Len(pressed) + 1
  BY DEF KeyInv, Types
<1>3. \A c \in left : e.pos \in Keys[c] /\ c \in Combo /\ Captured \subseteq Keys[c]
  <2>1. \A c \in first : e.pos \in Keys[c] /\ c \in Combo
    BY DEF FirstCandidates, Lookup
  <2>2. CASE pressed = <<>>
    <3>1. candidates = {} /\ Captured = {}
      BY <2>2 DEF Fits, Captured
    <3> QED
      BY <2>1, <2>2, <3>1
  <2>3. CASE pressed # <<>>
    <3>1. left \subseteq candidates /\ \A c \in left : e.pos \in Keys[c]
      BY <2>3 DEF InTime, Lookup
    <3> HIDE DEF left
    <3> QED
      BY <1>2, <3>1 DEF Fits
  <2> QED
    BY <2>2, <2>3
<1>4. captured # <<>>
  <2>1. CASE full
    BY <1>2, <2>1, RoomForAKey
  <2>2. CASE ~full
    BY <1>2, <2>2
  <2> QED
    BY <2>1, <2>2
<1>5. \A j \in DOMAIN captured : captured[j].pos \in Captured \cup {e.pos}
  BY <1>2 DEF Captured
<1>6. /\ Len(captured) >= Len(pressed) /\ Len(captured) \in Nat
      /\ DOMAIN captured = 1 .. Len(captured)
      /\ \A j \in 1 .. Len(pressed) : captured[j] = pressed[j]
  BY <1>2
<1>7. complete => Min(left) \in left
  <2>1. left \in SUBSET Nat
    BY <1>3, ComboAssumption DEF ComboAssumption, Combo
  <2> HIDE DEF left
  <2> QED
    BY <2>1, MinIs
<1>8. complete => Cardinality(Keys[Min(left)]) = Len(captured)
  OBVIOUS
<1>9. fully # None => fully \in Combo
  BY DEF KeyInv, Types
<1> HIDE DEF e, first, left, k, full, captured, complete
<1>10. \A c \in candidates' : Captured' \subseteq Keys'[c]
  BY <1>1, <1>3, <1>5 DEF Captured
<1>11. ASSUME fully' # None
       PROVE  /\ Cardinality(Keys'[fully']) <= Len(pressed')
              /\ \A j \in 1 .. Cardinality(Keys'[fully']) : pressed'[j].pos \in Keys'[fully']
  <2>1. CASE complete
    <3>1. fully' \in left /\ Cardinality(Keys[fully']) = Len(captured)
      BY <1>1, <1>7, <1>8, <2>1
    <3>2. \A j \in DOMAIN captured : captured[j].pos \in Keys[fully']
      BY <1>3, <1>5, <3>1
    <3> QED
      BY <1>1, <1>6, <3>1, <3>2
  <2>2. CASE ~complete
    <3>1. fully' = fully /\ fully \in Combo
      BY <1>1, <1>9, <1>11, <2>2
    <3>2. /\ Cardinality(Keys[fully]) <= Len(pressed) /\ Cardinality(Keys[fully]) \in Nat
          /\ \A j \in 1 .. Cardinality(Keys[fully]) : pressed[j].pos \in Keys[fully]
      BY <1>2, <1>11, <3>1, CombosHaveKeys DEF Fits
    <3>3. \A j \in 1 .. Cardinality(Keys[fully]) : j \in 1 .. Len(pressed)
      BY <1>2, <3>2
    <3> QED
      BY <1>1, <1>2, <1>6, <3>1, <3>2, <3>3
  <2> QED
    BY <2>1, <2>2
<1> QED
  BY <1>1, <1>4, <1>10, <1>11 DEF Fits

\* No call but the innermost waits for a combo that found no room.
NoRest(s) == \A i \in DOMAIN s : s[i].do # "cleanupRest"

LEMMA NoRestJoined ==
  ASSUME NEW s \in Seq(Call), NEW r \in Seq(Call), NoRest(s), NoRest(r)
  PROVE  NoRest(s \o r)
<1> SUFFICES ASSUME NEW i \in DOMAIN (s \o r) PROVE (s \o r)[i].do # "cleanupRest"
  BY DEF NoRest
<1>1. CASE i <= Len(s)
  BY <1>1 DEF NoRest
<1>2. CASE ~(i <= Len(s))
  <2>1. i - Len(s) \in DOMAIN r /\ (s \o r)[i] = r[i - Len(s)]
    BY <1>2
  <2> QED
    BY <2>1 DEF NoRest
<1> QED
  BY <1>1, <1>2

LEMMA NoRestOne ==
  ASSUME NEW c \in Call, c.do # "cleanupRest"
  PROVE  <<c>> \in Seq(Call) /\ NoRest(<<c>>)
<1>1. \A x \in Call : <<x>> \in Seq(Call) /\ DOMAIN <<x>> = {1} /\ <<x>>[1] = x
  OBVIOUS
<1> QED
  BY <1>1 DEF NoRest

LEMMA NoRestTail ==
  ASSUME KeyInv, NoRest(agenda), agenda # <<>>
  PROVE  /\ Head(agenda) \in Call /\ Tail(agenda) \in Seq(Call) /\ NoRest(Tail(agenda))
         /\ Head(agenda).do # "cleanupRest"
<1>1. agenda \in Seq(Call)
  BY DEF KeyInv, Types
<1>2. \A i \in DOMAIN Tail(agenda) : i + 1 \in DOMAIN agenda /\ Tail(agenda)[i] = agenda[i + 1]
  BY <1>1
<1>3. 1 \in DOMAIN agenda /\ Head(agenda) = agenda[1]
  BY <1>1
<1> QED
  BY <1>1, <1>2, <1>3 DEF NoRest

\* cleanup lets keys go, and the release it was called for comes after them.
LEMMA NoRestReleased ==
  ASSUME KeyInv, NoRest(agenda), Doing("cleanup"),
         NEW keys \in Seq(Press), PressedOnce(keys), NEW n \in Nat,
         ReleasePressed(keys, Then(Head(agenda).pos, n, Tail(agenda)))
  PROVE  NoRest(agenda')
<1> DEFINE downs == [i \in 1 .. Len(keys) - 1 |-> Down(keys[i + 1].pos, keys[i + 1].at)]
           rest == Then(Head(agenda).pos, n, Tail(agenda))
           p == Head(agenda).pos
<1>1. agenda # <<>> /\ Head(agenda).do = "cleanup" /\ build \in Builds
  BY DEF Doing, KeyInv, Types
<1>2. agenda' = downs \o rest
  BY DEF ReleasePressed
<1>3. downs \in Seq(Call) /\ \A i \in DOMAIN downs : downs[i].do = "down"
  BY <1>1, RaisedAgain
<1>4. rest \in Seq(Call)
  BY <1>1, ThenIs
<1>5. NoRest(rest)
  <2>1. Tail(agenda) \in Seq(Call) /\ NoRest(Tail(agenda)) /\ p \in Position \cup {NoKey}
    BY <1>1, NoRestTail, CallParts DEF KeyInv, Types
  <2>2. CASE p = NoKey
    BY <2>1, <2>2 DEF Then
  <2>3. CASE p # NoKey
    <3>1. UpRest(p, n) \in Call /\ UpRest(p, n).do # "cleanupRest"
      BY <2>1, <2>3, CallsAre DEF UpRest
    <3>2. rest = <<UpRest(p, n)>> \o Tail(agenda)
      BY <2>3 DEF Then
    <3>3. <<UpRest(p, n)>> \in Seq(Call) /\ NoRest(<<UpRest(p, n)>>)
      <4> HIDE DEF p
      <4> QED
        BY <3>1, NoRestOne
    <3> QED
      BY <2>1, <3>2, <3>3, NoRestJoined
  <2> QED
    BY <2>2, <2>3
<1> HIDE DEF downs, rest
<1>6. NoRest(downs)
  BY <1>3 DEF NoRest
<1> QED
  BY <1>2, <1>3, <1>4, <1>5, <1>6, NoRestJoined

\* What position_state_down pushes waits for no room.
LEMMA NoRestDown == KeyInv /\ NoRest(agenda) /\ PositionStateDown => NoRest(agenda')
<1> SUFFICES ASSUME KeyInv, NoRest(agenda), PositionStateDown PROVE NoRest(agenda')
  OBVIOUS
<1> DEFINE e == Head(agenda)
           first == FirstCandidates(e.pos, e.at)
           left == IF pressed = <<>> THEN candidates \cup first
                   ELSE InTime(candidates, e.at) \cap Lookup(e.pos)
           matches == IF pressed = <<>> THEN first ELSE left
           full == Len(pressed) = MaxComboKeys
           captured == IF full THEN pressed ELSE Append(pressed, [pos |-> e.pos, at |-> e.at])
           complete == left # {} /\ Cardinality(Keys[Min(left)]) = Len(captured)
           over == matches = {} \/ (complete /\ Cardinality(matches) = 1)
           a == IF over THEN <<Cleanup(NoKey)>> ELSE <<>>
           b == IF full THEN <<Bubble(e.pos, e.at)>> ELSE <<>>
<1>1. agenda' = <<Update>> \o a \o b \o Tail(agenda)
  BY DEF PositionStateDown
<1>2. agenda # <<>> /\ e.do = "down"
  BY DEF PositionStateDown, Doing
<1> HIDE DEF first, left, matches, full, captured, complete, over
<1>3. /\ e \in Call /\ e.pos \in Position /\ e.at \in Nat /\ Tail(agenda) \in Seq(Call)
      /\ NoRest(Tail(agenda))
  <2>1. e \in Call /\ Raises(e) /\ Tail(agenda) \in Seq(Call) /\ NoRest(Tail(agenda))
    BY <1>2, NoRestTail DEF Raises
  <2>2. build \in Builds
    BY DEF KeyInv, Types
  <2> HIDE DEF e
  <2> QED
    BY <2>1, <2>2, CallParts
<1>4. /\ Update \in Call /\ Update.do # "cleanupRest"
      /\ Cleanup(NoKey) \in Call /\ Cleanup(NoKey).do # "cleanupRest"
      /\ Bubble(e.pos, e.at) \in Call /\ Bubble(e.pos, e.at).do # "cleanupRest"
  BY <1>3, CallsAre DEF Update, Cleanup, Bubble
<1>5. <<>> \in Seq(Call) /\ NoRest(<<>>)
  BY DEF NoRest
<1>6. a \in Seq(Call) /\ NoRest(a) /\ b \in Seq(Call) /\ NoRest(b)
      /\ <<Update>> \in Seq(Call) /\ NoRest(<<Update>>)
  <2> HIDE DEF e
  <2>1. a \in Seq(Call) /\ NoRest(a)
    BY <1>4, <1>5, NoRestOne
  <2>2. b \in Seq(Call) /\ NoRest(b)
    BY <1>4, <1>5, NoRestOne
  <2> QED
    BY <1>4, <2>1, <2>2, NoRestOne
<1> DEFINE u == <<Update>>
           t == Tail(agenda)
<1>7. agenda' = ((u \o a) \o b) \o t
  BY <1>1
<1>8. u \in Seq(Call) /\ NoRest(u) /\ t \in Seq(Call) /\ NoRest(t)
  BY <1>3, <1>6
<1> HIDE DEF u, t, a, b
<1>9. u \o a \in Seq(Call) /\ NoRest(u \o a)
  BY <1>6, <1>8, NoRestJoined
<1> DEFINE v == u \o a
<1>10. v \in Seq(Call) /\ NoRest(v) /\ agenda' = (v \o b) \o t
  BY <1>7, <1>9
<1> HIDE DEF v
<1>11. v \o b \in Seq(Call) /\ NoRest(v \o b)
  BY <1>6, <1>10, NoRestJoined
<1> DEFINE w == v \o b
<1>12. w \in Seq(Call) /\ NoRest(w) /\ agenda' = w \o t
  BY <1>10, <1>11
<1> HIDE DEF w
<1> QED
  BY <1>8, <1>12, NoRestJoined

LEMMA NoRestStep == KeyInv /\ NoRest(agenda) /\ [Next]_vars /\ ~ActivateNoRoom => NoRest(agenda')
<1> SUFFICES ASSUME KeyInv, NoRest(agenda), [Next]_vars, ~ActivateNoRoom PROVE NoRest(agenda')
  OBVIOUS
<1>1. NoRest(<<>>)
  BY DEF NoRest
<1>2. ASSUME agenda # <<>>, agenda' = Tail(agenda) PROVE NoRest(agenda')
  BY <1>2, NoRestTail
<1>3. ASSUME NEW c \in Call, c.do # "cleanupRest", agenda # <<>>, agenda' = <<c>> \o Tail(agenda)
      PROVE  NoRest(agenda')
  BY <1>3, NoRestOne, NoRestTail, NoRestJoined
<1>4. CASE DownIgnored \/ BubbleDown \/ UpdateTimeoutTask \/ ReleaseComboKey
  BY <1>2, <1>4 DEF DownIgnored, BubbleDown, UpdateTimeoutTask, ReleaseComboKey, Doing
<1>5. CASE PositionStateDown
  BY <1>5, NoRestDown
<1>6. CASE CleanupOnly
  <2>1. ReleasePressed(pressed, Then(Head(agenda).pos, Len(pressed), Tail(agenda))) /\ Doing("cleanup")
    BY <1>6 DEF CleanupOnly
  <2>2. pressed \in Seq(Press) /\ PressedOnce(pressed) /\ Len(pressed) \in Nat
    BY DEF KeyInv, Types, OnePlace
  <2> QED
    BY <2>1, <2>2, NoRestReleased
<1>7. CASE ActivateCombo
  <2> DEFINE others == SubSeq(pressed, Taken + 1, Len(pressed))
  <2>1. /\ ReleasePressed(others, Then(Head(agenda).pos, Len(others), Tail(agenda))) /\ Doing("cleanup")
        /\ active' = Append(active, Record) /\ fully # None
    BY <1>7 DEF ActivateCombo, Taken, Record
  <2>2. /\ Taken \in 0 .. Len(pressed) /\ Record \in [combo : Combo, keys : Seq(Position)]
        /\ Record.keys = [j \in 1 .. Taken |-> pressed[j].pos]
    BY <2>1, TakenKeys
  <2>3. others = SubSeq(pressed, Taken + 1, Len(pressed))
    OBVIOUS
  <2> HIDE DEF others
  <2>4. others \in Seq(Press) /\ PressedOnce(others)
    BY <2>1, <2>2, <2>3, ComboTakesKeys
  <2>5. Len(others) \in Nat
    BY <2>4
  <2> QED
    BY <2>1, <2>4, <2>5, NoRestReleased
<1>8. CASE AfterNoRoom
  <2>1. agenda # <<>> /\ Head(agenda).do = "cleanupRest"
    BY <1>8 DEF AfterNoRoom, Doing
  <2> QED
    BY <2>1, NoRestTail
<1>9. CASE PositionStateUp
  <2>1. agenda # <<>> /\ Head(agenda).do = "up" /\ agenda' = <<Cleanup(Head(agenda).pos)>> \o Tail(agenda)
    BY <1>9 DEF PositionStateUp, Doing
  <2>2. Head(agenda).pos \in Position
    BY <2>1, NoRestTail, CallParts DEF KeyInv, Types
  <2>3. Cleanup(Head(agenda).pos) \in Call /\ Cleanup(Head(agenda).pos).do # "cleanupRest"
    BY <2>2, CallsAre DEF Cleanup
  <2> QED
    BY <1>3, <2>1, <2>3
<1>10. CASE UpAfterCleanup
  <2>1. agenda # <<>> /\ Head(agenda).do = "upRest"
    BY <1>10 DEF UpAfterCleanup, Doing
  <2>2. Head(agenda).pos \in Position
    BY <2>1, NoRestTail, CallParts DEF KeyInv, Types
  <2>3. Up(Head(agenda).pos) \in Call /\ Up(Head(agenda).pos).do # "cleanupRest"
    BY <2>2, CallsAre DEF Up
  <2>4. agenda' = <<Up(Head(agenda).pos)>> \o Tail(agenda) \/ agenda' = Tail(agenda)
    BY <1>10 DEF UpAfterCleanup
  <2> QED
    BY <1>2, <1>3, <2>1, <2>3, <2>4
<1>11. CASE TimeoutHandler
  <2>1. agenda' \in {<<>>, <<Update>>, <<Cleanup(NoKey), Update>>}
    BY <1>11 DEF TimeoutHandler, Idle
  <2>2. Update.do # "cleanupRest" /\ Cleanup(NoKey).do # "cleanupRest"
    BY DEF Update, Cleanup
  <2>3. CASE agenda' = <<Update>>
    BY <2>2, <2>3 DEF NoRest
  <2>4. CASE agenda' = <<Cleanup(NoKey), Update>>
    BY <2>2, <2>4 DEF NoRest
  <2> QED
    BY <1>1, <2>1, <2>3, <2>4
<1>12. ASSUME NEW p \in Position, KeyDown(p) \/ KeyUp(p) PROVE NoRest(agenda')
  <2>1. agenda' = <<Down(p, now)>> \/ agenda' = <<Up(p)>>
    BY <1>12 DEF KeyDown, KeyUp
  <2>2. Down(p, now).do # "cleanupRest" /\ Up(p).do # "cleanupRest"
    BY DEF Down, Up
  <2> QED
    BY <2>1, <2>2 DEF NoRest
<1>13. ASSUME agenda' = agenda PROVE NoRest(agenda')
  BY <1>13 DEF NoRest
<1>14. ASSUME NEW l, SetLayer(l) PROVE NoRest(agenda')
  BY <1>13, <1>14 DEF SetLayer
<1>15. ASSUME NEW i, NEW f, NEW v, CopyField(i, f, v) PROVE NoRest(agenda')
  BY <1>13, <1>15 DEF CopyField
<1>16. CASE Tick \/ UNCHANGED vars
  BY <1>13, <1>16 DEF Tick, vars
<1> QED
  BY <1>4, <1>5, <1>6, <1>7, <1>8, <1>9, <1>10, <1>11, <1>12, <1>14, <1>15, <1>16 DEF Next, Work

\* No two records are the same combo's.
OneRecord == \A i, j \in DOMAIN active : active[i].combo = active[j].combo => i = j

LEMMA RecordsAre ==
  ASSUME KeyInv, NEW i \in DOMAIN active
  PROVE  active[i].keys \in Seq(Position) /\ active[i].combo \in Combo
<1> DEFINE Rec == [combo : Combo, keys : Seq(Position)]
<1>1. active \in Seq(Rec)
  BY DEF KeyInv, Types
<1> HIDE DEF Rec
<1>2. active[i] \in Rec
  BY <1>1
<1> QED
  BY <1>2 DEF Rec

\* All the keys of the combo that is complete are captured, so it is not active yet.
LEMMA FullyCaptured ==
  ASSUME KeyInv, Fits, Swallowed, fully # None
  PROVE  /\ Keys[fully] \subseteq Captured /\ Taken = Cardinality(Keys[fully])
         /\ \A i \in DOMAIN active : active[i].combo # fully
<1> DEFINE n == Cardinality(Keys[fully])
           s == [j \in 1 .. n |-> pressed[j].pos]
<1>1. /\ fully \in Combo /\ build \in Builds
      /\ pressed \in Seq(Press) /\ Len(pressed) \in Nat /\ DOMAIN pressed = 1 .. Len(pressed)
      /\ \A i, j \in DOMAIN pressed : pressed[i].pos = pressed[j].pos => i = j
      /\ Captured \cap InCombos = {}
  BY DEF KeyInv, Types, OnePlace, PressedOnce
<1>2. n \in Nat /\ IsFiniteSet(Keys[fully])
  BY <1>1, CombosHaveKeys
<1>3. n <= Len(pressed) /\ \A j \in 1 .. n : pressed[j].pos \in Keys[fully]
  BY DEF Fits
<1>4. Taken = n
  BY <1>1, <1>2, <1>3 DEF Taken, Min
<1> HIDE DEF n
<1>5. \A j \in 1 .. n : j \in 1 .. Len(pressed)
  BY <1>1, <1>2, <1>3
<1>6. s \in Seq(Keys[fully]) /\ Len(s) = n /\ DOMAIN s = 1 .. n /\ \A j \in 1 .. n : s[j] = pressed[j].pos
  BY <1>2, <1>3
<1> HIDE DEF s
<1>7. Distinct(s)
  BY <1>1, <1>5, <1>6 DEF Distinct
<1>8. Cardinality(ToSet(s)) = Cardinality(Keys[fully]) /\ ToSet(s) \subseteq Keys[fully]
  <2>1. Cardinality(ToSet(s)) = Len(s)
    BY <1>6, <1>7, Counted
  <2>2. \A j \in DOMAIN s : s[j] \in Keys[fully]
    BY <1>6
  <2> QED
    BY <1>6, <2>1, <2>2 DEF n, ToSet
<1>9. ToSet(s) = Keys[fully]
  BY <1>2, <1>8, FS_Subset
<1>10. Keys[fully] \subseteq Captured
  BY <1>1, <1>5, <1>6, <1>9 DEF ToSet, Captured
<1>11. ASSUME NEW i \in DOMAIN active, active[i].combo = fully PROVE FALSE
  <2>1. active[i].keys # <<>> /\ ToSet(active[i].keys) \subseteq Keys[fully] /\ active[i].keys \in Seq(Position)
    BY <1>11, RecordsAre DEF Swallowed
  <2>2. 1 \in DOMAIN active[i].keys
    BY <2>1
  <2>3. active[i].keys[1] \in InCombos /\ active[i].keys[1] \in Keys[fully]
    BY <2>1, <2>2 DEF InCombos, ToSet
  <2> QED
    BY <1>1, <1>10, <2>3
<1> QED
  BY <1>4, <1>10, <1>11 DEF n

TakesKeys == Fits /\ Swallowed /\ OneRecord

LEMMA TakesKeysStay ==
  ASSUME TakesKeys, UNCHANGED <<build, pressed, candidates, fully, active>>
  PROVE  TakesKeys'
  BY FitsStays DEF TakesKeys, Swallowed, OneRecord, Keys

\* After a cleanup nothing is captured.
LEMMA FitsCleaned ==
  ASSUME pressed' = <<>>, candidates' = {}, fully' = None
  PROVE  Fits'
  BY DEF Fits

LEMMA TakesKeysDown == KeyInv /\ TakesKeys /\ PositionStateDown => TakesKeys'
<1> SUFFICES ASSUME KeyInv, TakesKeys, PositionStateDown PROVE TakesKeys'
  OBVIOUS
<1>1. Fits'
  BY FitsDown DEF TakesKeys
<1>2. UNCHANGED <<build, active>>
  BY DEF PositionStateDown, settings
<1> QED
  BY <1>1, <1>2 DEF TakesKeys, Swallowed, OneRecord, Keys

LEMMA TakesKeysActivate == KeyInv /\ TakesKeys /\ ActivateCombo => TakesKeys'
<1> SUFFICES ASSUME KeyInv, TakesKeys, ActivateCombo PROVE TakesKeys'
  OBVIOUS
<1>1. /\ pressed' = <<>> /\ candidates' = {} /\ fully' = None /\ fully # None /\ build' = build
      /\ active' = Append(active, Record)
  BY DEF ActivateCombo, ReleasePressed, settings, Taken, Record
<1>2. /\ Taken \in 0 .. Len(pressed) /\ Record.keys = [j \in 1 .. Taken |-> pressed[j].pos]
      /\ Record.combo = fully
  BY <1>1, TakenKeys
<1>3. Taken = Cardinality(Keys[fully]) /\ \A i \in DOMAIN active : active[i].combo # fully
  BY <1>1, FullyCaptured DEF TakesKeys
<1>4. /\ Taken # 0 /\ \A j \in 1 .. Taken : pressed[j].pos \in Keys[fully]
  BY <1>1, <1>3, CombosHaveKeys DEF TakesKeys, Fits, KeyInv, Types
<1>5. ToSet(Record.keys) \subseteq Keys[fully] /\ Record.keys # <<>>
  <2> DEFINE k == Record.keys
  <2>1. DOMAIN k = 1 .. Taken /\ \A j \in 1 .. Taken : k[j] \in Keys[fully]
    BY <1>2, <1>4
  <2>2. 1 \in DOMAIN k
    BY <1>2, <1>4, <2>1
  <2> HIDE DEF k
  <2>3. ToSet(k) \subseteq Keys[fully]
    BY <2>1 DEF ToSet
  <2>4. k # <<>>
    BY <2>2
  <2> QED
    BY <2>3, <2>4 DEF k
<1>6. /\ active \in Seq([combo : Combo, keys : Seq(Position)])
      /\ Len(active) \in Nat /\ DOMAIN active = 1 .. Len(active)
      /\ Record \in [combo : Combo, keys : Seq(Position)]
  BY <1>1, TakenKeys DEF KeyInv, Types
<1>7. /\ DOMAIN active' = 1 .. Len(active) + 1
      /\ \A i \in DOMAIN active : active'[i] = active[i]
      /\ active'[Len(active) + 1] = Record
      /\ \A i \in DOMAIN active' : i = Len(active) + 1 \/ i \in DOMAIN active
  BY <1>1, <1>6
<1>8. Keys' = Keys
  BY <1>1 DEF Keys
<1>9. Swallowed'
  BY <1>2, <1>5, <1>7, <1>8 DEF TakesKeys, Swallowed
<1>10. OneRecord'
  BY <1>2, <1>3, <1>7 DEF TakesKeys, OneRecord
<1> QED
  BY <1>1, <1>9, <1>10, FitsCleaned DEF TakesKeys

LEMMA TakesKeysRelease == KeyInv /\ TakesKeys /\ ReleaseComboKey => TakesKeys'
<1> SUFFICES ASSUME KeyInv, TakesKeys, ReleaseComboKey PROVE TakesKeys'
  OBVIOUS
<1> DEFINE p == Head(agenda).pos
           i == Min(HolderOf(p))
           rest == Without(active[i].keys, p)
           Rec == [combo : Combo, keys : Seq(Position)]
<1>1. /\ HolderOf(p) # {}
      /\ active' = IF rest = <<>> THEN Deactivate(i) ELSE [active EXCEPT ![i].keys = rest]
      /\ UNCHANGED <<build, pressed, candidates, fully>>
  BY DEF ReleaseComboKey, settings
<1>2. i \in DOMAIN active /\ p \in ToSet(active[i].keys)
  <2>1. HolderOf(p) \in SUBSET Nat
    BY DEF HolderOf, KeyInv, Types
  <2>2. i \in HolderOf(p)
    <3> HIDE DEF p
    <3> QED
      BY <1>1, <2>1, MinIs
  <2> HIDE DEF p, i
  <2> QED
    BY <2>2 DEF HolderOf
<1>3. rest = Without(active[i].keys, p)
  OBVIOUS
<1> HIDE DEF p, i, rest
<1>4. /\ active \in Seq(Rec) /\ Len(active) \in Nat /\ DOMAIN active = 1 .. Len(active)
  BY DEF KeyInv, Types
<1> HIDE DEF Rec
<1>5. \A j \in DOMAIN active : active[j] \in Rec
  BY <1>4
<1>6. active[i].keys \in Seq(Position) /\ Distinct(active[i].keys)
  BY <1>2, <1>5 DEF KeyInv, OnePlace, CombosShareNoKey, Distinct, Rec
<1>7. ToSet(rest) \subseteq ToSet(active[i].keys)
  BY <1>2, <1>3, <1>6, WithoutIs
<1>8. Fits' /\ Keys' = Keys
  BY <1>1, FitsStays DEF TakesKeys, Keys
<1>9. CASE rest # <<>>
  <2>1. /\ DOMAIN active' = DOMAIN active
        /\ \A j \in DOMAIN active : active'[j].combo = active[j].combo
        /\ \A j \in DOMAIN active : j # i => active'[j].keys = active[j].keys
        /\ active'[i].keys = rest
    BY <1>1, <1>2, <1>4, <1>9, <1>5 DEF Rec
  <2>2. Swallowed'
    BY <1>2, <1>7, <1>8, <1>9, <2>1 DEF TakesKeys, Swallowed
  <2> QED
    BY <1>8, <2>1, <2>2 DEF TakesKeys, OneRecord
<1>10. CASE rest = <<>>
  <2> DEFINE n == Len(active)
             src == [j \in 1 .. n - 1 |-> IF j = i THEN n ELSE j]
  <2>1. active' = [j \in 1 .. n - 1 |-> active[src[j]]]
    BY <1>1, <1>10 DEF Deactivate
  <2>2. /\ \A j \in 1 .. n - 1 : src[j] \in DOMAIN active
        /\ \A j, k \in 1 .. n - 1 : src[j] = src[k] => j = k
    BY <1>2, <1>4
  <2> HIDE DEF src, n
  <2>3. DOMAIN active' = 1 .. n - 1 /\ \A j \in 1 .. n - 1 : active'[j] = active[src[j]]
    BY <2>1
  <2>4. Swallowed'
    BY <1>8, <2>2, <2>3 DEF TakesKeys, Swallowed
  <2>5. OneRecord'
    <3> SUFFICES ASSUME NEW j \in 1 .. n - 1, NEW k \in 1 .. n - 1, active'[j].combo = active'[k].combo
                 PROVE  j = k
      BY <2>3 DEF OneRecord
    <3>1. src[j] = src[k]
      BY <2>2, <2>3 DEF TakesKeys, OneRecord
    <3> QED
      BY <2>2, <3>1
  <2> QED
    BY <1>8, <2>4, <2>5 DEF TakesKeys
<1> QED
  BY <1>9, <1>10

LEMMA TakesKeysTimeout == KeyInv /\ TakesKeys /\ TimeoutHandler => TakesKeys'
<1> SUFFICES ASSUME KeyInv, TakesKeys, TimeoutHandler PROVE TakesKeys'
  OBVIOUS
<1>1. UNCHANGED <<build, pressed, fully, active>> /\ candidates' \subseteq candidates
  BY DEF TimeoutHandler, InTime, settings
<1>2. Fits'
  BY <1>1 DEF TakesKeys, Fits, Captured, Keys
<1> QED
  BY <1>1, <1>2 DEF TakesKeys, Swallowed, OneRecord, Keys

LEMMA StepTakesKeys ==
  KeyInv /\ TakesKeys /\ NoRest(agenda) /\ [Next]_vars /\ ~ActivateNoRoom => TakesKeys'
<1> SUFFICES ASSUME KeyInv, TakesKeys, NoRest(agenda), [Next]_vars, ~ActivateNoRoom PROVE TakesKeys'
  OBVIOUS
<1>1. ASSUME UNCHANGED <<build, pressed, candidates, fully, active>> PROVE TakesKeys'
  BY <1>1, TakesKeysStay
<1>2. CASE DownIgnored \/ BubbleDown \/ PositionStateUp \/ UpAfterCleanup \/ UpdateTimeoutTask
  BY <1>1, <1>2 DEF DownIgnored, BubbleDown, PositionStateUp, UpAfterCleanup, UpdateTimeoutTask, settings, engine
<1>3. CASE PositionStateDown
  BY <1>3, TakesKeysDown
<1>4. CASE CleanupOnly
  <2>1. pressed' = <<>> /\ candidates' = {} /\ fully' = None /\ UNCHANGED <<build, active>>
    BY <1>4 DEF CleanupOnly, ReleasePressed, settings
  <2> QED
    BY <2>1, FitsCleaned DEF TakesKeys, Swallowed, OneRecord, Keys
<1>5. CASE ActivateCombo
  BY <1>5, TakesKeysActivate
<1>6. CASE AfterNoRoom
  <2>1. agenda # <<>> /\ Head(agenda).do = "cleanupRest"
    BY <1>6 DEF AfterNoRoom, Doing
  <2> QED
    BY <2>1, NoRestTail
<1>7. CASE ReleaseComboKey
  BY <1>7, TakesKeysRelease
<1>8. CASE TimeoutHandler
  BY <1>8, TakesKeysTimeout
<1>9. ASSUME NEW p, KeyDown(p) \/ KeyUp(p) PROVE TakesKeys'
  BY <1>1, <1>9 DEF KeyDown, KeyUp, settings, engine
<1>10. CASE Tick
  BY <1>1, <1>10 DEF Tick, settings, engine
<1>11. ASSUME NEW l, SetLayer(l) PROVE TakesKeys'
  BY <1>1, <1>11 DEF SetLayer, settings, engine
<1>12. ASSUME NEW i, NEW f, NEW v, CopyField(i, f, v) PROVE TakesKeys'
  BY <1>1, <1>12 DEF CopyField, engine
<1>13. CASE UNCHANGED vars
  BY <1>1, <1>13 DEF vars
<1> QED
  BY <1>2, <1>3, <1>4, <1>5, <1>6, <1>7, <1>8, <1>9, <1>10, <1>11, <1>12, <1>13 DEF Next, Work

LEMMA InitTakesKeys == Init => TakesKeys /\ NoRest(agenda)
  BY DEF Init, TakesKeys, Fits, Swallowed, OneRecord, NoRest, Captured

LEMMA TheyHoldTheirKeys == KeyInv /\ TakesKeys => CombosHoldTheirKeys
<1> SUFFICES ASSUME KeyInv, TakesKeys, NEW i \in DOMAIN active
             PROVE  /\ ToSet(active[i].keys) \subseteq Keys[active[i].combo]
                    /\ Len(active[i].keys) = Cardinality(ToSet(active[i].keys))
                    /\ active[i].keys # <<>>
  BY DEF CombosHoldTheirKeys
<1>1. Distinct(active[i].keys)
  BY DEF KeyInv, OnePlace, CombosShareNoKey, Distinct
<1>2. Len(active[i].keys) = Cardinality(ToSet(active[i].keys))
  BY <1>1, RecordsAre, Counted
<1> QED
  BY <1>2 DEF TakesKeys, Swallowed

\* As long as no combo is completed while active_combos is full
\* (activate_combo, runtime_combo.c), each active combo holds keys it is made
\* of and no other, each once, whatever is edited, captured or raised again.
THEOREM CombosTakeTheirKeys ==
  Spec /\ [][~ActivateNoRoom]_vars => []CombosHoldTheirKeys
<1> DEFINE I == KeyInv /\ TakesKeys /\ NoRest(agenda)
<1>1. Init => I
  BY InitKeyInv, InitTakesKeys
<1>2. I /\ [Next]_vars /\ [~ActivateNoRoom]_vars => I'
  <2> SUFFICES ASSUME I, [Next]_vars, [~ActivateNoRoom]_vars PROVE I'
    OBVIOUS
  <2>1. CASE ~ActivateNoRoom
    BY <2>1, StepKeyInv, StepTakesKeys, NoRestStep
  <2>2. CASE UNCHANGED vars
    BY <2>2, KeysStay, TakesKeysStay DEF vars, NoRest, KeyInv, Types
  <2> QED
    BY <2>1, <2>2
<1>3. I => CombosHoldTheirKeys
  BY TheyHoldTheirKeys
<1> QED
  BY <1>1, <1>2, <1>3, PTL DEF Spec

\* One record to a combo, and none for the combo that is complete: with as many
\* records as there are combos there is room for it.
LEMMA RoomForEach ==
  ASSUME KeyInv, TakesKeys, MaxPressed >= Combos
  PROVE  ~ActivateNoRoom
<1> SUFFICES ASSUME fully # None, Len(active) = MaxPressed PROVE FALSE
  BY DEF ActivateNoRoom
<1> DEFINE n == Len(active)
           Rest == Combo \ {fully}
           f == [i \in 1 .. n |-> active[i].combo]
<1>1. n \in Nat /\ DOMAIN active = 1 .. n /\ fully \in Combo /\ Combos \in Nat
  BY ComboAssumption DEF ComboAssumption, KeyInv, Types
<1>2. \A i \in DOMAIN active : active[i].combo \in Rest
  BY RecordsAre, FullyCaptured DEF TakesKeys
<1>3. f \in Injection(1 .. n, Rest)
  BY <1>1, <1>2 DEF Injection, IsInjective, TakesKeys, OneRecord
<1>4. IsFiniteSet(Combo) /\ Cardinality(Combo) = Combos
  BY <1>1, FS_Interval DEF Combo
<1>5. IsFiniteSet(Rest) /\ Cardinality(Rest) = Combos - 1
  BY <1>1, <1>4, FS_RemoveElement
<1> HIDE DEF n, Rest, f
<1>6. IsFiniteSet(1 .. n) /\ Cardinality(1 .. n) = n
  <2>1. 1 \in Int /\ n \in Int
    BY <1>1
  <2>2. IsFiniteSet(1 .. n) /\ Cardinality(1 .. n) = IF 1 > n THEN 0 ELSE n - 1 + 1
    BY <2>1, FS_Interval
  <2> QED
    BY <1>1, <2>2
<1>7. n <= Combos - 1
  BY <1>3, <1>5, <1>6, FS_Injection
<1> QED
  BY <1>1, <1>7 DEF n

\* Where CONFIG_ZMK_COMBO_MAX_PRESSED_COMBOS is at least the number of combos,
\* active_combos is never full when a combo is completed, and each active combo
\* holds its own keys, each once.
THEOREM RoomForEveryCombo ==
  ASSUME \A b \in Builds : b.maxPressed >= Combos
  PROVE  Spec => []CombosHoldTheirKeys
<1> DEFINE I == KeyInv /\ TakesKeys /\ NoRest(agenda)
<1>1. Init => I
  BY InitKeyInv, InitTakesKeys
<1>2. I /\ [Next]_vars => I'
  <2> SUFFICES ASSUME I, [Next]_vars PROVE I'
    OBVIOUS
  <2>1. ~ActivateNoRoom
    BY RoomForEach DEF KeyInv, Types, MaxPressed
  <2> QED
    BY <2>1, StepKeyInv, StepTakesKeys, NoRestStep
<1>3. I => CombosHoldTheirKeys
  BY TheyHoldTheirKeys
<1> QED
  BY <1>1, <1>2, <1>3, PTL DEF Spec

-----------------------------------------------------------------------------
(* The behaviors: how often each is down is how many active combos want it   *)
(* down.  An edit may change that for a combo that is not active; one that   *)
(* rebinds an active combo or changes its kind of release may not.           *)

Bindings ==
    /\ DOMAIN params = Combo
    /\ \A c \in Combo : {"binding", "slow"} \subseteq DOMAIN params[c] /\ params[c].binding \in Behavior
    /\ DOMAIN on = Behavior

\* The record at place i keeps the behavior of its combo down.
Presses(i) ==
    LET c == active[i].combo IN
    params[c].slow \/ Len(active[i].keys) = Cardinality(Keys[c])

Pressing(b) == {i \in DOMAIN active : params[active[i].combo].binding = b /\ Presses(i)}

Follows == \A b \in Behavior \ {Unknown} : on[b] = Cardinality(Pressing(b))

RebindsActive ==
    \E i \in DOMAIN active :
        LET c == active[i].combo IN
        params'[c].binding # params[c].binding \/ params'[c].slow # params[c].slow

BehaviorsInv == Bindings /\ Follows

\* Steps that leave the records and, for their combos, the parameters.
LEMMA FollowsStays ==
  ASSUME KeyInv, Follows, ~RebindsActive, UNCHANGED <<build, active, on>>
  PROVE  Follows'
<1>1. Behavior' = Behavior /\ Keys' = Keys
  BY DEF Behavior, Edits, Keys
<1>2. \A i \in DOMAIN active :
          /\ params'[active[i].combo].binding = params[active[i].combo].binding
          /\ params'[active[i].combo].slow = params[active[i].combo].slow
  BY DEF RebindsActive
<1>3. \A i \in DOMAIN active : Presses(i)' <=> Presses(i)
  BY <1>1, <1>2 DEF Presses
<1>4. \A b : Pressing(b)' = Pressing(b)
  BY <1>2, <1>3 DEF Pressing
<1> QED
  BY <1>1, <1>4 DEF Follows

LEMMA BindingsStay ==
  ASSUME Bindings, UNCHANGED <<build, params>>, DOMAIN on' = DOMAIN on
  PROVE  Bindings'
<1>1. Behavior' = Behavior
  BY DEF Behavior, Edits
<1> QED
  BY <1>1 DEF Bindings

LEMMA BindingsEdited ==
  ASSUME Bindings, build' = build, on' = on, NEW i \in Combo, NEW f \in DOMAIN params[i], NEW v \in Edits[i][f],
         params' = [params EXCEPT ![i][f] = v]
  PROVE  Bindings'
<1>1. Behavior' = Behavior
  BY DEF Behavior, Edits
<1>2. /\ DOMAIN params' = Combo
      /\ \A c \in Combo : DOMAIN params'[c] = DOMAIN params[c]
      /\ \A c \in Combo : params'[c].binding \in {params[c].binding} \cup Edits[c].binding
  BY DEF Bindings
<1>3. \A c \in Combo : Edits[c].binding \subseteq Behavior
  BY DEF Behavior
<1> QED
  BY <1>1, <1>2, <1>3 DEF Bindings

\* What the press or release of a combo's behavior changes.
LEMMA InvokeIs ==
  ASSUME Bindings, NEW c \in Combo, NEW n \in Int, Invoke(c, n)
  PROVE  /\ DOMAIN on' = DOMAIN on
         /\ \A b \in Behavior \ {Unknown} : on'[b] = IF b = params[c].binding THEN on[b] + n ELSE on[b]
<1>1. params[c].binding \in Behavior /\ DOMAIN on = Behavior
  BY DEF Bindings
<1> QED
  BY <1>1 DEF Invoke

LEMMA PressingFinite ==
  ASSUME KeyInv, NEW b
  PROVE  IsFiniteSet(Pressing(b)) /\ Cardinality(Pressing(b)) \in Nat
<1>1. Len(active) \in Nat /\ DOMAIN active = 1 .. Len(active)
  BY DEF KeyInv, Types
<1>2. IsFiniteSet(DOMAIN active) /\ Pressing(b) \in SUBSET (DOMAIN active)
  BY <1>1, FS_Interval DEF Pressing
<1> HIDE DEF Pressing
<1> QED
  BY <1>2, FS_Subset, FS_CardinalityType

LEMMA FollowsActivate == KeyInv /\ TakesKeys /\ BehaviorsInv /\ ActivateCombo => BehaviorsInv'
<1> SUFFICES ASSUME KeyInv, TakesKeys, BehaviorsInv, ActivateCombo PROVE BehaviorsInv'
  OBVIOUS
<1>0. PICK m : m = Len(active) + 1
  OBVIOUS
<1> DEFINE n == Len(active)
           x == params[fully].binding
<1>1. /\ active' = Append(active, Record) /\ Invoke(fully, 1) /\ fully # None
      /\ UNCHANGED <<build, params>>
  BY DEF ActivateCombo, settings, Taken, Record
<1>2. /\ Taken \in 0 .. Len(pressed) /\ Record.keys = [j \in 1 .. Taken |-> pressed[j].pos]
      /\ Record.combo = fully /\ fully \in Combo /\ Taken = Cardinality(Keys[fully])
      /\ Record \in [combo : Combo, keys : Seq(Position)]
  BY <1>1, TakenKeys, FullyCaptured DEF TakesKeys, KeyInv, Types
<1>3. Len(Record.keys) = Taken
  BY <1>2
<1>4. /\ active \in Seq([combo : Combo, keys : Seq(Position)])
      /\ n \in Nat /\ DOMAIN active = 1 .. n /\ m = n + 1
  BY <1>0 DEF KeyInv, Types
<1>5. /\ DOMAIN active' = 1 .. m
      /\ \A i \in DOMAIN active : active'[i] = active[i]
      /\ active'[m] = Record
  BY <1>1, <1>2, <1>4
<1>6. Keys' = Keys /\ Behavior' = Behavior
  BY <1>1 DEF Keys, Behavior, Edits
<1>7. /\ DOMAIN on' = DOMAIN on
      /\ \A b \in Behavior \ {Unknown} : on'[b] = IF b = x THEN on[b] + 1 ELSE on[b]
  BY <1>1, <1>2, InvokeIs DEF BehaviorsInv
<1>8. \A i \in DOMAIN active : Presses(i)' <=> Presses(i)
  BY <1>1, <1>5, <1>6 DEF Presses
<1>9. Presses(m)'
  BY <1>2, <1>3, <1>5, <1>6 DEF Presses
<1> HIDE DEF n
<1>10. \A b : Pressing(b)' = IF b = x THEN Pressing(b) \cup {m} ELSE Pressing(b)
  <2>1. /\ \A i \in DOMAIN active : active'[i].combo = active[i].combo
        /\ active'[m].combo = fully /\ params' = params
    BY <1>1, <1>2, <1>5
  <2>2. DOMAIN active' = DOMAIN active \cup {m}
    BY <1>4, <1>5
  <2> SUFFICES ASSUME NEW b, NEW i PROVE i \in Pressing(b)' <=> i \in Pressing(b) \/ (b = x /\ i = m)
    OBVIOUS
  <2>3. i \in Pressing(b)' <=> i \in DOMAIN active' /\ params'[active'[i].combo].binding = b /\ Presses(i)'
    BY DEF Pressing
  <2>4. i \in Pressing(b) <=> i \in DOMAIN active /\ params[active[i].combo].binding = b /\ Presses(i)
    BY DEF Pressing
  <2>5. m \notin DOMAIN active
    BY <1>4
  <2> QED
    BY <1>8, <1>9, <2>1, <2>2, <2>3, <2>4, <2>5
<1>11. \A b : m \notin Pressing(b)
  BY <1>4 DEF Pressing
<1>12. Follows'
  <2> SUFFICES ASSUME NEW b \in Behavior \ {Unknown} PROVE on'[b] = Cardinality(Pressing(b)')
    BY <1>6 DEF Follows
  <2>1. on[b] = Cardinality(Pressing(b)) /\ IsFiniteSet(Pressing(b))
    BY PressingFinite DEF BehaviorsInv, Follows
  <2>2. Cardinality(Pressing(b) \cup {m}) = Cardinality(Pressing(b)) + 1
    BY <1>11, <2>1, FS_AddElement
  <2> HIDE DEF x
  <2> QED
    BY <1>7, <1>10, <2>1, <2>2
<1> QED
  BY <1>1, <1>7, <1>12, BindingsStay DEF BehaviorsInv

\* A combo lets go of key p, and of its behavior if it is time.
LEMMA FollowsLetGo ==
  ASSUME KeyInv, TakesKeys, BehaviorsInv, UNCHANGED <<build, params>>,
         NEW p, NEW i \in DOMAIN active, p \in ToSet(active[i].keys),
         NEW c, c = active[i].combo, NEW rest, rest = Without(active[i].keys, p),
         NEW lets \in BOOLEAN,
         lets <=> \/ params[c].slow /\ rest = <<>>
                  \/ ~params[c].slow /\ Len(active[i].keys) = Cardinality(Keys[c]),
         IF lets THEN Invoke(c, -1) ELSE on' = on,
         active' = IF rest = <<>> THEN Deactivate(i) ELSE [active EXCEPT ![i].keys = rest]
  PROVE  BehaviorsInv'
<1> DEFINE Rec == [combo : Combo, keys : Seq(Position)]
<1>1. active[i].keys \in Seq(Position) /\ c \in Combo /\ Distinct(active[i].keys)
  BY RecordsAre DEF KeyInv, OnePlace, CombosShareNoKey, Distinct
<1>2. rest \in Seq(Position) /\ Len(rest) = Len(active[i].keys) - 1
  BY <1>1, WithoutIs
<1>3. /\ Len(active[i].keys) \in Nat /\ Cardinality(Keys[c]) \in Nat
      /\ Len(active[i].keys) <= Cardinality(Keys[c])
  <2>1. Keys[c] \in SUBSET Position /\ IsFiniteSet(Keys[c]) /\ Cardinality(Keys[c]) \in Nat
    BY <1>1, CombosHaveKeys DEF KeyInv, Types
  <2>2. ToSet(active[i].keys) \in SUBSET Keys[c]
    BY DEF TakesKeys, Swallowed
  <2>3. Cardinality(ToSet(active[i].keys)) = Len(active[i].keys)
    BY <1>1, Counted
  <2>4. Cardinality(ToSet(active[i].keys)) <= Cardinality(Keys[c])
    BY <2>1, <2>2, FS_Subset
  <2> QED
    BY <1>1, <2>1, <2>3, <2>4
<1>4. Keys' = Keys /\ Behavior' = Behavior
  BY DEF Keys, Behavior, Edits
<1>5. /\ DOMAIN on' = DOMAIN on
      /\ \A b \in Behavior \ {Unknown} :
             on'[b] = IF lets /\ b = params[c].binding THEN on[b] - 1 ELSE on[b]
  <2>1. CASE lets
    <3>1. /\ DOMAIN on' = DOMAIN on
          /\ \A b \in Behavior \ {Unknown} : on'[b] = IF b = params[c].binding THEN on[b] + (-1) ELSE on[b]
      <4>1. Invoke(c, -1) /\ -1 \in Int
        BY <2>1
      <4> QED
        BY <1>1, <4>1, InvokeIs DEF BehaviorsInv
    <3> QED
      BY <2>1, <3>1
  <2>2. CASE ~lets
    BY <2>2
  <2> QED
    BY <2>1, <2>2
<1>6. Bindings'
  BY <1>5, BindingsStay DEF BehaviorsInv
<1>7. SUFFICES ASSUME NEW b \in Behavior \ {Unknown}
               PROVE  Cardinality(Pressing(b)') =
                          IF lets /\ b = params[c].binding THEN Cardinality(Pressing(b)) - 1
                                                           ELSE Cardinality(Pressing(b))
  <2>1. \A b \in Behavior \ {Unknown} : on[b] = Cardinality(Pressing(b))
    BY DEF BehaviorsInv, Follows
  <2> QED
    BY <1>4, <1>5, <1>6 DEF BehaviorsInv, Follows
<1>8. /\ IsFiniteSet(Pressing(b))
       /\ Cardinality(Pressing(b) \ {i}) = IF i \in Pressing(b) THEN Cardinality(Pressing(b)) - 1
                                           ELSE Cardinality(Pressing(b))
  BY PressingFinite, FS_RemoveElement
<1>9. /\ active \in Seq(Rec) /\ Len(active) \in Nat /\ DOMAIN active = 1 .. Len(active)
  BY DEF KeyInv, Types
<1> HIDE DEF Rec
<1>10. \A j \in DOMAIN active : active[j] \in Rec
  BY <1>9
<1>11. CASE rest # <<>>
  <2>1. /\ DOMAIN active' = DOMAIN active
        /\ \A j \in DOMAIN active : active'[j].combo = active[j].combo
        /\ \A j \in DOMAIN active : j # i => active'[j].keys = active[j].keys
        /\ active'[i].keys = rest
    BY <1>9, <1>10, <1>11 DEF Rec
  <2>2. \A j \in DOMAIN active : j # i => (Presses(j)' <=> Presses(j))
    BY <1>4, <2>1 DEF Presses
  <2>3. Presses(i)' <=> params[c].slow
    <3>1. Len(rest) # Cardinality(Keys[c])
      BY <1>2, <1>3
    <3> QED
      BY <1>4, <2>1, <3>1 DEF Presses
  <2>4. lets => Presses(i) /\ ~params[c].slow
    BY <1>11 DEF Presses
  <2>5. ~lets => (Presses(i) <=> params[c].slow)
    BY <1>11 DEF Presses
  <2>6. \A j \in DOMAIN active : j \in Pressing(b)' <=>
            active[j].combo \in Combo /\ params[active[j].combo].binding = b /\ Presses(j)'
    BY <2>1, RecordsAre DEF Pressing
  <2>7. Pressing(b)' = IF lets /\ b = params[c].binding THEN Pressing(b) \ {i} ELSE Pressing(b)
    <3>1. Pressing(b)' \subseteq DOMAIN active /\ Pressing(b) \subseteq DOMAIN active
      BY <2>1 DEF Pressing
    <3>2. \A j \in DOMAIN active : j \in Pressing(b) <=> params[active[j].combo].binding = b /\ Presses(j)
      BY DEF Pressing
    <3> QED
      BY <2>2, <2>3, <2>4, <2>5, <2>6, <3>1, <3>2, RecordsAre
  <2>8. lets /\ b = params[c].binding => i \in Pressing(b)
    BY <2>4 DEF Pressing
  <2> QED
    BY <1>8, <2>7, <2>8
<1>12. CASE rest = <<>>
  <2> DEFINE n == Len(active)
             src == [j \in 1 .. n - 1 |-> IF j = i THEN n ELSE j]
             f == [j \in Pressing(b)' |-> src[j]]
  <2>1. active' = [j \in 1 .. n - 1 |-> active[src[j]]]
    BY <1>12 DEF Deactivate
  <2>2. /\ \A j \in 1 .. n - 1 : src[j] \in DOMAIN active /\ src[j] # i
        /\ \A j, k \in 1 .. n - 1 : src[j] = src[k] => j = k
        /\ \A m \in DOMAIN active : m # i => \E j \in 1 .. n - 1 : src[j] = m
    <3>1. \A j \in 1 .. n - 1 : src[j] \in DOMAIN active /\ src[j] # i
      BY <1>9
    <3>2. \A j, k \in 1 .. n - 1 : src[j] = src[k] => j = k
      BY <1>9
    <3>3. ASSUME NEW m \in DOMAIN active, m # i PROVE \E j \in 1 .. n - 1 : src[j] = m
      <4>1. CASE m = n
        <5>1. i \in 1 .. n - 1 /\ src[i] = m
          BY <1>9, <3>3, <4>1
        <5> QED
          BY <5>1
      <4>2. CASE m # n
        <5>1. m \in 1 .. n - 1 /\ src[m] = m
          BY <1>9, <3>3, <4>2
        <5> QED
          BY <5>1
      <4> QED
        BY <4>1, <4>2
    <3> QED
      BY <3>1, <3>2, <3>3
  <2> HIDE DEF src, n
  <2>3. DOMAIN active' = 1 .. n - 1 /\ \A j \in 1 .. n - 1 : active'[j] = active[src[j]]
    BY <2>1
  <2>4. \A j \in 1 .. n - 1 : Presses(j)' <=> Presses(src[j])
    BY <1>4, <2>3 DEF Presses
  <2>5. \A j \in 1 .. n - 1 : j \in Pressing(b)' <=> src[j] \in Pressing(b)
    BY <2>2, <2>3, <2>4 DEF Pressing
  <2>6. Pressing(b)' \subseteq 1 .. n - 1 /\ Pressing(b) \subseteq DOMAIN active
    BY <2>3 DEF Pressing
  <2> DEFINE S == Pressing(b)'
             T == Pressing(b) \ {i}
  <2>7. \A j \in S : j \in 1 .. n - 1 /\ src[j] \in T
    BY <2>2, <2>5, <2>6
  <2>8. \A m \in T : \E j \in S : src[j] = m
    BY <2>2, <2>5, <2>6
  <2>9. IsFiniteSet(T)
    BY <1>8, FS_RemoveElement
  <2> HIDE DEF S, T
  <2>10. [j \in S |-> src[j]] \in Injection(S, T) /\ [j \in S |-> src[j]] \in Surjection(S, T)
    BY <2>2, <2>7, <2>8 DEF Injection, Surjection, IsInjective
  <2>11. Cardinality(S) = Cardinality(T)
    BY <2>9, <2>10, FS_Injection
  <2>12. lets <=> Presses(i)
    <3>1. Len(active[i].keys) = 1
      BY <1>1, <1>2, <1>12
    <3> QED
      BY <1>12 DEF Presses
  <2>13. i \in Pressing(b) <=> lets /\ b = params[c].binding
    BY <2>12 DEF Pressing
  <2> QED
    BY <1>8, <2>11, <2>13 DEF S, T
<1> QED
  BY <1>11, <1>12

LEMMA FollowsRelease == KeyInv /\ TakesKeys /\ BehaviorsInv /\ ReleaseComboKey => BehaviorsInv'
<1> SUFFICES ASSUME KeyInv, TakesKeys, BehaviorsInv, ReleaseComboKey PROVE BehaviorsInv'
  OBVIOUS
<1> DEFINE p == Head(agenda).pos
           i == Min(HolderOf(p))
           c == active[i].combo
           rest == Without(active[i].keys, p)
           lets == \/ params[c].slow /\ rest = <<>>
                   \/ ~params[c].slow /\ Len(active[i].keys) = Cardinality(Keys[c])
<1>1. /\ HolderOf(p) # {}
      /\ IF lets THEN Invoke(c, -1) ELSE on' = on
      /\ active' = IF rest = <<>> THEN Deactivate(i) ELSE [active EXCEPT ![i].keys = rest]
      /\ UNCHANGED <<build, params>>
  BY DEF ReleaseComboKey, settings
<1>2. i \in DOMAIN active /\ p \in ToSet(active[i].keys)
  <2>1. HolderOf(p) \in SUBSET Nat
    BY DEF HolderOf, KeyInv, Types
  <2>2. i \in HolderOf(p)
    <3> HIDE DEF p
    <3> QED
      BY <1>1, <2>1, MinIs
  <2> HIDE DEF p, i
  <2> QED
    BY <2>2 DEF HolderOf
<1>3. /\ c = active[i].combo /\ rest = Without(active[i].keys, p)
      /\ lets <=> \/ params[c].slow /\ rest = <<>>
                  \/ ~params[c].slow /\ Len(active[i].keys) = Cardinality(Keys[c])
      /\ lets \in BOOLEAN
  OBVIOUS
<1> HIDE DEF p, i, c, rest, lets
<1> QED
  BY <1>1, <1>2, <1>3, FollowsLetGo

LEMMA StepBehaviors ==
  KeyInv /\ TakesKeys /\ NoRest(agenda) /\ BehaviorsInv /\ [Next]_vars /\ ~ActivateNoRoom /\ ~RebindsActive
    => BehaviorsInv'
<1> SUFFICES ASSUME KeyInv, TakesKeys, NoRest(agenda), BehaviorsInv, [Next]_vars,
                    ~ActivateNoRoom, ~RebindsActive
             PROVE  BehaviorsInv'
  OBVIOUS
<1>1. ASSUME UNCHANGED <<build, params, active, on>> PROVE BehaviorsInv'
  BY <1>1, FollowsStays, BindingsStay DEF BehaviorsInv
<1>2. CASE DownIgnored \/ BubbleDown \/ PositionStateUp \/ UpAfterCleanup \/ UpdateTimeoutTask
  BY <1>1, <1>2 DEF DownIgnored, BubbleDown, PositionStateUp, UpAfterCleanup, UpdateTimeoutTask, settings, engine
<1>3. CASE PositionStateDown \/ CleanupOnly \/ TimeoutHandler
  <2>1. CASE PositionStateDown
    <3>1. UNCHANGED <<build, params, active, on>>
      BY <2>1 DEF PositionStateDown, settings
    <3> QED
      BY <1>1, <3>1
  <2>2. CASE CleanupOnly \/ TimeoutHandler
    BY <1>1, <2>2 DEF CleanupOnly, TimeoutHandler, settings
  <2> QED
    BY <1>3, <2>1, <2>2
<1>4. CASE ActivateCombo
  BY <1>4, FollowsActivate
<1>5. CASE AfterNoRoom
  <2>1. agenda # <<>> /\ Head(agenda).do = "cleanupRest"
    BY <1>5 DEF AfterNoRoom, Doing
  <2> QED
    BY <2>1, NoRestTail
<1>6. CASE ReleaseComboKey
  BY <1>6, FollowsRelease
<1>7. ASSUME NEW p, KeyDown(p) \/ KeyUp(p) PROVE BehaviorsInv'
  BY <1>1, <1>7 DEF KeyDown, KeyUp, settings, engine
<1>8. CASE Tick
  BY <1>1, <1>8 DEF Tick, settings, engine
<1>9. ASSUME NEW l, SetLayer(l) PROVE BehaviorsInv'
  BY <1>1, <1>9 DEF SetLayer, settings, engine
<1>10. ASSUME NEW i \in Combo, NEW f \in DOMAIN params[i], NEW v \in Edits[i][f], CopyField(i, f, v)
       PROVE  BehaviorsInv'
  <2>1. params' = [params EXCEPT ![i][f] = v] /\ UNCHANGED <<build, active, on>>
    BY <1>10 DEF CopyField, engine
  <2> QED
    BY <2>1, FollowsStays, BindingsEdited DEF BehaviorsInv
<1>11. CASE UNCHANGED vars
  BY <1>1, <1>11 DEF vars
<1> QED
  BY <1>2, <1>3, <1>4, <1>5, <1>6, <1>7, <1>8, <1>9, <1>10, <1>11 DEF Next, Work

LEMMA InitBehaviors == Init => BehaviorsInv
<1> SUFFICES ASSUME Init PROVE BehaviorsInv
  OBVIOUS
<1>1. build \in Builds /\ params = DtParams /\ active = <<>> /\ on = [b \in Behavior |-> 0]
  BY DEF Init
<1>2. Bindings
  BY <1>1, ComboAssumption DEF ComboAssumption, Bindings, Behavior
<1>3. \A b : Pressing(b) = {}
  BY <1>1 DEF Pressing
<1>4. Follows
  BY <1>1, <1>3, FS_EmptySet DEF Follows
<1> QED
  BY <1>2, <1>4 DEF BehaviorsInv

\* As long as no combo is completed while active_combos is full, and no edit
\* gives an active combo another behavior or kind of release
\* (release_combo_key, runtime_combo.c), each behavior is down as often as
\* active combos have the keys that keep it down: none is left behind.
THEOREM BehaviorsFollowTheirKeys ==
  Spec /\ [][~ActivateNoRoom /\ ~RebindsActive]_vars => []BehaviorFollowsKeys
<1> DEFINE I == KeyInv /\ TakesKeys /\ NoRest(agenda) /\ BehaviorsInv
<1>1. Init => I
  BY InitKeyInv, InitTakesKeys, InitBehaviors
<1>2. I /\ [Next]_vars /\ [~ActivateNoRoom /\ ~RebindsActive]_vars => I'
  <2> SUFFICES ASSUME I, [Next]_vars, [~ActivateNoRoom /\ ~RebindsActive]_vars PROVE I'
    OBVIOUS
  <2>1. CASE ~ActivateNoRoom /\ ~RebindsActive
    BY <2>1, StepKeyInv, StepTakesKeys, NoRestStep, StepBehaviors
  <2>2. CASE UNCHANGED vars
    <3>1. KeyInv' /\ TakesKeys' /\ NoRest(agenda')
      BY <2>2, KeysStay, TakesKeysStay DEF vars, NoRest, KeyInv, Types
    <3>2. ~RebindsActive
      BY <2>2 DEF vars, RebindsActive
    <3>3. BehaviorsInv'
      BY <2>2, <3>2, FollowsStays, BindingsStay DEF vars, BehaviorsInv
    <3> QED
      BY <3>1, <3>3
  <2> QED
    BY <2>1, <2>2
<1>3. I => BehaviorFollowsKeys
  BY DEF BehaviorsInv, Follows, Pressing, Presses, BehaviorFollowsKeys
<1> QED
  BY <1>1, <1>2, <1>3, PTL DEF Spec


-----------------------------------------------------------------------------
(* The keymap sees presses in the order the keys went down.  A press that    *)
(* finds pressed_keys full goes by at once only because the keys before it   *)
(* are those of a complete combo, which takes them.                          *)

RaisedBefore(s, x, y) ==
    \E a, b \in DOMAIN s :
        a < b /\ Raises(s[a]) /\ Raises(s[b]) /\ s[a].pos = x /\ s[b].pos = y

CapturedBefore(x, y) ==
    \E a, b \in DOMAIN pressed : a < b /\ pressed[a].pos = x /\ pressed[b].pos = y

\* Key x comes before key y, as far as this listener has them.
Before(x, y) ==
    \/ x \in passed /\ y \in Captured \cup Raised(agenda)
    \/ CapturedBefore(x, y)
    \/ x \in Captured /\ y \in Raised(agenda)
    \/ RaisedBefore(agenda, x, y)

InOrder == \A i, j \in DOMAIN held : i < j => ~Before(held[j], held[i])

\* Captured keys no candidate is left for are about to be cleaned up.
CleanupNext ==
    \/ agenda # <<>> /\ agenda[1].do = "cleanup"
    \/ Len(agenda) >= 2 /\ agenda[1].do = "update" /\ agenda[2].do = "cleanup"

RuledOut == pressed # <<>> /\ candidates = {} => CleanupNext

\* When pressed_keys is full, its keys are a combo's.
FullIsComplete ==
    Len(pressed) = MaxComboKeys /\ candidates # {} =>
        fully # None /\ Cardinality(Keys[fully]) = MaxComboKeys

\* A press that found pressed_keys full waits for the cleanup that gives all of
\* them to a combo.
BubblesLast ==
    \A k \in DOMAIN agenda : agenda[k].do = "bubble" =>
        \/ k = 1 /\ pressed = <<>>
        \/ /\ k \in {2, 3} /\ agenda[k - 1] = Cleanup(NoKey) /\ (k = 3 => agenda[1] = Update)
           /\ fully # None /\ Cardinality(Keys[fully]) = Len(pressed)

OrderInv == InOrder /\ RuledOut /\ FullIsComplete /\ BubblesLast

LEMMA RaisedBeforeJoined ==
  ASSUME NEW s \in Seq(Call), NEW t \in Seq(Call), NEW x, NEW y, RaisedBefore(s \o t, x, y)
  PROVE  \/ RaisedBefore(s, x, y)
         \/ x \in Raised(s) /\ y \in Raised(t)
         \/ RaisedBefore(t, x, y)
<1> DEFINE u == s \o t
<1>1. \A i \in DOMAIN u : \/ i \in DOMAIN s /\ u[i] = s[i]
                          \/ i > Len(s) /\ i - Len(s) \in DOMAIN t /\ u[i] = t[i - Len(s)]
  OBVIOUS
<1>2. PICK a \in DOMAIN u, b \in DOMAIN u :
        a < b /\ Raises(u[a]) /\ Raises(u[b]) /\ u[a].pos = x /\ u[b].pos = y
  BY DEF RaisedBefore
<1>3. a \in Int /\ b \in Int /\ Len(s) \in Nat /\ DOMAIN s = 1 .. Len(s)
  OBVIOUS
<1> HIDE DEF u
<1>4. CASE b \in DOMAIN s /\ u[b] = s[b]
  <2>1. a \in DOMAIN s /\ u[a] = s[a]
    BY <1>1, <1>2, <1>3, <1>4
  <2> QED
    BY <1>2, <1>4, <2>1 DEF RaisedBefore
<1>5. CASE b > Len(s) /\ b - Len(s) \in DOMAIN t /\ u[b] = t[b - Len(s)]
  <2>1. CASE a \in DOMAIN s /\ u[a] = s[a]
    BY <1>2, <1>5, <2>1 DEF Raised
  <2>2. CASE a > Len(s) /\ a - Len(s) \in DOMAIN t /\ u[a] = t[a - Len(s)]
    <3>1. a - Len(s) < b - Len(s)
      BY <1>2, <1>3
    <3> QED
      BY <1>2, <1>5, <2>2, <3>1 DEF RaisedBefore
  <2> QED
    BY <1>1, <2>1, <2>2
<1> QED
  BY <1>1, <1>4, <1>5

LEMMA RaisedBeforeTail ==
  ASSUME NEW s \in Seq(Call), s # <<>>
  PROVE  /\ \A x, y : RaisedBefore(Tail(s), x, y) => RaisedBefore(s, x, y)
         /\ Raises(Head(s)) => \A y \in Raised(Tail(s)) : RaisedBefore(s, Head(s).pos, y)
<1>1. \A i \in DOMAIN Tail(s) : i + 1 \in DOMAIN s /\ Tail(s)[i] = s[i + 1] /\ i + 1 > 1 /\ i \in Int
  OBVIOUS
<1>2. 1 \in DOMAIN s /\ Head(s) = s[1]
  OBVIOUS
<1> DEFINE t == Tail(s)
<1>3. \A i \in DOMAIN t : i + 1 \in DOMAIN s /\ t[i] = s[i + 1] /\ i + 1 > 1 /\ i \in Int
  BY <1>1
<1> HIDE DEF t
<1>4. ASSUME NEW x, NEW y, RaisedBefore(t, x, y) PROVE RaisedBefore(s, x, y)
  <2>1. PICK a \in DOMAIN t, b \in DOMAIN t :
          a < b /\ Raises(t[a]) /\ Raises(t[b]) /\ t[a].pos = x /\ t[b].pos = y
    BY <1>4 DEF RaisedBefore
  <2>2. a + 1 < b + 1
    BY <1>3, <2>1
  <2> QED
    BY <1>3, <2>1, <2>2 DEF RaisedBefore
<1>5. ASSUME Raises(Head(s)), NEW y \in Raised(t) PROVE RaisedBefore(s, Head(s).pos, y)
  <2>1. PICK b \in DOMAIN t : Raises(t[b]) /\ t[b].pos = y
    BY DEF Raised
  <2> QED
    BY <1>2, <1>3, <1>5, <2>1 DEF RaisedBefore
<1> QED
  BY <1>4, <1>5 DEF t

\* One call has no order, and a call that raises nothing brings none.
LEMMA RaisedBeforeOne ==
  ASSUME NEW c \in Call, NEW x, NEW y
  PROVE  ~RaisedBefore(<<c>>, x, y)
<1>1. \A d \in Call : DOMAIN <<d>> = {1}
  OBVIOUS
<1> QED
  BY <1>1 DEF RaisedBefore

LEMMA RaisedBeforePushed ==
  ASSUME NEW c \in Call, ~Raises(c), NEW s \in Seq(Call), NEW x, NEW y, RaisedBefore(<<c>> \o s, x, y)
  PROVE  RaisedBefore(s, x, y)
<1>1. \A d \in Call : <<d>> \in Seq(Call)
  OBVIOUS
<1>2. Raised(<<c>>) = {}
  BY OneCall
<1> QED
  BY <1>1, <1>2, RaisedBeforeJoined, RaisedBeforeOne

\* What follows a cleanup.
LEMMA ThenOrder ==
  ASSUME KeyInv, agenda # <<>>, Head(agenda).do \in {"cleanup", "cleanupRest"},
         NEW n \in Nat, NEW x, NEW y, RaisedBefore(Then(Head(agenda).pos, n, Tail(agenda)), x, y)
  PROVE  RaisedBefore(agenda, x, y)
<1> DEFINE p == Head(agenda).pos
           t == Tail(agenda)
<1>1. Head(agenda) \in Call /\ t \in Seq(Call) /\ p \in Position \cup {NoKey}
  BY HeadFacts, CallParts DEF KeyInv, Types
<1>2. \A u, v : RaisedBefore(t, u, v) => RaisedBefore(agenda, u, v)
  BY RaisedBeforeTail DEF KeyInv, Types
<1>3. CASE p = NoKey
  BY <1>2, <1>3 DEF Then
<1>4. CASE p # NoKey
  <2>1. UpRest(p, n) \in Call /\ ~Raises(UpRest(p, n))
    <3>1. p \in Position
      BY <1>1, <1>4
    <3> HIDE DEF p
    <3> QED
      BY <3>1, CallsAre DEF UpRest, Raises
  <2>2. RaisedBefore(<<UpRest(p, n)>> \o t, x, y)
    BY <1>4 DEF Then
  <2> HIDE DEF p, t
  <2>3. RaisedBefore(t, x, y)
    BY <1>1, <2>1, <2>2, RaisedBeforePushed
  <2> QED
    BY <1>2, <2>3
<1> QED
  BY <1>3, <1>4

\* Released keys are raised again in the order they were captured.
LEMMA RaisedAgainOrder ==
  ASSUME build \in Builds, NEW keys \in Seq(Press),
         NEW downs, downs = [i \in 1 .. Len(keys) - 1 |-> Down(keys[i + 1].pos, keys[i + 1].at)]
  PROVE  /\ \A x, y : RaisedBefore(downs, x, y) =>
                \E a, b \in DOMAIN keys : a < b /\ keys[a].pos = x /\ keys[b].pos = y
         /\ \A y \in Raised(downs) : \E b \in DOMAIN keys : 1 < b /\ keys[b].pos = y
<1>1. /\ DOMAIN downs = 1 .. Len(keys) - 1 /\ Len(keys) \in Nat
      /\ \A i \in 1 .. Len(keys) - 1 : downs[i].pos = keys[i + 1].pos
  BY DEF Down
<1>2. \A i \in DOMAIN downs : i + 1 \in DOMAIN keys /\ 1 < i + 1 /\ downs[i].pos = keys[i + 1].pos /\ i \in Int
  BY <1>1
<1>3. ASSUME NEW x, NEW y, RaisedBefore(downs, x, y)
      PROVE  \E a, b \in DOMAIN keys : a < b /\ keys[a].pos = x /\ keys[b].pos = y
  <2>1. PICK a \in DOMAIN downs, b \in DOMAIN downs : a < b /\ downs[a].pos = x /\ downs[b].pos = y
    BY <1>3 DEF RaisedBefore
  <2>2. a + 1 < b + 1
    BY <1>2, <2>1
  <2> QED
    BY <1>2, <2>1, <2>2
<1>4. \A y \in Raised(downs) : \E b \in DOMAIN keys : 1 < b /\ keys[b].pos = y
  BY <1>2 DEF Raised
<1> QED
  BY <1>3, <1>4

LEMMA ReleasedInOrder ==
  ASSUME KeyInv, NEW keys \in Seq(Press), PressedOnce(keys), Positions(keys) \subseteq Captured,
         \A a, b \in DOMAIN keys : a < b => CapturedBefore(keys[a].pos, keys[b].pos),
         NEW rest \in Seq(Call), Raised(rest) = Raised(agenda),
         \A x, y : RaisedBefore(rest, x, y) => RaisedBefore(agenda, x, y),
         ReleasePressed(keys, rest)
  PROVE  \A x, y : Before(x, y)' => Before(x, y)
<1> DEFINE downs == [i \in 1 .. Len(keys) - 1 |-> Down(keys[i + 1].pos, keys[i + 1].at)]
<1>0. build \in Builds
  BY DEF KeyInv, Types
<1>1. downs \in Seq(Call) /\ agenda' = downs \o rest /\ pressed' = <<>>
  BY <1>0, RaisedAgain DEF ReleasePressed
<1>2. /\ \A x, y : RaisedBefore(downs, x, y) => CapturedBefore(x, y)
      /\ \A y \in Raised(downs) : \E b \in DOMAIN keys : 1 < b /\ keys[b].pos = y
  <2>1. /\ \A x, y : RaisedBefore(downs, x, y) =>
                \E a, b \in DOMAIN keys : a < b /\ keys[a].pos = x /\ keys[b].pos = y
        /\ \A y \in Raised(downs) : \E b \in DOMAIN keys : 1 < b /\ keys[b].pos = y
    BY <1>0, RaisedAgainOrder
  <2> HIDE DEF downs
  <2> QED
    BY <2>1
<1>3. keys = <<>> => passed' = passed
  BY DEF ReleasePressed
<1>4. keys # <<>> => passed' = passed \cup {keys[1].pos} /\ 1 \in DOMAIN keys
  BY DEF ReleasePressed, Pass
<1>5. Captured' = {} /\ \A x, y : ~CapturedBefore(x, y)'
  BY <1>1 DEF Captured, CapturedBefore
<1> HIDE DEF downs
<1>6. Raised(agenda') = Raised(downs) \cup Raised(rest)
  BY <1>1, Joined
<1>7. Raised(downs) \subseteq Captured
  BY <1>2 DEF Positions
<1>8. \A y \in Raised(downs) : keys # <<>> /\ CapturedBefore(keys[1].pos, y)
  <2> SUFFICES ASSUME NEW y \in Raised(downs) PROVE keys # <<>> /\ CapturedBefore(keys[1].pos, y)
    OBVIOUS
  <2>1. PICK b \in DOMAIN keys : 1 < b /\ keys[b].pos = y
    BY <1>2
  <2> QED
    BY <1>4, <2>1
<1>9. SUFFICES ASSUME NEW x, NEW y, Before(x, y)' PROVE Before(x, y)
  OBVIOUS
<1>10. CASE x \in passed' /\ y \in Raised(agenda')
  <2>1. CASE x \in passed
    BY <1>6, <1>7, <1>10, <2>1 DEF Before
  <2>2. CASE keys # <<>> /\ x = keys[1].pos
    <3>1. x \in Captured
      BY <1>4, <2>2 DEF Positions
    <3> QED
      BY <1>6, <1>8, <1>10, <2>2, <3>1 DEF Before
  <2> QED
    BY <1>3, <1>4, <1>10, <2>1, <2>2
<1>11. CASE RaisedBefore(agenda', x, y)
  <2>1. \/ RaisedBefore(downs, x, y)
        \/ x \in Raised(downs) /\ y \in Raised(rest)
        \/ RaisedBefore(rest, x, y)
    BY <1>1, <1>11, RaisedBeforeJoined
  <2> QED
    BY <1>2, <1>7, <2>1 DEF Before
<1> QED
  BY <1>5, <1>9, <1>10, <1>11 DEF Before

\* Steps that pass nothing on and put "lead" at the place of the innermost call.
LEMMA PushedInOrder ==
  ASSUME KeyInv, agenda # <<>>, NEW lead \in Seq(Call), RaisedOnce(lead),
         Raised(lead) \subseteq Raised(<<Head(agenda)>>),
         agenda' = lead \o Tail(agenda)
  PROVE  /\ Raised(agenda') \subseteq Raised(agenda)
         /\ \A x, y : RaisedBefore(agenda', x, y) => RaisedBefore(agenda, x, y)
<1> DEFINE t == Tail(agenda)
           p == Head(agenda).pos
<1>1. /\ t \in Seq(Call) /\ Raised(agenda) = Raised(<<Head(agenda)>>) \cup Raised(t)
      /\ Raised(<<Head(agenda)>>) = IF Raises(Head(agenda)) THEN {p} ELSE {}
  BY HeadFacts
<1>2. Raised(agenda') = Raised(lead) \cup Raised(t)
  BY <1>1, Joined
<1>3. /\ \A x, y : RaisedBefore(t, x, y) => RaisedBefore(agenda, x, y)
      /\ Raises(Head(agenda)) => \A y \in Raised(t) : RaisedBefore(agenda, p, y)
  BY RaisedBeforeTail DEF KeyInv, Types
<1> HIDE DEF t, p
<1>4. \A x, y : ~RaisedBefore(lead, x, y)
  <2> SUFFICES ASSUME NEW x, NEW y, RaisedBefore(lead, x, y) PROVE FALSE
    OBVIOUS
  <2>1. PICK a \in DOMAIN lead, b \in DOMAIN lead :
          a < b /\ Raises(lead[a]) /\ Raises(lead[b]) /\ lead[a].pos = x /\ lead[b].pos = y
    BY DEF RaisedBefore
  <2>2. x \in Raised(lead) /\ y \in Raised(lead)
    BY <2>1 DEF Raised
  <2>3. x = y
    BY <1>1, <2>2
  <2>4. a = b
    BY <2>1, <2>3 DEF RaisedOnce
  <2> QED
    BY <2>1, <2>4
<1>5. ASSUME NEW x, NEW y, RaisedBefore(agenda', x, y) PROVE RaisedBefore(agenda, x, y)
  <2>1. (x \in Raised(lead) /\ y \in Raised(t)) \/ RaisedBefore(t, x, y)
    <3>1. agenda' = lead \o t
      BY DEF t
    <3>2. RaisedBefore(lead \o t, x, y)
      BY <1>5, <3>1
    <3>3. RaisedBefore(lead, x, y) \/ (x \in Raised(lead) /\ y \in Raised(t)) \/ RaisedBefore(t, x, y)
      BY <1>1, <3>2, RaisedBeforeJoined
    <3> QED
      BY <1>4, <3>3
  <2> QED
    BY <1>1, <1>3, <2>1
<1> QED
  BY <1>1, <1>2, <1>5

LEMMA PoppedInOrder ==
  ASSUME KeyInv, agenda # <<>>, agenda' = Tail(agenda)
  PROVE  /\ Raised(agenda') \subseteq Raised(agenda)
         /\ \A x, y : RaisedBefore(agenda', x, y) => RaisedBefore(agenda, x, y)
  BY HeadFacts, RaisedBeforeTail DEF KeyInv, Types

LEMMA SameOrder ==
  ASSUME pressed' = pressed, passed' \subseteq passed,
         Raised(agenda') \subseteq Raised(agenda),
         \A x, y : RaisedBefore(agenda', x, y) => RaisedBefore(agenda, x, y)
  PROVE  \A x, y : Before(x, y)' => Before(x, y)
<1>1. Captured' = Captured /\ \A x, y : CapturedBefore(x, y)' <=> CapturedBefore(x, y)
  BY DEF Captured, CapturedBefore
<1> QED
  BY <1>1 DEF Before

LEMMA KeptInOrder ==
  ASSUME InOrder, held' = held, \A x, y : Before(x, y)' => Before(x, y)
  PROVE  InOrder'
  BY DEF InOrder

\* A press at the head of the agenda goes by with nothing captured.
LEMMA GoesByInOrder ==
  ASSUME KeyInv, agenda # <<>>, Raises(Head(agenda)), pressed = <<>>, pressed' = pressed,
         passed' = passed \cup {Head(agenda).pos}, agenda' = Tail(agenda)
  PROVE  \A x, y : Before(x, y)' => Before(x, y)
<1> SUFFICES ASSUME NEW x, NEW y, Before(x, y)' PROVE Before(x, y)
  OBVIOUS
<1> DEFINE p == Head(agenda).pos
<1>1. Captured' = {} /\ ~CapturedBefore(x, y)'
  BY DEF Captured, CapturedBefore
<1>2. /\ Raised(agenda') \subseteq Raised(agenda)
      /\ \A u, v : RaisedBefore(agenda', u, v) => RaisedBefore(agenda, u, v)
      /\ \A v \in Raised(agenda') : RaisedBefore(agenda, p, v)
  BY PoppedInOrder, RaisedBeforeTail DEF KeyInv, Types
<1>3. x \in passed' => x \in passed \/ x = p
  OBVIOUS
<1> HIDE DEF p
<1> QED
  BY <1>1, <1>2, <1>3 DEF Before

\* Nothing bubbles while another call than these is being made.
LEMMA NoBubbles ==
  ASSUME KeyInv, BubblesLast, agenda # <<>>, Head(agenda).do \notin {"update", "cleanup", "bubble"}
  PROVE  \A k \in DOMAIN agenda : agenda[k].do # "bubble"
<1> SUFFICES ASSUME NEW k \in DOMAIN agenda, agenda[k].do = "bubble" PROVE FALSE
  OBVIOUS
<1>1. Head(agenda) = agenda[1]
  BY DEF KeyInv, Types
<1>2. Cleanup(NoKey).do = "cleanup" /\ Update.do = "update"
  BY DEF Cleanup, Update
<1>3. k \in {2, 3} /\ agenda[k - 1] = Cleanup(NoKey) /\ (k = 3 => agenda[1] = Update)
  BY <1>1 DEF BubblesLast
<1> QED
  BY <1>1, <1>2, <1>3

LEMMA NoneBubbles ==
  ASSUME agenda' \in Seq(Call), \A k \in DOMAIN agenda' : agenda'[k].do # "bubble"
  PROVE  BubblesLast'
  BY DEF BubblesLast

\* While a combo's keys are released or the candidates' time is up, the same
\* combo is complete.
LEMMA SameCandidates ==
  ASSUME FullIsComplete, candidates' \subseteq candidates, UNCHANGED <<build, pressed, fully>>
  PROVE  FullIsComplete'
<1>1. Keys' = Keys /\ MaxComboKeys' = MaxComboKeys
  BY DEF Keys, MaxComboKeys
<1> QED
  BY <1>1 DEF FullIsComplete

LEMMA DownIgnoredInOrder == KeyInv /\ OrderInv /\ DownIgnored => OrderInv'
<1> SUFFICES ASSUME KeyInv, OrderInv, DownIgnored PROVE OrderInv'
  OBVIOUS
<1>1. /\ agenda # <<>> /\ Head(agenda).do = "down" /\ pressed = <<>> /\ agenda' = Tail(agenda)
      /\ passed' = passed \cup {Head(agenda).pos}
      /\ UNCHANGED <<build, pressed, candidates, fully, held>>
  BY DEF DownIgnored, Doing, settings, outside, Pass
<1>2. InOrder'
  BY <1>1, GoesByInOrder, KeptInOrder DEF OrderInv, Raises
<1>3. RuledOut' /\ FullIsComplete'
  BY <1>1, SameCandidates DEF OrderInv, RuledOut
<1>4. BubblesLast'
  <2>1. \A k \in DOMAIN agenda : agenda[k].do # "bubble"
    BY <1>1, NoBubbles DEF OrderInv
  <2>2. agenda' \in Seq(Call) /\ \A k \in DOMAIN agenda' : k + 1 \in DOMAIN agenda /\ agenda'[k] = agenda[k + 1]
    BY <1>1 DEF KeyInv, Types
  <2> QED
    BY <2>1, <2>2 DEF BubblesLast
<1> QED
  BY <1>2, <1>3, <1>4 DEF OrderInv

LEMMA BubbleDownInOrder == KeyInv /\ OrderInv /\ BubbleDown => OrderInv'
<1> SUFFICES ASSUME KeyInv, OrderInv, BubbleDown PROVE OrderInv'
  OBVIOUS
<1>1. /\ agenda # <<>> /\ Head(agenda).do = "bubble" /\ agenda' = Tail(agenda)
      /\ passed' = passed \cup {Head(agenda).pos}
      /\ UNCHANGED <<build, pressed, candidates, fully, held>>
  BY DEF BubbleDown, Doing, settings, outside, Pass
<1>2. Head(agenda) = agenda[1] /\ 1 \in DOMAIN agenda
  BY <1>1 DEF KeyInv, Types
<1>3. Cleanup(NoKey).do = "cleanup" /\ Update.do = "update"
  BY DEF Cleanup, Update
<1>4. pressed = <<>>
  BY <1>1, <1>2 DEF OrderInv, BubblesLast
<1>5. InOrder'
  BY <1>1, <1>4, GoesByInOrder, KeptInOrder DEF OrderInv, Raises
<1>6. RuledOut' /\ FullIsComplete'
  BY <1>1, <1>4, SameCandidates DEF OrderInv, RuledOut
<1>7. BubblesLast'
  <2>1. \A k \in DOMAIN agenda' : k + 1 \in DOMAIN agenda /\ agenda'[k] = agenda[k + 1] /\ k + 1 # 1 /\ k \in Int
    BY <1>1 DEF KeyInv, Types
  <2>2. \A k \in DOMAIN agenda : agenda[k].do = "bubble" => k = 1
    <3> SUFFICES ASSUME NEW k \in DOMAIN agenda, agenda[k].do = "bubble", k # 1 PROVE FALSE
      OBVIOUS
    <3>1. k \in {2, 3} /\ agenda[k - 1] = Cleanup(NoKey) /\ (k = 3 => agenda[1] = Update)
      BY DEF OrderInv, BubblesLast
    <3> QED
      BY <1>1, <1>2, <1>3, <3>1
  <2> QED
    BY <2>1, <2>2 DEF BubblesLast
<1> QED
  BY <1>5, <1>6, <1>7 DEF OrderInv

LEMMA UpdateInOrder == KeyInv /\ OrderInv /\ UpdateTimeoutTask => OrderInv'
<1> SUFFICES ASSUME KeyInv, OrderInv, UpdateTimeoutTask PROVE OrderInv'
  OBVIOUS
<1>1. /\ agenda # <<>> /\ Head(agenda).do = "update" /\ agenda' = Tail(agenda)
      /\ UNCHANGED <<build, pressed, candidates, fully, held, passed>>
  BY DEF UpdateTimeoutTask, Doing, settings, outside
<1>2. /\ Head(agenda) = agenda[1] /\ 1 \in DOMAIN agenda /\ agenda \in Seq(Call)
      /\ DOMAIN agenda = 1 .. Len(agenda) /\ Len(agenda) \in Nat
      /\ DOMAIN agenda' = 1 .. Len(agenda) - 1 /\ agenda' \in Seq(Call)
      /\ \A k \in DOMAIN agenda' : agenda'[k] = agenda[k + 1]
  BY <1>1 DEF KeyInv, Types
<1>3. Cleanup(NoKey).do = "cleanup"
  BY DEF Cleanup
<1>4. InOrder'
  BY <1>1, PoppedInOrder, SameOrder, KeptInOrder DEF OrderInv
<1>5. FullIsComplete'
  BY <1>1, SameCandidates DEF OrderInv
<1>6. RuledOut'
  <2>1. ASSUME CleanupNext PROVE agenda' # <<>> /\ agenda'[1].do = "cleanup"
    <3>1. Len(agenda) >= 2 /\ agenda[2].do = "cleanup"
      BY <1>1, <1>2, <2>1 DEF CleanupNext
    <3>2. 1 \in DOMAIN agenda'
      BY <1>2, <3>1
    <3>3. agenda'[1] = agenda[2]
      BY <1>2, <3>2
    <3> QED
      BY <3>1, <3>2, <3>3
  <2> QED
    BY <1>1, <2>1 DEF OrderInv, RuledOut, CleanupNext
<1>7. BubblesLast'
  <2>0. Keys' = Keys /\ 2 - 1 = 1 /\ 2 # 3
    BY <1>1 DEF Keys
  <2> SUFFICES ASSUME NEW k \in DOMAIN agenda', agenda'[k].do = "bubble"
               PROVE  k = 2 /\ agenda'[1] = Cleanup(NoKey) /\ fully # None /\ Cardinality(Keys[fully]) = Len(pressed)
    BY <1>1, <2>0 DEF BubblesLast
  <2>1. k + 1 \in DOMAIN agenda /\ agenda[k + 1].do = "bubble" /\ k + 1 # 1
    BY <1>2
  <2>2. k + 1 \in {2, 3} /\ agenda[(k + 1) - 1] = Cleanup(NoKey) /\ fully # None /\ Cardinality(Keys[fully]) = Len(pressed)
    BY <2>1 DEF OrderInv, BubblesLast
  <2>3. k = 2 /\ agenda[2] = Cleanup(NoKey)
    BY <1>1, <1>2, <1>3, <2>2
  <2>4. agenda'[1] = agenda[2]
    BY <1>2, <2>3
  <2> QED
    BY <2>2, <2>3, <2>4
<1> QED
  BY <1>4, <1>5, <1>6, <1>7 DEF OrderInv

\* A step of a release that moves no key to this listener's left.
LEMMA ReleaseInOrder ==
  ASSUME KeyInv, OrderInv, agenda # <<>>, Head(agenda).do \in {"up", "upRest"},
         NEW lead \in Seq(Call), RaisedOnce(lead), Raised(lead) = {},
         \A k \in DOMAIN lead : lead[k].do # "bubble",
         Head(agenda).do = "up" => lead # <<>> /\ lead[1].do = "cleanup",
         agenda' = lead \o Tail(agenda), passed' \subseteq passed,
         UNCHANGED <<build, pressed, candidates, fully, held>>
  PROVE  OrderInv'
<1>1. InOrder'
  BY PushedInOrder, SameOrder, KeptInOrder DEF OrderInv
<1>2. FullIsComplete'
  BY SameCandidates DEF OrderInv
<1>3. /\ agenda \in Seq(Call) /\ Tail(agenda) \in Seq(Call) /\ Head(agenda) = agenda[1]
      /\ Head(agenda) \in Call /\ LetsGo(Head(agenda)) => Tail(agenda) = <<>>
  BY HeadFacts DEF KeyInv, Types
<1>4. Tail(agenda) = <<>>
  BY <1>3, CallParts DEF KeyInv, Types
<1>5. agenda' = lead
  BY <1>4, ConcatEmptySeq
<1>6. BubblesLast'
  BY <1>5 DEF BubblesLast
<1>7. RuledOut'
  <2>1. CASE Head(agenda).do = "up"
    BY <1>5, <2>1 DEF RuledOut, CleanupNext
  <2>2. CASE Head(agenda).do = "upRest"
    BY <1>3, <2>2 DEF OrderInv, RuledOut, CleanupNext
  <2> QED
    BY <2>1, <2>2
<1> QED
  BY <1>1, <1>2, <1>6, <1>7 DEF OrderInv

\* What remains of the calls after a cleanup bubbles only what bubbled before.
LEMMA CleanedBubbles ==
  ASSUME KeyInv, Doing("cleanup"), NEW keys \in Seq(Press), PressedOnce(keys), NEW n \in Nat,
         ReleasePressed(keys, Then(Head(agenda).pos, n, Tail(agenda))),
         NEW k \in DOMAIN agenda', agenda'[k].do = "bubble"
  PROVE  \E i \in DOMAIN agenda :
            agenda[i].do = "bubble" /\ i # 1 /\ (keys = <<>> /\ Head(agenda).pos = NoKey => i = k + 1)
<1> DEFINE downs == [i \in 1 .. Len(keys) - 1 |-> Down(keys[i + 1].pos, keys[i + 1].at)]
           rest == Then(Head(agenda).pos, n, Tail(agenda))
           p == Head(agenda).pos
           t == Tail(agenda)
<1>1. agenda # <<>> /\ Head(agenda).do = "cleanup" /\ build \in Builds
  BY DEF Doing, KeyInv, Types
<1>2. agenda' = downs \o rest
  BY DEF ReleasePressed
<1>3. downs \in Seq(Call) /\ (\A i \in DOMAIN downs : downs[i].do = "down") /\ (keys = <<>> => downs = <<>>)
  <2>1. Len(keys) <= 1 => downs = <<>>
    BY <1>1, RaisedAgain
  <2>2. downs \in Seq(Call)
    BY <1>1, RaisedAgain
  <2>4. \A i \in DOMAIN downs : downs[i].do = "down"
    BY DEF Down
  <2>3. keys = <<>> => Len(keys) <= 1
    OBVIOUS
  <2> HIDE DEF downs
  <2> QED
    BY <2>1, <2>2, <2>3, <2>4
<1>4. rest \in Seq(Call)
  BY <1>1, ThenIs
<1>5. Head(agenda) \in Call /\ t \in Seq(Call) /\ p \in Position \cup {NoKey}
  BY <1>1, HeadFacts, CallParts DEF KeyInv, Types
<1>6. \A i \in DOMAIN t : i + 1 \in DOMAIN agenda /\ t[i] = agenda[i + 1] /\ i + 1 # 1
  BY <1>1 DEF KeyInv, Types
<1>7. rest = IF p = NoKey THEN t ELSE <<UpRest(p, n)>> \o t
  BY DEF Then
<1>8. p # NoKey => UpRest(p, n) \in Call /\ UpRest(p, n).do = "upRest"
  <2> HIDE DEF p
  <2> QED
    BY <1>5, CallsAre DEF UpRest
<1> HIDE DEF downs, rest, t, p
<1>9. ASSUME NEW j \in DOMAIN rest, rest[j].do = "bubble"
      PROVE  \E i \in DOMAIN t : t[i] = rest[j] /\ (p = NoKey => i = j)
  <2>1. CASE p = NoKey
    BY <1>7, <2>1, <1>9
  <2>2. CASE p # NoKey
    <3> DEFINE c == UpRest(p, n)
    <3>1. c \in Call /\ c.do = "upRest" /\ rest = <<c>> \o t
      BY <1>7, <1>8, <2>2
    <3> HIDE DEF c
    <3>2. (j = 1 /\ rest[j] = c) \/ (j - 1 \in DOMAIN t /\ rest[j] = t[j - 1])
      BY <1>5, <3>1
    <3> QED
      BY <1>9, <2>2, <3>1, <3>2
  <2> QED
    BY <2>1, <2>2
<1>10. \/ k \in DOMAIN downs /\ agenda'[k] = downs[k]
       \/ k - Len(downs) \in DOMAIN rest /\ agenda'[k] = rest[k - Len(downs)]
  BY <1>2, <1>3, <1>4
<1>11. k - Len(downs) \in DOMAIN rest /\ rest[k - Len(downs)].do = "bubble"
  BY <1>3, <1>10
<1>12. PICK i \in DOMAIN t : t[i] = rest[k - Len(downs)] /\ (p = NoKey => i = k - Len(downs))
  BY <1>9, <1>11
<1>13. keys = <<>> /\ p = NoKey => i + 1 = k + 1
  <2> SUFFICES ASSUME keys = <<>>, p = NoKey PROVE i = k
    OBVIOUS
  <2>1. Len(downs) = 0
    BY <1>3
  <2>2. i = k - 0
    BY <1>12, <2>1
  <2>3. k \in Int
    BY <1>2, <1>3, <1>4
  <2> QED
    BY <2>2, <2>3
<1> QED
  BY <1>6, <1>11, <1>12, <1>13 DEF p

LEMMA CleanedUp ==
  ASSUME pressed' = <<>>, candidates' = {}
  PROVE  RuledOut' /\ FullIsComplete'
  BY DEF RuledOut, FullIsComplete

LEMMA CleanupOnlyInOrder == KeyInv /\ OrderInv /\ CleanupOnly => OrderInv'
<1> SUFFICES ASSUME KeyInv, OrderInv, CleanupOnly PROVE OrderInv'
  OBVIOUS
<1> DEFINE rest == Then(Head(agenda).pos, Len(pressed), Tail(agenda))
<1>1. /\ Doing("cleanup") /\ agenda # <<>> /\ Head(agenda).do = "cleanup" /\ fully = None
      /\ candidates' = {} /\ ReleasePressed(pressed, rest) /\ held' = held
  BY DEF CleanupOnly, Doing, outside
<1>2. pressed \in Seq(Press) /\ PressedOnce(pressed) /\ Len(pressed) \in Nat /\ Positions(pressed) = Captured
  BY DEF KeyInv, Types, OnePlace, Positions, Captured
<1>3. rest \in Seq(Call) /\ Raised(rest) = Raised(agenda)
  BY <1>1, <1>2, ThenIs
<1>4. \A x, y : RaisedBefore(rest, x, y) => RaisedBefore(agenda, x, y)
  BY <1>1, <1>2, ThenOrder
<1>5. \A a, b \in DOMAIN pressed : a < b => CapturedBefore(pressed[a].pos, pressed[b].pos)
  BY DEF CapturedBefore
<1>6. \A k \in DOMAIN agenda' : agenda'[k].do # "bubble"
  <2> SUFFICES ASSUME NEW k \in DOMAIN agenda', agenda'[k].do = "bubble" PROVE FALSE
    OBVIOUS
  <2>1. PICK i \in DOMAIN agenda : agenda[i].do = "bubble" /\ i # 1
    BY <1>1, <1>2, CleanedBubbles
  <2> QED
    BY <1>1, <2>1 DEF OrderInv, BubblesLast
<1> HIDE DEF rest
<1>7. \A x, y : Before(x, y)' => Before(x, y)
  BY <1>1, <1>2, <1>3, <1>4, <1>5, ReleasedInOrder
<1>8. pressed' = <<>>
  BY <1>1 DEF ReleasePressed
<1> QED
  BY <1>1, <1>6, <1>7, <1>8, KeptInOrder, CleanedUp DEF OrderInv, BubblesLast

LEMMA ActivateInOrder == KeyInv /\ OrderInv /\ ActivateCombo => OrderInv'
<1> SUFFICES ASSUME KeyInv, OrderInv, ActivateCombo PROVE OrderInv'
  OBVIOUS
<1> DEFINE others == SubSeq(pressed, Taken + 1, Len(pressed))
           rest == Then(Head(agenda).pos, Len(others), Tail(agenda))
<1>1. /\ Doing("cleanup") /\ agenda # <<>> /\ Head(agenda).do = "cleanup" /\ fully # None
      /\ candidates' = {} /\ ReleasePressed(others, rest) /\ held' = held
      /\ active' = Append(active, Record)
  BY DEF ActivateCombo, Doing, outside, Taken, Record
<1>2. /\ Taken \in 0 .. Len(pressed) /\ Record \in [combo : Combo, keys : Seq(Position)]
      /\ Record.keys = [j \in 1 .. Taken |-> pressed[j].pos]
  BY <1>1, TakenKeys
<1>3. /\ others = SubSeq(pressed, Taken + 1, Len(pressed))
      /\ rest = Then(Head(agenda).pos, Len(others), Tail(agenda))
  OBVIOUS
<1>4. /\ pressed \in Seq(Press) /\ Len(pressed) \in Nat /\ Len(others) = Len(pressed) - Taken
      /\ \A j \in DOMAIN others : Taken + j \in DOMAIN pressed /\ others[j] = pressed[Taken + j] /\ j \in Int
  BY <1>2 DEF KeyInv, Types
<1> HIDE DEF others, rest
<1>5. others \in Seq(Press) /\ PressedOnce(others) /\ Positions(others) \subseteq Captured
  BY <1>1, <1>2, <1>3, ComboTakesKeys
<1>6. Len(others) \in Nat
  BY <1>5
<1>7. rest \in Seq(Call) /\ Raised(rest) = Raised(agenda)
  BY <1>1, <1>3, <1>6, ThenIs
<1>8. \A x, y : RaisedBefore(rest, x, y) => RaisedBefore(agenda, x, y)
  BY <1>1, <1>3, <1>6, ThenOrder
<1>9. ASSUME NEW a \in DOMAIN others, NEW b \in DOMAIN others, a < b
      PROVE  CapturedBefore(others[a].pos, others[b].pos)
  <2>1. Taken + a < Taken + b
    BY <1>2, <1>4, <1>9
  <2> QED
    BY <1>4, <2>1 DEF CapturedBefore
<1>10. \A x, y : Before(x, y)' => Before(x, y)
  BY <1>1, <1>5, <1>7, <1>8, <1>9, ReleasedInOrder
<1>11. pressed' = <<>>
  BY <1>1 DEF ReleasePressed
<1>12. BubblesLast'
  <2> SUFFICES ASSUME NEW k \in DOMAIN agenda', agenda'[k].do = "bubble" PROVE k = 1
    BY <1>11 DEF BubblesLast
  <2>1. PICK i \in DOMAIN agenda :
            agenda[i].do = "bubble" /\ i # 1 /\ (others = <<>> /\ Head(agenda).pos = NoKey => i = k + 1)
    BY <1>1, <1>3, <1>5, <1>6, CleanedBubbles
  <2>2. Head(agenda) = agenda[1] /\ k \in Int
    <3>1. KeyInv'
      BY ActivateComboStep
    <3>2. agenda' \in Seq(Call')
      BY <3>1 DEF KeyInv, Types
    <3> QED
      BY <1>1, <3>2 DEF KeyInv, Types
  <2>3. Update.do = "update" /\ Cleanup(NoKey).pos = NoKey
    BY DEF Update, Cleanup
  <2>4. i = 2 /\ agenda[1] = Cleanup(NoKey) /\ Cardinality(Keys[fully]) = Len(pressed)
    <3>1. i \in {2, 3} /\ agenda[i - 1] = Cleanup(NoKey) /\ (i = 3 => agenda[1] = Update)
      BY <2>1 DEF OrderInv, BubblesLast
    <3> QED
      BY <1>1, <2>1, <2>2, <2>3, <3>1 DEF OrderInv, BubblesLast
  <2>5. Taken = Len(pressed)
    <3>1. Taken = Min({Len(pressed), Len(pressed)})
      BY <2>4 DEF Taken
    <3> QED
      BY <1>4, <3>1 DEF Min
  <2>6. others = <<>>
    BY <1>4, <1>5, <2>5
  <2> QED
    BY <2>1, <2>2, <2>3, <2>4, <2>6
<1> QED
  BY <1>1, <1>10, <1>11, <1>12, KeptInOrder, CleanedUp DEF OrderInv

LEMMA UpInOrder == KeyInv /\ OrderInv /\ (PositionStateUp \/ ReleaseComboKey \/ UpAfterCleanup) => OrderInv'
<1> SUFFICES ASSUME KeyInv, OrderInv, PositionStateUp \/ ReleaseComboKey \/ UpAfterCleanup PROVE OrderInv'
  OBVIOUS
<1> DEFINE p == Head(agenda).pos
<1>0. \A x \in Call : <<x>> \in Seq(Call) /\ DOMAIN <<x>> = {1} /\ <<x>>[1] = x /\ <<x>> # <<>>
  OBVIOUS
<1>1. UNCHANGED <<build, pressed, candidates, fully, held>> /\ agenda # <<>>
  BY DEF PositionStateUp, ReleaseComboKey, UpAfterCleanup, settings, engine, outside, Doing
<1>2. Head(agenda).do \in {"up", "upRest"}
  BY DEF PositionStateUp, ReleaseComboKey, UpAfterCleanup, Doing
<1>3. p \in Position /\ Tail(agenda) \in Seq(Call)
  BY <1>1, <1>2, HeadFacts, CallParts DEF KeyInv, Types
<1> HIDE DEF p
<1>4. CASE PositionStateUp
  <2>1. agenda' = <<Cleanup(p)>> \o Tail(agenda) /\ passed' = passed
    BY <1>4 DEF PositionStateUp, p
  <2>2. Cleanup(p) \in Call /\ Cleanup(p).do = "cleanup" /\ ~Raises(Cleanup(p))
    BY <1>3, CallsAre DEF Cleanup, Raises
  <2> DEFINE c == Cleanup(p)
  <2>3. c \in Call /\ c.do = "cleanup" /\ ~Raises(c) /\ agenda' = <<c>> \o Tail(agenda)
    BY <2>1, <2>2
  <2> HIDE DEF c
  <2> DEFINE lead == <<c>>
  <2>4. lead \in Seq(Call) /\ RaisedOnce(lead) /\ Raised(lead) = {} /\ lead # <<>>
        /\ DOMAIN lead = {1} /\ lead[1].do = "cleanup" /\ agenda' = lead \o Tail(agenda)
    BY <1>0, <2>3, OneCall
  <2> HIDE DEF lead
  <2> QED
    BY <1>1, <1>2, <2>1, <2>4, ReleaseInOrder
<1>5. ASSUME agenda' = Tail(agenda), passed' \subseteq passed, Head(agenda).do = "upRest" PROVE OrderInv'
  <2> DEFINE lead == <<>>
  <2>1. lead \in Seq(Call) /\ RaisedOnce(lead) /\ Raised(lead) = {} /\ DOMAIN lead = {}
        /\ agenda' = lead \o Tail(agenda)
    BY <1>3, <1>5, NoCall, ConcatEmptySeq
  <2> HIDE DEF lead
  <2> QED
    BY <1>1, <1>5, <2>1, ReleaseInOrder
<1>6. CASE ReleaseComboKey
  BY <1>5, <1>6 DEF ReleaseComboKey, Doing
<1>7. CASE UpAfterCleanup /\ agenda' = <<Up(p)>> \o Tail(agenda) /\ passed' = passed
  <2> DEFINE c == Up(p)
  <2>1. c \in Call /\ c.do = "up" /\ ~Raises(c) /\ agenda' = <<c>> \o Tail(agenda)
    BY <1>3, <1>7, CallsAre DEF Up, Raises
  <2>2. Head(agenda).do = "upRest"
    BY <1>7 DEF UpAfterCleanup, Doing
  <2> HIDE DEF c
  <2> DEFINE lead == <<c>>
  <2>3. lead \in Seq(Call) /\ RaisedOnce(lead) /\ Raised(lead) = {}
        /\ DOMAIN lead = {1} /\ lead[1].do = "up" /\ agenda' = lead \o Tail(agenda)
    BY <1>0, <2>1, OneCall
  <2> HIDE DEF lead
  <2> QED
    BY <1>1, <1>7, <2>2, <2>3, ReleaseInOrder
<1>8. CASE UpAfterCleanup
  BY <1>5, <1>7, <1>8 DEF UpAfterCleanup, Doing, p
<1> QED
  BY <1>4, <1>6, <1>8

\* The calls position_state_down leaves: an update, then a cleanup and a bubble
\* if there are any, then what was there.
LEMMA DownCalls ==
  ASSUME NEW p \in Seq(Call), NEW a \in Seq(Call), NEW b \in Seq(Call), NEW t \in Seq(Call),
         Len(p) = 1, Len(a) <= 1, Len(b) <= Len(a)
  PROVE  LET u == (p \o a \o b) \o t IN
         /\ u \in Seq(Call) /\ u[1] = p[1] /\ 1 \in DOMAIN u
         /\ Len(a) = 1 => Len(u) >= 2 /\ u[2] = a[1]
         /\ Len(b) = 1 => 3 \in DOMAIN u
         /\ \A i \in DOMAIN u : \/ u[i] = p[1]
                                \/ Len(a) = 1 /\ u[i] = a[1]
                                \/ Len(b) = 1 /\ i = 3
                                \/ u[i] \in ToSet(t)
<1> DEFINE q == p \o a
           r == q \o b
           u == r \o t
<1>0. Len(a) \in Nat /\ Len(b) \in Nat /\ Len(a) \in 0 .. 1 /\ Len(b) \in 0 .. 1
  <2> HIDE DEF q, r, u
  <2> QED
    OBVIOUS
<1>1. /\ q \in Seq(Call) /\ Len(q) = 1 + Len(a) /\ q[1] = p[1] /\ (Len(a) = 1 => q[2] = a[1])
      /\ Len(a) \in 0 .. 1 /\ Len(b) \in 0 .. 1
  <2> HIDE DEF r, u
  <2>1. q \in Seq(Call) /\ Len(q) = Len(p) + Len(a)
    BY ConcatProperties
  <2>2. \A i \in 1 .. Len(p) : q[i] = p[i]
    OBVIOUS
  <2>3. \A i \in 1 .. Len(a) : q[Len(p) + i] = a[i]
    OBVIOUS
  <2> HIDE DEF q
  <2>4. Len(a) = 1 => q[1 + 1] = a[1]
    BY <2>3
  <2> QED
    BY <1>0, <2>1, <2>2, <2>4
<1> HIDE DEF q
<1>2. /\ r \in Seq(Call) /\ Len(r) = Len(q) + Len(b) /\ r[1] = q[1] /\ (Len(a) = 1 => r[2] = q[2])
  BY <1>1
<1> HIDE DEF r
<1>3. /\ u \in Seq(Call) /\ Len(u) = Len(r) + Len(t) /\ DOMAIN u = 1 .. Len(u) /\ Len(t) \in Nat
      /\ \A i \in 1 .. Len(r) : u[i] = r[i]
      /\ \A i \in DOMAIN u : i \in 1 .. Len(r) \/ (i - Len(r) \in DOMAIN t /\ u[i] = t[i - Len(r)])
  BY <1>1, <1>2
<1> HIDE DEF u
<1>4. u[1] = p[1] /\ 1 \in DOMAIN u /\ (Len(a) = 1 => Len(u) >= 2 /\ u[2] = a[1]) /\ (Len(b) = 1 => 3 \in DOMAIN u)
  BY <1>1, <1>2, <1>3
<1>5. ASSUME NEW i \in DOMAIN u
      PROVE  \/ u[i] = p[1]
             \/ Len(a) = 1 /\ u[i] = a[1]
             \/ Len(b) = 1 /\ i = 3
             \/ u[i] \in ToSet(t)
  <2>1. CASE i \in 1 .. Len(r)
    <3>1. i = 1 \/ (i = 2 /\ Len(a) = 1) \/ (i = 3 /\ Len(b) = 1)
      BY <1>1, <1>2, <2>1
    <3> QED
      BY <1>4, <3>1
  <2>2. CASE i - Len(r) \in DOMAIN t /\ u[i] = t[i - Len(r)]
    BY <2>2 DEF ToSet
  <2> QED
    BY <1>3, <2>1, <2>2
<1> QED
  BY <1>3, <1>4, <1>5 DEF u, r, q

\* As many keys are captured as pressed_keys is long.
LEMMA KeysCounted ==
  ASSUME NEW S, NEW keys \in Seq([pos : S, at : Nat]), PressedOnce(keys)
  PROVE  IsFiniteSet(Positions(keys)) /\ Cardinality(Positions(keys)) = Len(keys)
<1> DEFINE s == [j \in 1 .. Len(keys) |-> keys[j].pos]
           R == [pos : S, at : Nat]
<1>1. DOMAIN keys = 1 .. Len(keys) /\ Len(keys) \in Nat
  OBVIOUS
<1>2. \A j \in 1 .. Len(keys) : keys[j].pos \in S
  <2>1. keys \in Seq(R) /\ \A r \in R : r.pos \in S
    OBVIOUS
  <2> HIDE DEF R
  <2>2. \A j \in 1 .. Len(keys) : keys[j] \in R
    BY <2>1
  <2> QED
    BY <2>1, <2>2
<1>3. s \in Seq(S) /\ Len(s) = Len(keys) /\ DOMAIN s = 1 .. Len(keys)
  BY <1>1, <1>2
<1>4. \A j \in 1 .. Len(keys) : s[j] = keys[j].pos
  OBVIOUS
<1> HIDE DEF s
<1>5. ToSet(s) = Positions(keys)
  BY <1>1, <1>3, <1>4 DEF ToSet, Positions
<1>6. Distinct(s)
  BY <1>1, <1>3, <1>4 DEF Distinct, PressedOnce
<1> QED
  BY <1>3, <1>5, <1>6, Counted

\* A press with pressed_keys full leaves no candidate, and its bubble waits for
\* the cleanup; a press that fills pressed_keys completes the candidates left.
LEMMA DownInOrder == KeyInv /\ Fits /\ OrderInv /\ PositionStateDown => OrderInv'
<1> SUFFICES ASSUME KeyInv, Fits, OrderInv, PositionStateDown PROVE OrderInv'
  OBVIOUS
<1> DEFINE e == Head(agenda)
           first == FirstCandidates(e.pos, e.at)
           left == IF pressed = <<>> THEN candidates \cup first
                   ELSE InTime(candidates, e.at) \cap Lookup(e.pos)
           matches == IF pressed = <<>> THEN first ELSE left
           k == [pos |-> e.pos, at |-> e.at]
           full == Len(pressed) = MaxComboKeys
           captured == IF full THEN pressed ELSE Append(pressed, k)
           complete == left # {} /\ Cardinality(Keys[Min(left)]) = Len(captured)
           over == matches = {} \/ (complete /\ Cardinality(matches) = 1)
           a == IF over THEN <<Cleanup(NoKey)>> ELSE <<>>
           b == IF full THEN <<Bubble(e.pos, e.at)>> ELSE <<>>
           lead == <<Update>> \o a \o b
<1>1. /\ agenda # <<>> /\ e.do = "down"
      /\ pressed = <<>> => first # {}
      /\ candidates' = left /\ pressed' = captured /\ fully' = (IF complete THEN Min(left) ELSE fully)
      /\ agenda' = lead \o Tail(agenda)
  BY DEF PositionStateDown, Doing
<1>2. passed' = passed /\ held' = held /\ Keys' = Keys /\ MaxComboKeys' = MaxComboKeys
  BY DEF PositionStateDown, settings, outside, Keys, MaxComboKeys
<1>3. /\ e \in Call /\ Raises(e) /\ e.pos \in Position /\ e.at \in Nat /\ build \in Builds
      /\ Tail(agenda) \in Seq(Call) /\ agenda \in Seq(Call) /\ e = agenda[1]
      /\ e.pos \in Raised(agenda)
  <2>1. e \in Call /\ Raises(e) /\ build \in Builds /\ Tail(agenda) \in Seq(Call) /\ e.pos \in Raised(agenda)
    BY <1>1, HeadFacts DEF KeyInv, Types, Raises
  <2>2. agenda \in Seq(Call) /\ Head(agenda) = agenda[1]
    <3>1. agenda \in Seq(Call) /\ agenda # <<>>
      BY <1>1 DEF KeyInv, Types
    <3> QED
      BY <3>1
  <2> QED
    BY <2>1, <2>2, CallParts
<1>4. /\ pressed \in Seq(Press) /\ Len(pressed) \in Nat /\ DOMAIN pressed = 1 .. Len(pressed)
      /\ candidates \subseteq Combo
      /\ Len(Append(pressed, k)) = Len(pressed) + 1
      /\ \A j \in 1 .. Len(pressed) : Append(pressed, k)[j] = pressed[j]
      /\ Append(pressed, k)[Len(pressed) + 1] = k
      /\ DOMAIN Append(pressed, k) = 1 .. Len(pressed) + 1
  BY DEF KeyInv, Types
<1>5. e.pos \notin Captured
  BY <1>3 DEF KeyInv, OnePlace
<1>6. first \subseteq Combo /\ left \subseteq Combo /\ (pressed # <<>> => left \subseteq candidates)
  BY <1>4 DEF FirstCandidates, Lookup, InTime
<1>7. \A c \in left : e.pos \in Keys[c] /\ Captured \subseteq Keys[c]
  <2>1. CASE pressed = <<>>
    BY <2>1 DEF Fits, FirstCandidates, Lookup, Captured
  <2>2. CASE pressed # <<>>
    BY <2>2 DEF Fits, InTime, Lookup
  <2> QED
    BY <2>1, <2>2
<1>8. /\ pressed = <<>> => left = first
      /\ matches = left
  BY DEF Fits
<1>9. k.pos = e.pos
  OBVIOUS
<1>10. Update \in Call /\ Cleanup(NoKey) \in Call /\ Bubble(e.pos, e.at) \in Call
       /\ Bubble(e.pos, e.at).do = "bubble" /\ Bubble(e.pos, e.at).pos = e.pos
  BY <1>3, CallsAre DEF Bubble
<1>11. /\ lead \in Seq(Call) /\ RaisedOnce(lead) /\ Raised(lead) \subseteq {e.pos}
       /\ ~full => Raised(lead) = {}
  <2>1. a \in {<<>>, <<Cleanup(NoKey)>>}
    OBVIOUS
  <2>2. PICK c \in Call : c = Bubble(e.pos, e.at)
    BY <1>10
  <2>3. b \in {<<>>, <<c>>} /\ c.do = "bubble" /\ c.pos = e.pos /\ (~full => b = <<>>)
    BY <1>10, <2>2
  <2> HIDE DEF a, b, full
  <2>4. lead = <<Update>> \o a \o b
    OBVIOUS
  <2> HIDE DEF lead, e
  <2> QED
    BY <2>1, <2>3, <2>4, DownPushes
<1>12. ~CleanupNext
  <2>1. e.do = "down" /\ e = agenda[1]
    BY <1>1, <1>3
  <2> HIDE DEF e
  <2> QED
    BY <2>1 DEF CleanupNext
<1>13. over <=> (left = {} \/ (complete /\ Cardinality(left) = 1))
  BY <1>8
<1>14. complete => left # {} /\ Cardinality(Keys[Min(left)]) = Len(captured)
  OBVIOUS
<1>15. left # {} => Min(left) \in left
  <2>1. left \in SUBSET Nat
    BY <1>6, ComboAssumption DEF ComboAssumption, Combo
  <2> HIDE DEF left
  <2> QED
    BY <2>1, MinIs
<1> HIDE DEF e, first, left, matches, k, captured, over, complete, full, a, b, lead
<1>16. Captured' \subseteq Captured \cup {e.pos} /\ (~full => Captured' = Captured \cup {e.pos})
  <2>1. \A j \in DOMAIN captured : captured[j].pos \in Captured \cup {e.pos}
    BY <1>4, <1>9 DEF captured, Captured
  <2>2. ASSUME ~full PROVE Captured \cup {e.pos} \subseteq Captured'
    <3>1. captured = Append(pressed, k)
      BY <2>2 DEF captured
    <3>2. Len(pressed) + 1 \in DOMAIN captured /\ captured[Len(pressed) + 1].pos = e.pos
      BY <1>4, <1>9, <3>1
    <3>3. \A j \in DOMAIN pressed : j \in DOMAIN captured /\ captured[j].pos = pressed[j].pos
      BY <1>4, <3>1
    <3> QED
      BY <1>1, <3>2, <3>3 DEF Captured
  <2>3. Captured' \subseteq Captured \cup {e.pos}
    BY <1>1, <2>1 DEF Captured
  <2> QED
    BY <2>2, <2>3
<1>17. ASSUME NEW c \in left
       PROVE  /\ IsFiniteSet(Keys[c]) /\ Cardinality(Keys[c]) \in Nat
              /\ Cardinality(Keys[c]) <= MaxComboKeys /\ Captured \cup {e.pos} \subseteq Keys[c]
  BY <1>3, <1>6, <1>7, CombosHaveKeys, RoomForAKey
<1>18. MaxComboKeys \in Nat /\ MaxComboKeys # 0
  BY <1>3, RoomForAKey
<1>19. IsFiniteSet(Captured \cup {e.pos}) /\ Cardinality(Captured \cup {e.pos}) = Len(pressed) + 1
  <2>1. IsFiniteSet(Captured) /\ Cardinality(Captured) = Len(pressed)
    <3>1. PressedOnce(pressed) /\ Captured = Positions(pressed)
      BY DEF KeyInv, OnePlace, Captured, Positions
    <3> QED
      BY <1>4, <3>1, KeysCounted DEF Press
  <2> QED
    BY <1>5, <2>1, FS_AddElement
<1>20. ASSUME NEW c \in left PROVE Len(pressed) + 1 <= Cardinality(Keys[c])
  BY <1>17, <1>19, FS_Subset
<1>21. ASSUME full
       PROVE  /\ left = {} /\ over /\ fully' = fully /\ pressed' = pressed
              /\ fully # None /\ Cardinality(Keys[fully]) = Len(pressed)
  <2>1. Len(pressed) = MaxComboKeys /\ captured = pressed
    BY <1>21 DEF full, captured
  <2>2. left = {}
    BY <1>4, <1>17, <1>18, <1>20, <2>1
  <2>3. over /\ ~complete
    BY <1>13, <1>14, <2>2
  <2>4. candidates # {}
    BY <1>4, <1>12, <1>18, <2>1 DEF OrderInv, RuledOut
  <2>5. fully # None /\ Cardinality(Keys[fully]) = MaxComboKeys
    BY <2>1, <2>4 DEF OrderInv, FullIsComplete
  <2> QED
    BY <1>1, <2>1, <2>2, <2>3, <2>5
<1>22. InOrder'
  <2>1. Raised(<<Head(agenda)>>) = {e.pos}
    BY <1>1, <1>3, HeadFacts DEF e
  <2>2. /\ Raised(agenda') \subseteq Raised(agenda)
        /\ \A x, y : RaisedBefore(agenda', x, y) => RaisedBefore(agenda, x, y)
    BY <1>1, <1>11, <2>1, PushedInOrder
  <2>3. CASE full
    BY <1>2, <1>21, <2>2, <2>3, SameOrder, KeptInOrder DEF OrderInv
  <2>4. CASE ~full
    <3> DEFINE t == Tail(agenda)
    <3>1. agenda' = lead \o t /\ t \in Seq(Call)
      BY <1>1, <1>3
    <3>2. /\ \A y \in Raised(t) : RaisedBefore(agenda, e.pos, y)
          /\ \A x, y : RaisedBefore(t, x, y) => RaisedBefore(agenda, x, y)
          /\ Raised(t) \subseteq Raised(agenda)
      BY <1>1, <1>3, RaisedBeforeTail, HeadFacts DEF e
    <3>3. Raised(agenda') \subseteq Raised(t)
      <4>1. Raised(lead \o t) = Raised(lead) \cup Raised(t)
        BY <1>11, <3>1, Joined
      <4> QED
        BY <1>11, <2>4, <3>1, <4>1
    <3>4. /\ \A x, y : CapturedBefore(x, y)' => CapturedBefore(x, y) \/ (x \in Captured /\ y = e.pos)
          /\ Captured' = Captured \cup {e.pos}
      <4>1. pressed' = Append(pressed, k)
        BY <1>1, <2>4 DEF captured
      <4>2. ASSUME NEW i \in DOMAIN pressed', NEW j \in DOMAIN pressed', i < j
            PROVE  \/ CapturedBefore(pressed'[i].pos, pressed'[j].pos)
                   \/ pressed'[i].pos \in Captured /\ pressed'[j].pos = e.pos
        <5>1. i \in 1 .. Len(pressed) + 1 /\ j \in 1 .. Len(pressed) + 1
          BY <1>4, <4>1
        <5>2. i \in DOMAIN pressed /\ pressed'[i] = pressed[i]
          BY <1>4, <4>1, <4>2, <5>1
        <5>3. CASE j = Len(pressed) + 1
          BY <1>4, <1>9, <4>1, <5>2, <5>3 DEF Captured
        <5>4. CASE j # Len(pressed) + 1
          <6>1. j \in DOMAIN pressed /\ pressed'[j] = pressed[j]
            BY <1>4, <4>1, <5>1, <5>4
          <6> QED
            BY <4>2, <5>2, <6>1 DEF CapturedBefore
        <5> QED
          BY <5>3, <5>4
      <4> QED
        BY <1>16, <2>4, <4>2 DEF CapturedBefore
    <3>5. ASSUME NEW x, NEW y, Before(x, y)' PROVE Before(x, y)
      <4> HIDE DEF t
      <4>1. CASE x \in passed' /\ y \in Captured' \cup Raised(agenda')
        BY <1>2, <1>3, <2>2, <3>4, <4>1 DEF Before
      <4>2. CASE CapturedBefore(x, y)'
        BY <1>3, <3>4, <4>2 DEF Before
      <4>3. CASE x \in Captured' /\ y \in Raised(agenda')
        BY <2>2, <3>2, <3>3, <3>4, <4>3 DEF Before
      <4>4. CASE RaisedBefore(agenda', x, y)
        BY <2>2, <4>4 DEF Before
      <4> QED
        BY <3>5, <4>1, <4>2, <4>3, <4>4 DEF Before
    <3> QED
      BY <1>2, <3>5, KeptInOrder DEF OrderInv
  <2> QED
    BY <2>3, <2>4
<1>23. FullIsComplete'
  <2> SUFFICES ASSUME Len(captured) = MaxComboKeys, left # {}
               PROVE  fully' # None /\ Cardinality(Keys[fully']) = MaxComboKeys
    BY <1>1, <1>2 DEF FullIsComplete
  <2>1. ~full
    BY <1>21
  <2>2. Len(captured) = Len(pressed) + 1
    BY <1>4, <2>1 DEF captured
  <2>3. Min(left) \in left
    BY <1>15
  <2>4. Cardinality(Keys[Min(left)]) = Len(captured)
    BY <1>4, <1>17, <1>18, <1>20, <2>2, <2>3
  <2>5. complete
    BY <2>4 DEF complete
  <2>6. fully' = Min(left) /\ fully' \in Combo
    BY <1>1, <1>6, <2>3, <2>5
  <2>7. None \notin Combo
    BY ComboAssumption DEF ComboAssumption, Combo, None
  <2> QED
    BY <2>4, <2>6, <2>7
<1>24. PICK z \in Call : z = Bubble(e.pos, e.at)
  BY <1>10
<1>25. /\ Update.do = "update" /\ Cleanup(NoKey).do = "cleanup"
  BY DEF Update, Cleanup
<1>26. /\ agenda' \in Seq(Call) /\ agenda'[1] = Update /\ 1 \in DOMAIN agenda'
       /\ over => Len(agenda') >= 2 /\ agenda'[2] = Cleanup(NoKey)
       /\ full => 3 \in DOMAIN agenda'
       /\ \A i \in DOMAIN agenda' :
             agenda'[i] \in {Update, Cleanup(NoKey)} \/ (full /\ i = 3) \/ agenda'[i] \in ToSet(Tail(agenda))
  <2> DEFINE p == <<Update>>
             t == Tail(agenda)
  <2>1. \A c \in Call : <<c>> \in Seq(Call) /\ Len(<<c>>) = 1 /\ <<c>>[1] = c
    OBVIOUS
  <2>2. <<>> \in Seq(Call) /\ Len(<<>>) = 0
    OBVIOUS
  <2>3. full => over
    BY <1>21
  <2>4. agenda' = (p \o a \o b) \o t
    BY <1>1 DEF lead
  <2>5. p \in Seq(Call) /\ Len(p) = 1 /\ p[1] = Update /\ t \in Seq(Call)
    BY <1>3, <1>10, <2>1
  <2>6. a \in Seq(Call) /\ (Len(a) = IF over THEN 1 ELSE 0) /\ (over => a[1] = Cleanup(NoKey))
    <3>1. CASE over
      BY <1>10, <2>1, <3>1 DEF a
    <3>2. CASE ~over
      BY <2>2, <3>2 DEF a
    <3> QED
      BY <3>1, <3>2
  <2>7. b \in Seq(Call) /\ (Len(b) = IF full THEN 1 ELSE 0)
    <3>1. CASE full
      BY <1>24, <2>1, <3>1 DEF b
    <3>2. CASE ~full
      BY <2>2, <3>2 DEF b
    <3> QED
      BY <3>1, <3>2
  <2> HIDE DEF p, t
  <2>8. LET u == (p \o a \o b) \o t IN
        /\ u \in Seq(Call) /\ u[1] = p[1] /\ 1 \in DOMAIN u
        /\ Len(a) = 1 => Len(u) >= 2 /\ u[2] = a[1]
        /\ Len(b) = 1 => 3 \in DOMAIN u
        /\ \A i \in DOMAIN u : \/ u[i] = p[1]
                               \/ Len(a) = 1 /\ u[i] = a[1]
                               \/ Len(b) = 1 /\ i = 3
                               \/ u[i] \in ToSet(t)
    <3>1. Len(p) = 1 /\ Len(a) <= 1 /\ Len(b) <= Len(a)
      BY <2>3, <2>5, <2>6, <2>7
    <3>2. p \in Seq(Call) /\ a \in Seq(Call) /\ b \in Seq(Call) /\ t \in Seq(Call)
      BY <2>5, <2>6, <2>7
    <3> QED
      BY <3>1, <3>2, DownCalls
  <2>9. /\ agenda' \in Seq(Call) /\ agenda'[1] = Update /\ 1 \in DOMAIN agenda'
        /\ over => Len(agenda') >= 2 /\ agenda'[2] = Cleanup(NoKey)
        /\ full => 3 \in DOMAIN agenda'
        /\ \A i \in DOMAIN agenda' :
              agenda'[i] \in {Update, Cleanup(NoKey)} \/ (full /\ i = 3) \/ agenda'[i] \in ToSet(t)
    BY <2>4, <2>5, <2>6, <2>7, <2>8
  <2> QED
    BY <2>9 DEF t
<1>27. RuledOut'
  <2> SUFFICES ASSUME left = {} PROVE CleanupNext'
    BY <1>1 DEF RuledOut
  <2> QED
    BY <1>13, <1>25, <1>26 DEF CleanupNext
<1>28. BubblesLast'
  <2> SUFFICES ASSUME NEW i \in DOMAIN agenda', agenda'[i].do = "bubble"
               PROVE  /\ i = 3 /\ agenda'[2] = Cleanup(NoKey) /\ agenda'[1] = Update
                      /\ fully' # None /\ Cardinality(Keys[fully']) = Len(pressed')
    BY <1>2 DEF BubblesLast
  <2>1. \A c \in ToSet(Tail(agenda)) : c.do # "bubble"
    <3>1. \A j \in DOMAIN agenda : agenda[j].do # "bubble"
      BY <1>1, NoBubbles DEF OrderInv, e
    <3>2. \A j \in DOMAIN Tail(agenda) : j + 1 \in DOMAIN agenda /\ Tail(agenda)[j] = agenda[j + 1]
      BY <1>1, <1>3
    <3> QED
      BY <3>1, <3>2 DEF ToSet
  <2>2. full /\ i = 3
    BY <1>25, <1>26, <2>1
  <2> QED
    BY <1>21, <1>26, <2>2
<1> QED
  BY <1>22, <1>23, <1>27, <1>28 DEF OrderInv

LEMMA TimeoutInOrder == KeyInv /\ OrderInv /\ TimeoutHandler => OrderInv'
<1> SUFFICES ASSUME KeyInv, OrderInv, TimeoutHandler PROVE OrderInv'
  OBVIOUS
<1>1. agenda = <<>> /\ UNCHANGED <<build, pressed, fully, held, passed>>
  BY DEF TimeoutHandler, Idle, settings, outside
<1>2. /\ candidates' \subseteq candidates
      /\ \/ agenda' = <<>> /\ candidates' = candidates
         \/ agenda' = <<Cleanup(NoKey), Update>>
         \/ agenda' = <<Update>> /\ candidates' # {}
  BY <1>1 DEF TimeoutHandler, InTime
<1>3. /\ Update.do = "update" /\ Cleanup(NoKey).do = "cleanup"
      /\ ~Raises(Update) /\ ~Raises(Cleanup(NoKey))
  BY DEF Update, Cleanup, Raises
<1>4. \A i \in DOMAIN agenda' : agenda'[i] \in {Update, Cleanup(NoKey)}
  BY <1>2
<1>5. Raised(agenda') = {} /\ \A x, y : ~RaisedBefore(agenda', x, y)
  BY <1>3, <1>4 DEF Raised, RaisedBefore
<1>6. InOrder'
  BY <1>1, <1>5, SameOrder, KeptInOrder DEF OrderInv
<1>7. FullIsComplete'
  BY <1>1, <1>2, SameCandidates DEF OrderInv
<1>8. BubblesLast'
  BY <1>3, <1>4 DEF BubblesLast
<1>9. RuledOut'
  <2>1. CASE agenda' = <<Cleanup(NoKey), Update>>
    BY <1>3, <2>1 DEF RuledOut, CleanupNext
  <2>2. CASE agenda' = <<>> /\ candidates' = candidates
    BY <1>1, <2>2 DEF OrderInv, RuledOut, CleanupNext
  <2> QED
    BY <1>2, <2>1, <2>2 DEF RuledOut
<1> QED
  BY <1>6, <1>7, <1>8, <1>9 DEF OrderInv

\* Nothing is raised while a key goes down or up, and the key itself comes last.
LEMMA IdleInOrder ==
  ASSUME KeyInv, OrderInv, agenda = <<>>, NEW c \in Call, c.do \in {"down", "up"}, agenda' = <<c>>,
         UNCHANGED <<build, pressed, candidates, fully, passed>>
  PROVE  /\ \A x, y : Before(x, y)' => Before(x, y) \/ (Raises(c) /\ y = c.pos)
         /\ RuledOut' /\ FullIsComplete' /\ BubblesLast'
<1>1. DOMAIN agenda' = {1} /\ agenda'[1] = c
  <2>1. \A d \in Call : DOMAIN <<d>> = {1} /\ <<d>>[1] = d
    OBVIOUS
  <2> QED
    BY <2>1
<1>2. Raised(agenda') = (IF Raises(c) THEN {c.pos} ELSE {}) /\ Raised(agenda) = {}
  BY OneCall, NoCall
<1>3. \A x, y : ~RaisedBefore(agenda', x, y)
  BY <1>1 DEF RaisedBefore
<1>4. Captured' = Captured /\ \A x, y : CapturedBefore(x, y)' <=> CapturedBefore(x, y)
  BY DEF Captured, CapturedBefore
<1>5. \A x, y : Before(x, y)' => Before(x, y) \/ (Raises(c) /\ y = c.pos)
  BY <1>2, <1>3, <1>4 DEF Before
<1>6. RuledOut'
  BY DEF OrderInv, RuledOut, CleanupNext
<1>7. FullIsComplete' /\ BubblesLast'
  BY <1>1, SameCandidates DEF OrderInv, BubblesLast
<1> QED
  BY <1>5, <1>6, <1>7

LEMMA KeyDownInOrder == ASSUME KeyInv, OrderInv, NEW p \in Position, KeyDown(p) PROVE OrderInv'
<1>1. /\ agenda = <<>> /\ p \notin ToSet(held) /\ held' = Append(held, p) /\ agenda' = <<Down(p, now)>>
      /\ UNCHANGED <<build, pressed, candidates, fully, passed>>
  BY DEF KeyDown, Idle, settings, engine
<1>2. Down(p, now) \in Call /\ Down(p, now).do \in {"down", "up"} /\ Down(p, now).pos = p
  BY CallsAre DEF Down, KeyInv, Types
<1>3. /\ \A x, y : Before(x, y)' => Before(x, y) \/ y = p
      /\ RuledOut' /\ FullIsComplete' /\ BubblesLast'
  BY <1>1, <1>2, IdleInOrder
<1>4. held \in Seq(Position) /\ Len(held) \in Nat
  BY DEF KeyInv, Types
<1>5. \A y : ~Before(p, y)
  <2>1. p \notin passed \cup Captured /\ Raised(agenda) = {} /\ \A y : ~RaisedBefore(agenda, p, y)
    BY <1>1, NoCall DEF KeyInv, OnePlace, RaisedBefore
  <2>2. \A y : ~CapturedBefore(p, y)
    BY <2>1 DEF CapturedBefore, Captured
  <2> QED
    BY <2>1, <2>2 DEF Before
<1>6. InOrder'
  <2> SUFFICES ASSUME NEW i \in DOMAIN held', NEW j \in DOMAIN held', i < j,
                      NEW x, NEW y, x = held'[j], y = held'[i], Before(x, y)'
               PROVE  FALSE
    BY DEF InOrder
  <2>1. i \in DOMAIN held /\ held'[i] = held[i] /\ held'[i] # p
    BY <1>1, <1>4 DEF ToSet
  <2>2. Before(x, y)
    BY <1>3, <2>1
  <2>3. held'[j] # p
    BY <1>5, <2>2
  <2>4. j \in DOMAIN held /\ held'[j] = held[j]
    BY <1>1, <1>4, <2>3
  <2> QED
    BY <2>1, <2>2, <2>4 DEF OrderInv, InOrder
<1> QED
  BY <1>3, <1>6 DEF OrderInv

LEMMA KeyUpInOrder == ASSUME KeyInv, OrderInv, NEW p \in Position, KeyUp(p) PROVE OrderInv'
<1>1. /\ agenda = <<>> /\ p \in ToSet(held) /\ held' = Without(held, p) /\ agenda' = <<Up(p)>>
      /\ UNCHANGED <<build, pressed, candidates, fully, passed>>
  BY DEF KeyUp, Idle, settings, engine
<1>2. Up(p) \in Call /\ Up(p).do \in {"down", "up"} /\ ~Raises(Up(p))
  BY CallsAre DEF Up, Raises
<1>3. /\ \A x, y : Before(x, y)' => Before(x, y)
      /\ RuledOut' /\ FullIsComplete' /\ BubblesLast'
  BY <1>1, <1>2, IdleInOrder
<1>4. held \in Seq(Position) /\ Distinct(held)
  BY DEF KeyInv, Types, OnePlace, HeldOnce, Distinct
<1>5. \A i, j \in DOMAIN held' : i < j => \E a, b \in DOMAIN held : a < b /\ held[a] = held'[i] /\ held[b] = held'[j]
  BY <1>1, <1>4, WithoutIs
<1>6. InOrder'
  <2> SUFFICES ASSUME NEW i \in DOMAIN held', NEW j \in DOMAIN held', i < j,
                      NEW x, NEW y, x = held'[j], y = held'[i], Before(x, y)'
               PROVE  FALSE
    BY DEF InOrder
  <2>1. PICK a \in DOMAIN held, b \in DOMAIN held : a < b /\ held[a] = held'[i] /\ held[b] = held'[j]
    BY <1>5
  <2> QED
    BY <1>3, <2>1 DEF OrderInv, InOrder
<1> QED
  BY <1>3, <1>6 DEF OrderInv

LEMMA OrderStays ==
  ASSUME OrderInv, UNCHANGED <<build, pressed, candidates, fully, agenda, held, passed>>
  PROVE  OrderInv'
<1>1. \A x, y : Before(x, y)' => Before(x, y)
  BY SameOrder
<1>2. Keys' = Keys
  BY DEF Keys
<1> QED
  BY <1>1, <1>2, KeptInOrder, SameCandidates DEF OrderInv, RuledOut, CleanupNext, BubblesLast

LEMMA StepInOrder ==
  KeyInv /\ TakesKeys /\ NoRest(agenda) /\ OrderInv /\ [Next]_vars /\ ~ActivateNoRoom => OrderInv'
<1> SUFFICES ASSUME KeyInv, TakesKeys, NoRest(agenda), OrderInv, [Next]_vars, ~ActivateNoRoom
             PROVE  OrderInv'
  OBVIOUS
<1>1. CASE DownIgnored \/ BubbleDown \/ UpdateTimeoutTask
  BY <1>1, DownIgnoredInOrder, BubbleDownInOrder, UpdateInOrder
<1>2. CASE PositionStateUp \/ ReleaseComboKey \/ UpAfterCleanup
  BY <1>2, UpInOrder
<1>3. CASE PositionStateDown
  BY <1>3, DownInOrder DEF TakesKeys
<1>4. CASE CleanupOnly \/ ActivateCombo
  BY <1>4, CleanupOnlyInOrder, ActivateInOrder
<1>5. CASE AfterNoRoom
  <2>1. agenda # <<>> /\ Head(agenda).do = "cleanupRest"
    BY <1>5 DEF AfterNoRoom, Doing
  <2> QED
    BY <2>1, NoRestTail
<1>6. CASE TimeoutHandler
  BY <1>6, TimeoutInOrder
<1>7. ASSUME NEW p \in Position, KeyDown(p) \/ KeyUp(p) PROVE OrderInv'
  BY <1>7, KeyDownInOrder, KeyUpInOrder
<1>8. CASE Tick
  BY <1>8, OrderStays DEF Tick, settings, engine
<1>9. ASSUME NEW l, SetLayer(l) PROVE OrderInv'
  BY <1>9, OrderStays DEF SetLayer, settings, engine
<1>10. ASSUME NEW i, NEW f, NEW v, CopyField(i, f, v) PROVE OrderInv'
  BY <1>10, OrderStays DEF CopyField, engine, outside
<1>11. CASE UNCHANGED vars
  BY <1>11, OrderStays DEF vars
<1> QED
  BY <1>1, <1>2, <1>3, <1>4, <1>5, <1>6, <1>7, <1>8, <1>9, <1>10, <1>11 DEF Next, Work

LEMMA InitInOrder == Init => OrderInv
  BY DEF Init, OrderInv, InOrder, RuledOut, FullIsComplete, BubblesLast

\* As long as no combo is completed while active_combos is full
\* (release_pressed_keys, runtime_combo.c), no key passes another that was
\* pressed before it and is captured or to be raised again: what is released is
\* raised in the order of its presses, and a press that found pressed_keys full
\* goes by only once the keys before it are a combo's.
THEOREM NoKeyOvertakes ==
  Spec /\ [][~ActivateNoRoom]_vars => []NoOvertaking
<1> DEFINE I == KeyInv /\ TakesKeys /\ NoRest(agenda) /\ OrderInv
<1>1. Init => I
  BY InitKeyInv, InitTakesKeys, InitInOrder
<1>2. I /\ [Next]_vars /\ [~ActivateNoRoom]_vars => I'
  <2> SUFFICES ASSUME I, [Next]_vars, [~ActivateNoRoom]_vars PROVE I'
    OBVIOUS
  <2>1. CASE ~ActivateNoRoom
    BY <2>1, StepKeyInv, StepTakesKeys, NoRestStep, StepInOrder
  <2>2. CASE UNCHANGED vars
    BY <2>2, KeysStay, TakesKeysStay, OrderStays DEF vars, NoRest, KeyInv, Types
  <2> QED
    BY <2>1, <2>2
<1>3. I => NoOvertaking
  <2> SUFFICES ASSUME I, NEW i \in DOMAIN held, NEW j \in DOMAIN held, i < j, held[j] \in passed,
                      held[i] \in Undecided
               PROVE  FALSE
    BY DEF NoOvertaking
  <2>1. Undecided = Captured \cup Raised(agenda)
    BY DEF Undecided, Raised, Raises
  <2> QED
    BY <2>1 DEF OrderInv, InOrder, Before
<1> QED
  BY <1>1, <1>2, <1>3, PTL DEF Spec
=============================================================================
