----------------------------- MODULE HoldTapProofs -----------------------------
(***************************************************************************)
(* Proofs about the hold-tap engine, for any keyboard, any settings and     *)
(* edits of them, and any order of keys: nothing stays captured once its    *)
(* hold-tap is decided, no event is captured over one that is being raised  *)
(* again, the keymap sees the presses in order, and an undecided hold-tap   *)
(* is always about to be decided.                                           *)
(***************************************************************************)
EXTENDS HoldTap, SequenceTheorems, WellFoundedInduction, TLAPS

-----------------------------------------------------------------------------
(* The inductive invariant.  "cap" stands for captured_events, "on" says    *)
(* that a hold-tap is undecided, "hot" that modifiers are captured.         *)

AnyBinding == [of : Position \cup {NoKey}, as : {"hold", "tap", "key"}]
Sent == [do : {"code"}, code : AnyBinding, down : BOOLEAN, at : Int, from : Nat]
KeyEvent(dos) == [do : dos, pos : Position, down : BOOLEAN, at : Int, n : Nat, from : Nat]
Kept == {Free} \cup Sent \cup KeyEvent({"pos"})

\* The calls the agenda is made of, with S the places of active_hold_taps.
Call(S) ==
    Sent \cup KeyEvent({"pos", "after", "keymap"})
         \cup [do : {"release"}, i : Nat \ {0}]
         \cup [do : {"pressed"}, i : S]
         \cup [do : {"keyUp", "released"}, i : S, at : Int, from : Nat]

TapShape(t) ==
    /\ DOMAIN t = {"pos", "status", "at", "other", "timer"}
    /\ t.pos \in Position \cup {NoKey}
    /\ t.at \in Int

Types ==
    /\ build \in Builds
    /\ DOMAIN taps = Slot /\ \A i \in Slot : TapShape(taps[i])
    /\ undecided \in Slot \cup {None}
    /\ captured \in [Place -> Kept]
    /\ agenda \in Seq(Call(Slot))
    /\ now \in Int /\ serial \in Nat

\* What is captured belongs to the undecided hold-tap, or some release_captured_events
\* under way has yet to come to it, with no free place on its way.
Taken(cap, a, b) == \A k \in a .. b : k \in DOMAIN cap => cap[k] # Free
Covers(c, cap, j) == c.do = "release" /\ c.i <= j /\ Taken(cap, c.i, j)
Owned(ag, cap, on) ==
    \A j \in DOMAIN cap :
        cap[j] # Free => (on /\ Taken(cap, 1, j)) \/ \E n \in DOMAIN ag : Covers(ag[n], cap, j)

OwnedInv == Types /\ Owned(agenda, captured, undecided # None)

\* A call handles an event, maybe one raised again; what is marked is such a call,
\* by the place the event lies in, or a release_captured_events, by its next place.
Handles(x) == x.do \in {"pos", "after", "keymap", "keyUp", "released"}
Marked(x) == x.do = "release" \/ (Handles(x) /\ x.from # None)
Mark(x) == IF x.do = "release" THEN x.i ELSE x.from
SendsMod(x) == x.do = "code" /\ IsMod(x.code)

FreeUnder(cap, k) == \E j \in DOMAIN cap : j < k /\ cap[j] = Free
TwoFreeUnder(cap, k) == \E i, j \in DOMAIN cap : i < j /\ j < k /\ cap[i] = Free /\ cap[j] = Free
FreeBefore(cap, k) == k - 1 \in DOMAIN cap /\ cap[k - 1] = Free

\* The place an event was raised from is free, and while a hold-tap is undecided
\* what is captured finds a place before it.
Clear(x, cap, on) ==
    /\ Handles(x) /\ x.from # None => x.from \in DOMAIN cap /\ cap[x.from] = Free
    /\ Marked(x) /\ on => FreeUnder(cap, Mark(x))

\* What a call x may have behind it: no keycode waits behind another call and no two
\* modifiers are under way; the marks go up; a modifier that will be captured leaves
\* another place free before every mark.
InOrder(x, y, cap, hot) ==
    /\ y.do = "code" => x.do = "code" /\ ~(SendsMod(x) /\ SendsMod(y))
    /\ y.do \in {"pos", "keymap"} => x.do = "code" /\ ~SendsMod(x)
    /\ Handles(x) /\ x.from = None => ~Marked(y)
    /\ Marked(x) /\ Marked(y) =>
          Mark(x) < Mark(y) \/ (x.do = "release" /\ Handles(y) /\ Mark(x) = Mark(y))
    /\ (Handles(x) \/ x.do = "release") /\ y.do = "release" => FreeBefore(cap, y.i)
    /\ hot /\ SendsMod(x) /\ Marked(y) => TwoFreeUnder(cap, Mark(y))

Clears(ag, cap, on) == \A n \in DOMAIN ag : Clear(ag[n], cap, on)
Ordered(ag, cap, hot) == \A m, n \in DOMAIN ag : m < n => InOrder(ag[m], ag[n], cap, hot)
Calls(ag, cap, on, hot) == Clears(ag, cap, on) /\ Ordered(ag, cap, hot)

\* The keycode listener captures modifiers.
Hot == undecided # None /\ ~Config[taps[undecided].pos].early

CallsInv == OwnedInv /\ Calls(agenda, captured, undecided # None, Hot)

\* No hold-tap with a modifier as its hold binding is a retro tap that waits with
\* pressing it, or releases twice what it pressed early.
Calm ==
    \A b \in Builds : \A p \in ModHolds :
        /\ b.config[p].retro => b.config[p].early
        /\ ~(b.config[p].early /\ b.config[p].linger)

-----------------------------------------------------------------------------
(* The operators of the model. *)

\* A set of natural numbers has a least one.
LEMMA MinIs ==
  ASSUME NEW T \in SUBSET Nat, T # {}
  PROVE  Min(T) \in T /\ \A y \in T : Min(T) <= y
<1> DEFINE R == {ss \in Nat \X Nat : ss[1] < ss[2]}
<1>1. IsWellFoundedOn(R, Nat)
  BY NatLessThanWellFounded DEF OpToRel
<1>2. PICK x \in T : \A y \in T : <<y, x>> \notin R
  <2> HIDE DEF R
  <2> QED
    BY <1>1, WFMin
<1>3. \A y, z \in Nat : y < z => <<y, z>> \in R
  OBVIOUS
<1>4. \A y \in T : x <= y
  <2> SUFFICES ASSUME NEW y \in T, ~(x <= y) PROVE FALSE
    OBVIOUS
  <2>1. x \in Nat /\ y \in Nat /\ y < x
    OBVIOUS
  <2> HIDE DEF R
  <2> QED
    BY <1>2, <1>3, <2>1
<1> QED
  BY <1>4 DEF Min

\* The fields of a call.
LEMMA CallFields ==
  ASSUME NEW S, NEW x \in Call(S)
  PROVE  /\ x.do \in {"code", "pos", "after", "keymap", "release", "pressed", "keyUp", "released"}
         /\ x.do = "release" => x.i \in Nat \ {0}
         /\ Handles(x) => x.from \in Nat
         /\ x.do = "code" => x \in Sent
         /\ x.do \in {"pos", "after", "keymap"} => x \in KeyEvent({"pos", "after", "keymap"})
         /\ x.do \in {"pressed", "keyUp", "released"} => x.i \in S
         /\ x.do \in {"keyUp", "released"} => x.at \in Int
         /\ Marked(x) => Mark(x) \in Nat \ {0}
<1>1. CASE x \in Sent
  BY <1>1 DEF Sent, Handles, Marked
<1>2. CASE x \in KeyEvent({"pos", "after", "keymap"})
  BY <1>2 DEF KeyEvent, Handles, Marked, Mark, None
<1>3. CASE x \in [do : {"release"}, i : Nat \ {0}]
  BY <1>3 DEF Handles, Marked, Mark
<1>4. CASE x \in [do : {"pressed"}, i : S]
  BY <1>4 DEF Handles, Marked, Mark
<1>5. CASE x \in [do : {"keyUp", "released"}, i : S, at : Int, from : Nat]
  BY <1>5 DEF Handles, Marked, Mark, None
<1> QED
  BY <1>1, <1>2, <1>3, <1>4, <1>5 DEF Call

\* What a sequence of calls put before another holds, place by place.
LEMMA Joined ==
  ASSUME NEW S, NEW a \in Seq(S), NEW b \in Seq(S)
  PROVE  /\ a \o b \in Seq(S)
         /\ DOMAIN (a \o b) = 1 .. Len(a) + Len(b)
         /\ \A n \in DOMAIN a : n \in DOMAIN (a \o b) /\ (a \o b)[n] = a[n]
         /\ \A n \in DOMAIN b : Len(a) + n \in DOMAIN (a \o b) /\ (a \o b)[Len(a) + n] = b[n]
         /\ \A n \in DOMAIN (a \o b) :
               \/ n \in DOMAIN a /\ (a \o b)[n] = a[n]
               \/ n > Len(a) /\ n - Len(a) \in DOMAIN b /\ (a \o b)[n] = b[n - Len(a)]
<1> DEFINE t == a \o b
<1>1. /\ t \in Seq(S) /\ Len(t) = Len(a) + Len(b)
      /\ \A i \in 1 .. Len(a) + Len(b) : t[i] = IF i <= Len(a) THEN a[i] ELSE b[i - Len(a)]
  BY ConcatProperties
<1>2. DOMAIN a = 1 .. Len(a) /\ DOMAIN b = 1 .. Len(b) /\ DOMAIN t = 1 .. Len(t)
  BY <1>1
<1>3. Len(a) \in Nat /\ Len(b) \in Nat
  OBVIOUS
<1> HIDE DEF t
<1>4. \A n \in DOMAIN a : n \in DOMAIN t /\ t[n] = a[n]
  BY <1>1, <1>2, <1>3
<1>5. \A n \in DOMAIN b : Len(a) + n \in DOMAIN t /\ t[Len(a) + n] = b[n]
  <2> SUFFICES ASSUME NEW n \in DOMAIN b PROVE Len(a) + n \in DOMAIN t /\ t[Len(a) + n] = b[n]
    OBVIOUS
  <2>1. Len(a) + n \in 1 .. Len(a) + Len(b) /\ ~(Len(a) + n <= Len(a)) /\ (Len(a) + n) - Len(a) = n
    BY <1>2, <1>3
  <2> QED
    BY <1>1, <1>2, <2>1
<1>6. \A n \in DOMAIN t :
         \/ n \in DOMAIN a /\ t[n] = a[n]
         \/ n > Len(a) /\ n - Len(a) \in DOMAIN b /\ t[n] = b[n - Len(a)]
  BY <1>1, <1>2, <1>3
<1> QED
  BY <1>1, <1>2, <1>4, <1>5, <1>6 DEF t

\* The first call and the others.
LEMMA Behind ==
  ASSUME NEW S, NEW s \in Seq(S), s # <<>>
  PROVE  /\ Head(s) \in S /\ Tail(s) \in Seq(S)
         /\ 1 \in DOMAIN s /\ s[1] = Head(s)
         /\ \A n \in DOMAIN Tail(s) : n + 1 \in DOMAIN s /\ Tail(s)[n] = s[n + 1] /\ n \in Nat \ {0} /\ Tail(s)[n] \in S
         /\ \A n \in DOMAIN s : n = 1 \/ (n - 1 \in DOMAIN Tail(s) /\ s[n] = Tail(s)[n - 1])
<1>1. Len(s) \in Nat \ {0} /\ DOMAIN s = 1 .. Len(s)
  OBVIOUS
<1>2. /\ Head(s) \in S /\ Tail(s) \in Seq(S) /\ Len(Tail(s)) = Len(s) - 1
      /\ \A i \in 1 .. Len(Tail(s)) : Tail(s)[i] = s[i + 1]
  BY HeadTailProperties
<1>3. DOMAIN Tail(s) = 1 .. Len(s) - 1
  BY <1>2
<1>4. Head(s) = s[1]
  OBVIOUS
<1>5. \A n \in DOMAIN Tail(s) : n + 1 \in DOMAIN s /\ Tail(s)[n] = s[n + 1] /\ n \in Nat \ {0} /\ Tail(s)[n] \in S
  BY <1>1, <1>2, <1>3
<1>6. ASSUME NEW n \in DOMAIN s, n # 1 PROVE n - 1 \in DOMAIN Tail(s) /\ s[n] = Tail(s)[n - 1]
  <2>1. n - 1 \in 1 .. Len(s) - 1 /\ (n - 1) + 1 = n
    BY <1>1, <1>6
  <2> QED
    BY <1>2, <1>3, <2>1
<1> QED
  BY <1>1, <1>2, <1>4, <1>5, <1>6

-----------------------------------------------------------------------------
(* The order of calls. *)

\* Two sequences of calls in order, one after the other.
LEMMA JoinCalls ==
  ASSUME NEW S, NEW a \in Seq(S), NEW b \in Seq(S), NEW cap, NEW on, NEW hot,
         Calls(a, cap, on, hot), Calls(b, cap, on, hot),
         \A m \in DOMAIN a, n \in DOMAIN b : InOrder(a[m], b[n], cap, hot)
  PROVE  Calls(a \o b, cap, on, hot)
<1> DEFINE t == a \o b
<1>1. \A n \in DOMAIN t :
         \/ n \in DOMAIN a /\ t[n] = a[n]
         \/ n > Len(a) /\ n - Len(a) \in DOMAIN b /\ t[n] = b[n - Len(a)]
  BY Joined
<1>2. DOMAIN a = 1 .. Len(a) /\ DOMAIN b = 1 .. Len(b) /\ Len(a) \in Nat /\ Len(b) \in Nat
  OBVIOUS
<1>3. DOMAIN t \subseteq Nat
  BY Joined
<1> HIDE DEF t
<1>4. Clears(t, cap, on)
  BY <1>1 DEF Calls, Clears
<1>5. ASSUME NEW m \in DOMAIN t, NEW n \in DOMAIN t, m < n PROVE InOrder(t[m], t[n], cap, hot)
  <2>1. m \in Nat /\ n \in Nat
    BY <1>3
  <2>2. CASE n \in DOMAIN a /\ t[n] = a[n]
    <3>1. m \in DOMAIN a /\ t[m] = a[m]
      BY <1>1, <1>2, <1>5, <2>1, <2>2
    <3> QED
      BY <1>5, <2>2, <3>1 DEF Calls, Ordered
  <2>3. CASE n > Len(a) /\ n - Len(a) \in DOMAIN b /\ t[n] = b[n - Len(a)]
    <3>1. CASE m \in DOMAIN a /\ t[m] = a[m]
      BY <2>3, <3>1
    <3>2. CASE m > Len(a) /\ m - Len(a) \in DOMAIN b /\ t[m] = b[m - Len(a)]
      <4>1. m - Len(a) < n - Len(a)
        BY <1>2, <1>5, <2>1
      <4> QED
        BY <2>3, <3>2, <4>1 DEF Calls, Ordered
    <3> QED
      BY <1>1, <3>1, <3>2
  <2> QED
    BY <1>1, <2>2, <2>3
<1> QED
  BY <1>4, <1>5 DEF Calls, Ordered, t

\* A single call is in order.
LEMMA OneCall ==
  ASSUME NEW x, NEW cap, NEW on, NEW hot, Clear(x, cap, on)
  PROVE  Calls(<<x>>, cap, on, hot)
<1>1. DOMAIN <<x>> = {1} /\ <<x>>[1] = x
  OBVIOUS
<1>2. Clears(<<x>>, cap, on)
  BY <1>1 DEF Clears
<1>3. Ordered(<<x>>, cap, hot)
  BY <1>1 DEF Ordered
<1> QED
  BY <1>2, <1>3 DEF Calls

\* What is behind the first call.
LEMMA TailCalls ==
  ASSUME NEW S, NEW s \in Seq(S), s # <<>>, NEW cap, NEW on, NEW hot, Calls(s, cap, on, hot)
  PROVE  /\ Clear(Head(s), cap, on)
         /\ Calls(Tail(s), cap, on, hot)
         /\ \A n \in DOMAIN Tail(s) : InOrder(Head(s), Tail(s)[n], cap, hot)
<1> DEFINE t == Tail(s)
           x == Head(s)
<1>1. /\ 1 \in DOMAIN s /\ s[1] = x
      /\ \A n \in DOMAIN t : n + 1 \in DOMAIN s /\ t[n] = s[n + 1] /\ n \in Nat \ {0}
  BY Behind
<1> HIDE DEF t, x
<1>2. Clear(x, cap, on)
  BY <1>1 DEF Calls, Clears
<1>3. Clears(t, cap, on)
  BY <1>1 DEF Calls, Clears
<1>4. Ordered(t, cap, hot)
  <2> SUFFICES ASSUME NEW m \in DOMAIN t, NEW n \in DOMAIN t, m < n
               PROVE  InOrder(t[m], t[n], cap, hot)
    BY DEF Ordered
  <2>1. m \in Nat /\ n \in Nat /\ m + 1 \in DOMAIN s /\ n + 1 \in DOMAIN s /\ t[m] = s[m + 1] /\ t[n] = s[n + 1]
    BY <1>1
  <2>2. m + 1 < n + 1
    BY <2>1
  <2> QED
    BY <2>1, <2>2 DEF Calls, Ordered
<1>5. \A n \in DOMAIN t : InOrder(x, t[n], cap, hot)
  <2> SUFFICES ASSUME NEW n \in DOMAIN t PROVE InOrder(x, t[n], cap, hot)
    OBVIOUS
  <2>1. n + 1 \in DOMAIN s /\ t[n] = s[n + 1] /\ 1 < n + 1
    BY <1>1
  <2> QED
    BY <1>1, <2>1 DEF Calls, Ordered
<1> QED
  BY <1>2, <1>3, <1>4, <1>5 DEF Calls, t, x

\* Behind a call that handles an event or raises one there are no keycodes and no
\* events that are about to reach the listener or the keymap.
Later(y, cap) ==
    /\ y.do \notin {"code", "pos", "keymap"}
    /\ y.do = "release" => FreeBefore(cap, y.i)
AllLater(s, cap) == \A n \in DOMAIN s : Later(s[n], cap)

LEMMA LaterIs ==
  ASSUME NEW S, NEW s \in Seq(S), s # <<>>, NEW cap, NEW on, NEW hot, Calls(s, cap, on, hot),
         Handles(Head(s)) \/ Head(s).do = "release"
  PROVE  AllLater(Tail(s), cap)
<1>1. \A n \in DOMAIN Tail(s) : InOrder(Head(s), Tail(s)[n], cap, hot)
  BY TailCalls
<1>2. Head(s).do # "code"
  BY DEF Handles
<1> SUFFICES ASSUME NEW n \in DOMAIN Tail(s) PROVE Later(Tail(s)[n], cap)
  BY DEF AllLater
<1>3. InOrder(Head(s), Tail(s)[n], cap, hot)
  BY <1>1
<1> QED
  BY <1>2, <1>3 DEF InOrder, Later

\* Without keycodes it does not matter whether modifiers are captured.
LEMMA NoCodes ==
  ASSUME NEW s, NEW cap, NEW on, NEW hot, NEW other, Calls(s, cap, on, hot),
         \A n \in DOMAIN s : s[n].do # "code"
  PROVE  Calls(s, cap, on, other)
<1> SUFFICES ASSUME NEW m \in DOMAIN s, NEW n \in DOMAIN s, m < n
             PROVE  InOrder(s[m], s[n], cap, other)
  BY DEF Calls, Ordered
<1>1. InOrder(s[m], s[n], cap, hot) /\ ~SendsMod(s[m])
  BY DEF Calls, Ordered, SendsMod
<1> QED
  BY <1>1 DEF InOrder

\* Once no hold-tap is undecided nothing has to be free.
LEMMA CalmDown ==
  ASSUME NEW s, NEW cap, NEW on, NEW hot, Calls(s, cap, on, hot)
  PROVE  Calls(s, cap, FALSE, FALSE)
<1>1. Clears(s, cap, FALSE)
  BY DEF Calls, Clears, Clear
<1>2. Ordered(s, cap, FALSE)
  <2> SUFFICES ASSUME NEW m \in DOMAIN s, NEW n \in DOMAIN s, m < n
               PROVE  InOrder(s[m], s[n], cap, FALSE)
    BY DEF Ordered
  <2>1. InOrder(s[m], s[n], cap, hot)
    BY DEF Calls, Ordered
  <2> QED
    BY <2>1 DEF InOrder
<1> QED
  BY <1>1, <1>2 DEF Calls

\* The keycodes a call sends are at most two, and one of them at most a modifier.
Codes(cs) ==
    /\ cs \in Seq(Sent)
    /\ \A m, n \in DOMAIN cs : SendsMod(cs[m]) /\ SendsMod(cs[n]) => m = n

\* Keycodes sent before calls that are later.
LEMMA SendCodes ==
  ASSUME NEW S, NEW cs \in Seq(S), NEW rest \in Seq(S), NEW cap, NEW on, NEW hot,
         Codes(cs), Calls(rest, cap, on, hot), \A n \in DOMAIN rest : rest[n].do # "code",
         \A m \in DOMAIN cs, n \in DOMAIN rest :
            SendsMod(cs[m]) => /\ rest[n].do \notin {"pos", "keymap"}
                               /\ hot /\ Marked(rest[n]) => TwoFreeUnder(cap, Mark(rest[n]))
  PROVE  Calls(cs \o rest, cap, on, hot)
<1>1. \A m \in DOMAIN cs : cs[m].do = "code"
  <2>1. \A m \in DOMAIN cs : cs[m] \in Sent
    BY DEF Codes
  <2> QED
    BY <2>1 DEF Sent
<1>2. \A m \in DOMAIN cs : ~Handles(cs[m]) /\ ~Marked(cs[m]) /\ cs[m].do \notin {"pos", "keymap", "release"}
  BY <1>1 DEF Handles, Marked
<1>3. Calls(cs, cap, on, hot)
  <2>1. Clears(cs, cap, on)
    BY <1>2 DEF Clears, Clear
  <2>2. Ordered(cs, cap, hot)
    <3> SUFFICES ASSUME NEW m \in DOMAIN cs, NEW n \in DOMAIN cs, m < n
                 PROVE  InOrder(cs[m], cs[n], cap, hot)
      BY DEF Ordered
    <3>1. ~(SendsMod(cs[m]) /\ SendsMod(cs[n]))
      <4>1. m # n
        BY DEF Codes
      <4> QED
        BY <4>1 DEF Codes
    <3> QED
      BY <1>1, <1>2, <3>1 DEF InOrder
  <2> QED
    BY <2>1, <2>2 DEF Calls
<1>4. ASSUME NEW m \in DOMAIN cs, NEW n \in DOMAIN rest PROVE InOrder(cs[m], rest[n], cap, hot)
  BY <1>1, <1>2 DEF InOrder
<1> QED
  BY <1>3, <1>4, JoinCalls

\* A hold-tap is decided: its keycodes and release_captured_events come first.
LEMMA DecidedCalls ==
  ASSUME NEW S, NEW cs \in Seq(Call(S)), NEW rest \in Seq(Call(S)), NEW cap, NEW on, NEW hot,
         DOMAIN cap \subseteq Nat \ {0},
         Codes(cs), Calls(rest, cap, on, hot), AllLater(rest, cap)
  PROVE  Calls((cs \o <<Release(1)>>) \o rest, cap, FALSE, FALSE)
<1> DEFINE r == <<Release(1)>>
<1>1. r \in Seq(Call(S)) /\ DOMAIN r = {1} /\ r[1] = Release(1)
  BY DEF Call, Release
<1>2. /\ r[1].do = "release" /\ r[1].i = 1
  BY <1>1 DEF Release
<1>3. Calls(r, cap, FALSE, FALSE)
  <2>1. Clear(Release(1), cap, FALSE)
    BY DEF Clear, Release, Handles
  <2> QED
    BY <2>1, OneCall
<1>4. Calls(rest, cap, FALSE, FALSE)
  BY CalmDown
<1> DEFINE rr == r \o rest
<1>5. Calls(rr, cap, FALSE, FALSE)
  <2> SUFFICES ASSUME NEW m \in DOMAIN r, NEW n \in DOMAIN rest
               PROVE  InOrder(r[m], rest[n], cap, FALSE)
    BY <1>1, <1>3, <1>4, JoinCalls
  <2>1. m = 1 /\ Later(rest[n], cap)
    BY <1>1 DEF AllLater
  <2>2. r[m].do = "release" /\ Mark(r[m]) = 1 /\ ~Handles(r[m]) /\ ~SendsMod(r[m])
    BY <1>2, <2>1 DEF Mark, Handles, SendsMod
  <2>3. rest[n] \in Call(S)
    OBVIOUS
  <2>4. Marked(rest[n]) => Mark(rest[n]) \in Nat \ {0}
    BY <2>3, CallFields
  <2>5. Marked(rest[n]) /\ ~Handles(rest[n]) => rest[n].do = "release"
    BY DEF Marked
  <2>6. rest[n].do = "release" => Mark(rest[n]) # 1
    <3> SUFFICES ASSUME rest[n].do = "release", rest[n].i = 1 PROVE FALSE
      BY DEF Mark
    <3>1. FreeBefore(cap, 1) /\ 0 \in DOMAIN cap
      BY <2>1 DEF Later, FreeBefore
    <3> QED
      BY <3>1
  <2> HIDE DEF r
  <2> QED
    BY <2>1, <2>2, <2>4, <2>5, <2>6 DEF InOrder, Later
<1>6. rr \in Seq(Call(S))
  BY <1>1, Joined
<1>7. \A n \in DOMAIN rr : rr[n].do \notin {"code", "pos", "keymap"}
  <2> SUFFICES ASSUME NEW n \in DOMAIN rr PROVE rr[n].do \notin {"code", "pos", "keymap"}
    OBVIOUS
  <2>1. \/ n \in DOMAIN r /\ rr[n] = r[n]
        \/ n - Len(r) \in DOMAIN rest /\ rr[n] = rest[n - Len(r)]
    BY <1>1, Joined
  <2> HIDE DEF r, rr
  <2> QED
    BY <1>1, <1>2, <2>1 DEF AllLater, Later
<1> HIDE DEF rr
<1>8. Calls(cs \o rr, cap, FALSE, FALSE)
  BY <1>5, <1>6, <1>7, SendCodes
<1> HIDE DEF r
<1>9. (cs \o r) \o rest = cs \o (r \o rest)
  BY <1>1, ConcatAssociative
<1> QED
  BY <1>8, <1>9 DEF rr, r

\* One call takes the place of another that handles the same event.
LEMMA Replaced ==
  ASSUME NEW S, NEW s \in Seq(S), s # <<>>, NEW z \in S, NEW cap, NEW on, NEW hot, Calls(s, cap, on, hot),
         Handles(Head(s)), Handles(z), z.from = Head(s).from
  PROVE  Calls(<<z>> \o Tail(s), cap, on, hot)
<1>1. /\ Clear(Head(s), cap, on) /\ Calls(Tail(s), cap, on, hot)
      /\ \A n \in DOMAIN Tail(s) : InOrder(Head(s), Tail(s)[n], cap, hot)
  BY TailCalls
<1>2. /\ Head(s).do # "release" /\ z.do # "release" /\ Head(s).do # "code" /\ z.do # "code"
      /\ Mark(z) = Mark(Head(s)) /\ (Marked(z) <=> Marked(Head(s))) /\ ~SendsMod(z) /\ ~SendsMod(Head(s))
  BY DEF Handles, Marked, Mark, SendsMod
<1>3. Clear(z, cap, on)
  BY <1>1, <1>2 DEF Clear
<1>4. <<z>> \in Seq(S) /\ DOMAIN <<z>> = {1} /\ <<z>>[1] = z /\ Tail(s) \in Seq(S)
  BY Behind
<1>5. Calls(<<z>>, cap, on, hot)
  BY <1>3, OneCall
<1>6. ASSUME NEW m \in DOMAIN <<z>>, NEW n \in DOMAIN Tail(s) PROVE InOrder(<<z>>[m], Tail(s)[n], cap, hot)
  <2>1. <<z>>[m] = z /\ InOrder(Head(s), Tail(s)[n], cap, hot)
    BY <1>1, <1>4
  <2> QED
    BY <1>2, <2>1 DEF InOrder
<1> QED
  BY <1>1, <1>4, <1>5, <1>6, JoinCalls

\* The marks of a call and of those behind one that handles an event.
LEMMA MarksBehind ==
  ASSUME NEW S, NEW s \in Seq(Call(S)), s # <<>>, NEW cap, NEW on, NEW hot, Calls(s, cap, on, hot),
         DOMAIN cap \subseteq Nat \ {0}, Handles(Head(s)), on,
         NEW n \in DOMAIN Tail(s), Marked(Tail(s)[n])
  PROVE  TwoFreeUnder(cap, Mark(Tail(s)[n]))
<1> DEFINE x == Head(s)
           y == Tail(s)[n]
<1>1. Clear(x, cap, on) /\ InOrder(x, y, cap, hot)
  BY TailCalls
<1>2. x \in Call(S) /\ y \in Call(S)
  BY Behind
<1>3. x.do # "release" /\ Mark(x) = x.from
  BY DEF Handles, Mark
<1>4. Mark(y) \in Nat
  BY <1>2, CallFields
<1> HIDE DEF x, y
<1>5. x.from # None /\ Marked(x)
  BY <1>1 DEF InOrder, Marked, x, y
<1>6. x.from \in DOMAIN cap /\ cap[x.from] = Free /\ FreeUnder(cap, x.from)
  BY <1>1, <1>3, <1>5 DEF Clear, x
<1>7. x.from < Mark(y)
  BY <1>1, <1>3, <1>5 DEF InOrder, x, y
<1> QED
  BY <1>6, <1>7 DEF FreeUnder, TwoFreeUnder, y

\* The first free place is taken.
LEMMA PlaceTaken ==
  ASSUME NEW S, NEW s \in Seq(Call(S)), NEW cap, NEW on, NEW hot, NEW then, Calls(s, cap, on, hot),
         DOMAIN cap \subseteq Nat \ {0}, then => on,
         \A n \in DOMAIN s : ~SendsMod(s[n]),
         \A n \in DOMAIN s : Marked(s[n]) => TwoFreeUnder(cap, Mark(s[n])),
         NEW f \in DOMAIN cap, cap[f] = Free, \A j \in DOMAIN cap : cap[j] = Free => f <= j,
         NEW e
  PROVE  /\ Calls(s, [cap EXCEPT ![f] = e], then, hot)
         /\ AllLater(s, cap) => AllLater(s, [cap EXCEPT ![f] = e])
<1> DEFINE d == [cap EXCEPT ![f] = e]
<1>1. DOMAIN d = DOMAIN cap /\ \A j \in DOMAIN cap : j # f => d[j] = cap[j]
  OBVIOUS
<1> HIDE DEF d
<1>2. ASSUME NEW n \in DOMAIN s, Marked(s[n])
      PROVE  Mark(s[n]) \in Nat /\ FreeUnder(d, Mark(s[n])) /\ f < Mark(s[n]) /\ f # Mark(s[n]) - 1
  <2>1. PICK i, j \in DOMAIN cap : i < j /\ j < Mark(s[n]) /\ cap[i] = Free /\ cap[j] = Free
    BY <1>2 DEF TwoFreeUnder
  <2>2. s[n] \in Call(S)
    OBVIOUS
  <2>3. Mark(s[n]) \in Nat
    BY <1>2, <2>2, CallFields
  <2>4. i \in Nat /\ j \in Nat /\ f \in Nat /\ f <= i
    BY <2>1
  <2>5. j # f /\ f < Mark(s[n]) /\ f # Mark(s[n]) - 1
    BY <2>1, <2>3, <2>4
  <2>6. d[j] = Free
    BY <1>1, <2>1, <2>5
  <2> QED
    BY <1>1, <2>1, <2>3, <2>5, <2>6 DEF FreeUnder
<1>3. ASSUME NEW n \in DOMAIN s PROVE Clear(s[n], d, then)
  <2>1. Clear(s[n], cap, on)
    BY DEF Calls, Clears
  <2>2. CASE Marked(s[n])
    <3>1. Handles(s[n]) /\ s[n].from # None => s[n].from \in DOMAIN d /\ d[s[n].from] = Free
      <4> SUFFICES ASSUME Handles(s[n]), s[n].from # None PROVE s[n].from \in DOMAIN d /\ d[s[n].from] = Free
        OBVIOUS
      <4>1. Mark(s[n]) = s[n].from
        BY DEF Mark, Handles
      <4>2. f # s[n].from
        BY <1>2, <2>2, <4>1
      <4> QED
        BY <1>1, <2>1, <4>2 DEF Clear
    <3> QED
      BY <1>2, <2>2, <3>1 DEF Clear
  <2>3. CASE ~Marked(s[n])
    BY <2>3 DEF Clear, Marked
  <2> QED
    BY <2>2, <2>3
<1>4. ASSUME NEW n \in DOMAIN s, s[n].do = "release", FreeBefore(cap, s[n].i)
      PROVE  FreeBefore(d, s[n].i)
  <2>1. Marked(s[n]) /\ Mark(s[n]) = s[n].i
    BY <1>4 DEF Marked, Mark
  <2>2. f # s[n].i - 1
    BY <1>2, <2>1
  <2> QED
    BY <1>1, <1>4, <2>2 DEF FreeBefore
<1>5. ASSUME NEW m \in DOMAIN s, NEW n \in DOMAIN s, m < n PROVE InOrder(s[m], s[n], d, hot)
  <2>1. InOrder(s[m], s[n], cap, hot)
    BY <1>5 DEF Calls, Ordered
  <2>2. ~SendsMod(s[m])
    OBVIOUS
  <2> QED
    BY <1>4, <2>1, <2>2 DEF InOrder
<1>6. AllLater(s, cap) => AllLater(s, d)
  BY <1>4 DEF AllLater, Later
<1> QED
  BY <1>3, <1>5, <1>6 DEF Calls, Clears, Ordered, d

\* A place becomes free.
LEMMA PlaceFreed ==
  ASSUME NEW s, NEW cap, NEW on, NEW hot, Calls(s, cap, on, hot), NEW i \in DOMAIN cap
  PROVE  Calls(s, [cap EXCEPT ![i] = Free], on, hot)
<1> DEFINE d == [cap EXCEPT ![i] = Free]
<1>1. DOMAIN d = DOMAIN cap /\ \A j \in DOMAIN cap : cap[j] = Free => d[j] = Free
  OBVIOUS
<1> HIDE DEF d
<1>2. \A k : FreeUnder(cap, k) => FreeUnder(d, k)
  BY <1>1 DEF FreeUnder
<1>3. \A k : TwoFreeUnder(cap, k) => TwoFreeUnder(d, k)
  BY <1>1 DEF TwoFreeUnder
<1>4. \A k : FreeBefore(cap, k) => FreeBefore(d, k)
  BY <1>1 DEF FreeBefore
<1>5. ASSUME NEW n \in DOMAIN s PROVE Clear(s[n], d, on)
  <2>1. Clear(s[n], cap, on)
    BY DEF Calls, Clears
  <2> QED
    BY <1>1, <1>2, <2>1 DEF Clear
<1>6. ASSUME NEW m \in DOMAIN s, NEW n \in DOMAIN s, m < n PROVE InOrder(s[m], s[n], d, hot)
  <2>1. InOrder(s[m], s[n], cap, hot)
    BY <1>6 DEF Calls, Ordered
  <2> QED
    BY <1>3, <1>4, <2>1 DEF InOrder
<1> QED
  BY <1>5, <1>6 DEF Calls, Clears, Ordered, d

\* The event in place i is raised again, and release_captured_events goes on behind it.
LEMMA RaisedCalls ==
  ASSUME NEW S, NEW s \in Seq(Call(S)), s # <<>>, NEW cap, NEW on, NEW hot, Calls(s, cap, on, hot),
         DOMAIN cap \subseteq Nat \ {0},
         hot => on, Head(s).do = "release", NEW i, i = Head(s).i, i \in DOMAIN cap, cap[i] # Free,
         NEW e \in Call(S), e.do \in {"pos", "code"}, e.from = i
  PROVE  Calls(<<e, Release(i + 1)>> \o Tail(s), [cap EXCEPT ![i] = Free], on, hot)
<1> DEFINE d == [cap EXCEPT ![i] = Free]
           r == Release(i + 1)
           t == Tail(s)
<1>1. DOMAIN d = DOMAIN cap /\ d[i] = Free /\ (\A j \in DOMAIN cap : cap[j] = Free => d[j] = Free) /\ i \in Nat \ {0}
  OBVIOUS
<1>2. Calls(s, d, on, hot)
  BY PlaceFreed
<1>3. r \in Call(S) /\ r.do = "release" /\ r.i = i + 1
  BY <1>1 DEF Call, Release
<1>4. /\ Clear(Head(s), cap, on)
      /\ \A n \in DOMAIN t : InOrder(Head(s), t[n], cap, hot)
  BY TailCalls
<1>5. Calls(t, d, on, hot)
  BY <1>2, TailCalls
<1>6. t \in Seq(Call(S))
  BY Behind
<1> HIDE DEF d, r, t
<1>7. ~Handles(Head(s)) /\ Marked(Head(s)) /\ Mark(Head(s)) = i /\ Head(s).do # "code"
  BY DEF Handles, Marked, Mark
<1>8. Marked(r) /\ Mark(r) = i + 1 /\ ~Handles(r) /\ ~SendsMod(r)
  BY <1>3 DEF Handles, Marked, Mark, SendsMod
<1>9. on => FreeUnder(cap, i)
  BY <1>4, <1>7 DEF Clear
<1>10. on => FreeUnder(d, i)
  BY <1>1, <1>9 DEF FreeUnder
<1>11. \A k \in Nat : on /\ i < k => TwoFreeUnder(d, k) /\ FreeUnder(d, k)
  BY <1>1, <1>10 DEF FreeUnder, TwoFreeUnder
<1>12. /\ e.do # "release" /\ (Handles(e) <=> e.do = "pos") /\ (Marked(e) <=> Handles(e))
       /\ Mark(e) = i /\ e.from # None
  BY <1>1 DEF Handles, Marked, Mark, None
<1>13. Clear(e, d, on)
  BY <1>1, <1>10, <1>12 DEF Clear
<1>14. Clear(r, d, on)
  BY <1>1, <1>8, <1>11 DEF Clear
<1>15. FreeBefore(d, i + 1)
  <2>1. (i + 1) - 1 = i
    BY <1>1
  <2> QED
    BY <1>1, <2>1 DEF FreeBefore
<1>16. hot => on
  OBVIOUS
<1>17. InOrder(e, r, d, hot)
  BY <1>1, <1>16, <1>3, <1>8, <1>11, <1>12, <1>15 DEF InOrder
<1>18. ASSUME NEW n \in DOMAIN t
       PROVE  InOrder(e, t[n], d, hot) /\ InOrder(r, t[n], d, hot)
  <2> DEFINE y == t[n]
  <2>1. InOrder(Head(s), y, cap, hot)
    BY <1>4
  <2>2. y \in Call(S)
    BY <1>6
  <2>3. Marked(y) => Mark(y) \in Nat
    BY <2>2, CallFields
  <2>4. InOrder(Head(s), y, d, hot) /\ Clear(y, cap, on)
    <3>1. InOrder(Head(s), y, d, hot)
      BY <1>2, TailCalls DEF t
    <3>2. Calls(t, cap, on, hot)
      BY TailCalls DEF t
    <3> QED
      BY <3>1, <3>2 DEF Calls, Clears
  <2> HIDE DEF y
  <2>5. y.do \notin {"code", "pos", "keymap"}
    BY <1>7, <2>1 DEF InOrder
  <2>6. Marked(y) => i < Mark(y)
    <3> SUFFICES ASSUME Marked(y), ~(i < Mark(y)) PROVE FALSE
      OBVIOUS
    <3>1. Handles(y) /\ Mark(y) = i
      BY <1>7, <2>1 DEF InOrder
    <3>2. y.from = i
      BY <3>1 DEF Mark, Handles
    <3>3. cap[i] = Free
      BY <1>12, <2>4, <3>1, <3>2 DEF Clear
    <3> QED
      BY <3>3
  <2>7. y.do = "release" => FreeBefore(d, y.i) /\ FreeBefore(cap, y.i) /\ Mark(y) = y.i /\ Marked(y)
    BY <1>7, <2>1, <2>4 DEF InOrder, Mark, Marked
  <2>8. y.do = "release" => i + 1 < Mark(y)
    <3> SUFFICES ASSUME y.do = "release" PROVE i + 1 < Mark(y)
      OBVIOUS
    <3>1. Mark(y) - 1 # i
      BY <2>7 DEF FreeBefore
    <3> QED
      BY <1>1, <2>3, <2>6, <2>7, <3>1
  <2>9. Marked(y) => (y.do = "release") \/ Handles(y)
    BY DEF Marked
  <2>10. Marked(y) => i + 1 < Mark(y) \/ (Handles(y) /\ i + 1 = Mark(y))
    BY <1>1, <2>3, <2>6, <2>8, <2>9
  <2>11. InOrder(e, y, d, hot)
    BY <1>11, <1>12, <1>16, <2>3, <2>5, <2>6, <2>7 DEF InOrder
  <2>12. InOrder(r, y, d, hot)
    BY <1>3, <1>8, <2>5, <2>7, <2>10 DEF InOrder
  <2> QED
    BY <2>11, <2>12 DEF y
<1> DEFINE a == <<e, r>>
<1>19. a \in Seq(Call(S)) /\ DOMAIN a = {1, 2} /\ a[1] = e /\ a[2] = r
  BY <1>3
<1> HIDE DEF a
<1>20. Calls(a, d, on, hot)
  <2>1. Clears(a, d, on)
    BY <1>13, <1>14, <1>19 DEF Clears
  <2>2. Ordered(a, d, hot)
    <3> SUFFICES ASSUME NEW m \in DOMAIN a, NEW n \in DOMAIN a, m < n
                 PROVE  InOrder(a[m], a[n], d, hot)
      BY DEF Ordered
    <3>1. m = 1 /\ n = 2
      BY <1>19
    <3> QED
      BY <1>17, <1>19, <3>1
  <2> QED
    BY <2>1, <2>2 DEF Calls
<1>21. ASSUME NEW m \in DOMAIN a, NEW n \in DOMAIN t PROVE InOrder(a[m], t[n], d, hot)
  BY <1>18, <1>19
<1>22. Calls(a \o t, d, on, hot)
  BY <1>5, <1>6, <1>19, <1>20, <1>21, JoinCalls
<1> QED
  BY <1>22 DEF a, d, r, t

-----------------------------------------------------------------------------
(* What is captured, and what will raise it again. *)

\* A release_captured_events that is still to run covers what it covered.
LEMMA StillOwned ==
  ASSUME NEW s, NEW cap, NEW on, NEW then, Owned(s, cap, on), on => then,
         NEW t, \A n \in DOMAIN s : s[n].do = "release" => \E m \in DOMAIN t : t[m] = s[n]
  PROVE  Owned(t, cap, then)
<1> SUFFICES ASSUME NEW j \in DOMAIN cap, cap[j] # Free
             PROVE  (then /\ Taken(cap, 1, j)) \/ \E n \in DOMAIN t : Covers(t[n], cap, j)
  BY DEF Owned
<1>1. CASE on /\ Taken(cap, 1, j)
  BY <1>1
<1>2. CASE \E n \in DOMAIN s : Covers(s[n], cap, j)
  <2>1. PICK n \in DOMAIN s : Covers(s[n], cap, j)
    BY <1>2
  <2>2. PICK m \in DOMAIN t : t[m] = s[n]
    BY <2>1 DEF Covers
  <2> QED
    BY <2>1, <2>2
<1> QED
  BY <1>1, <1>2 DEF Owned

\* The call at the head gives way to others.
LEMMA OwnedStep ==
  ASSUME NEW S, NEW s \in Seq(S), s # <<>>, Head(s).do # "release", NEW pre \in Seq(S),
         NEW cap, NEW on, NEW then, Owned(s, cap, on), on => then
  PROVE  Owned(pre \o Tail(s), cap, then)
<1>1. Tail(s) \in Seq(S)
  BY Behind
<1>2. ASSUME NEW n \in DOMAIN s, s[n].do = "release"
      PROVE  \E m \in DOMAIN (pre \o Tail(s)) : (pre \o Tail(s))[m] = s[n]
  <2>1. n - 1 \in DOMAIN Tail(s) /\ s[n] = Tail(s)[n - 1]
    BY <1>2, Behind
  <2> DEFINE t == Tail(s)
             u == pre \o t
  <2>2. \A k \in DOMAIN t : Len(pre) + k \in DOMAIN u /\ u[Len(pre) + k] = t[k]
    BY <1>1, Joined
  <2> HIDE DEF t, u
  <2>3. n - 1 \in DOMAIN t /\ s[n] = t[n - 1]
    BY <2>1 DEF t
  <2>4. \E m \in DOMAIN u : u[m] = s[n]
    BY <2>2, <2>3
  <2> QED
    BY <2>4 DEF u, t
<1> QED
  BY <1>2, StillOwned

\* Nothing is put in its place.
LEMMA OwnedTail ==
  ASSUME NEW S, NEW s \in Seq(S), s # <<>>, Head(s).do # "release",
         NEW cap, NEW on, Owned(s, cap, on)
  PROVE  Owned(Tail(s), cap, on)
<1>1. ASSUME NEW n \in DOMAIN s, s[n].do = "release"
      PROVE  \E m \in DOMAIN Tail(s) : Tail(s)[m] = s[n]
  <2>1. n - 1 \in DOMAIN Tail(s) /\ s[n] = Tail(s)[n - 1]
    BY <1>1, Behind
  <2> QED
    BY <2>1
<1>2. on => on
  OBVIOUS
<1> QED
  BY <1>1, <1>2, StillOwned

\* A decision hands over what is captured to release_captured_events.
LEMMA OwnedDecided ==
  ASSUME NEW S, NEW cs \in Seq(Call(S)), NEW rest \in Seq(Call(S)), NEW cap, NEW on,
         DOMAIN cap \subseteq Nat \ {0}, Owned(rest, cap, on)
  PROVE  Owned((cs \o <<Release(1)>>) \o rest, cap, FALSE)
<1> DEFINE r == <<Release(1)>>
           t == (cs \o r) \o rest
<1>1. r \in Seq(Call(S)) /\ DOMAIN r = {1} /\ r[1] = Release(1)
  BY DEF Call, Release
<1>2. cs \o r \in Seq(Call(S))
  BY <1>1, Joined
<1> DEFINE c == cs \o r
<1> HIDE DEF r
<1>3. PICK k \in DOMAIN c : c[k] = Release(1)
  <2>1. \A n \in DOMAIN r : Len(cs) + n \in DOMAIN c /\ c[Len(cs) + n] = r[n]
    BY <1>1, Joined
  <2> QED
    BY <1>1, <2>1
<1>4. /\ \A n \in DOMAIN c : n \in DOMAIN t /\ t[n] = c[n]
      /\ \A n \in DOMAIN rest : Len(c) + n \in DOMAIN t /\ t[Len(c) + n] = rest[n]
  <2>1. c \in Seq(Call(S))
    BY <1>2
  <2> QED
    BY <2>1, Joined
<1> HIDE DEF c, t
<1>5. \A n \in DOMAIN rest : \E m \in DOMAIN t : t[m] = rest[n]
  BY <1>4
<1>8. PICK l \in DOMAIN t : t[l] = Release(1)
  BY <1>3, <1>4
<1> SUFFICES ASSUME NEW j \in DOMAIN cap, cap[j] # Free
             PROVE  \E n \in DOMAIN t : Covers(t[n], cap, j)
  BY DEF Owned, t, c, r
<1>6. CASE on /\ Taken(cap, 1, j)
  <2>1. Covers(t[l], cap, j)
    BY <1>8, <1>6 DEF Covers, Release
  <2> QED
    BY <2>1
<1>7. CASE \E n \in DOMAIN rest : Covers(rest[n], cap, j)
  BY <1>5, <1>7
<1> QED
  BY <1>6, <1>7 DEF Owned

\* What is captured in the first free place has only taken places before it.
LEMMA OwnedCapture ==
  ASSUME NEW s, NEW cap, NEW on, Owned(s, cap, on), on, DOMAIN cap \subseteq Nat \ {0},
         NEW f \in DOMAIN cap, \A j \in DOMAIN cap : cap[j] = Free => f <= j,
         NEW e, e # Free
  PROVE  Owned(s, [cap EXCEPT ![f] = e], on)
<1> DEFINE d == [cap EXCEPT ![f] = e]
<1>1. DOMAIN d = DOMAIN cap /\ d[f] = e /\ \A j \in DOMAIN cap : j # f => d[j] = cap[j]
  OBVIOUS
<1> HIDE DEF d
<1>2. \A a, j : Taken(cap, a, j) => Taken(d, a, j)
  BY <1>1 DEF Taken
<1>3. Taken(d, 1, f)
  <2> SUFFICES ASSUME NEW k \in 1 .. f, k \in DOMAIN d PROVE d[k] # Free
    BY DEF Taken
  <2>1. f \in Nat /\ k \in Nat /\ k <= f
    OBVIOUS
  <2>2. CASE k = f
    BY <1>1, <2>2
  <2>3. CASE k # f
    BY <1>1, <2>1, <2>3
  <2> QED
    BY <2>2, <2>3
<1> SUFFICES ASSUME NEW j \in DOMAIN d, d[j] # Free
             PROVE  Taken(d, 1, j) \/ \E n \in DOMAIN s : Covers(s[n], d, j)
  BY DEF Owned, d
<1>4. CASE j = f
  BY <1>3, <1>4
<1>5. CASE j # f
  <2>1. j \in DOMAIN cap /\ cap[j] # Free
    BY <1>1, <1>5
  <2>2. Taken(cap, 1, j) \/ \E n \in DOMAIN s : Covers(s[n], cap, j)
    BY <2>1 DEF Owned
  <2>3. \A n \in DOMAIN s : Covers(s[n], cap, j) => Covers(s[n], d, j)
    BY <1>2 DEF Covers
  <2> QED
    BY <1>2, <2>2, <2>3
<1> QED
  BY <1>4, <1>5

\* The event in place i was raised again; release_captured_events comes to the next one.
LEMMA OwnedRaised ==
  ASSUME NEW S, NEW s \in Seq(S), s # <<>>, NEW pre \in Seq(S), NEW cap, NEW on, Owned(s, cap, on),
         DOMAIN cap \subseteq Nat \ {0},
         Head(s).do = "release", NEW i \in DOMAIN cap, i = Head(s).i,
         \A n \in DOMAIN Tail(s) : Tail(s)[n].do = "release" => Tail(s)[n].i \in Nat,
         NEW m \in DOMAIN pre, pre[m] = Release(i + 1)
  PROVE  Owned(pre \o Tail(s), [cap EXCEPT ![i] = Free], on)
<1> DEFINE d == [cap EXCEPT ![i] = Free]
           t == Tail(s)
           u == pre \o t
<1>1. DOMAIN d = DOMAIN cap /\ d[i] = Free /\ \A j \in DOMAIN cap : j # i => d[j] = cap[j]
  OBVIOUS
<1>2. /\ \A n \in DOMAIN pre : n \in DOMAIN u /\ u[n] = pre[n]
      /\ \A n \in DOMAIN t : Len(pre) + n \in DOMAIN u /\ u[Len(pre) + n] = t[n]
  <2>1. t \in Seq(S)
    BY Behind
  <2>2. pre \in Seq(S)
    OBVIOUS
  <2> HIDE DEF t
  <2>3. \A n \in DOMAIN pre : n \in DOMAIN u /\ u[n] = pre[n]
    BY ONLY <2>1, <2>2, Joined
  <2>4. \A n \in DOMAIN t : Len(pre) + n \in DOMAIN u /\ u[Len(pre) + n] = t[n]
    BY ONLY <2>1, <2>2, Joined
  <2> QED
    BY <2>3, <2>4
<1>3. /\ s[1] = Head(s)
      /\ \A n \in DOMAIN s : n = 1 \/ (n - 1 \in DOMAIN t /\ s[n] = t[n - 1])
  BY Behind
<1>4. m \in DOMAIN u /\ u[m].do = "release" /\ u[m].i = i + 1
  BY <1>2 DEF Release
<1>5. \A n \in DOMAIN t : t[n].do = "release" => t[n].i \in Nat
  OBVIOUS
<1> HIDE DEF d, t, u
<1> SUFFICES ASSUME NEW j \in DOMAIN d, d[j] # Free
             PROVE  (on /\ Taken(d, 1, j)) \/ \E n \in DOMAIN u : Covers(u[n], d, j)
  BY DEF Owned, d, t, u
<1>6. j \in DOMAIN cap /\ cap[j] # Free /\ j # i /\ j \in Nat /\ i \in Nat
  BY <1>1
<1>7. ASSUME NEW a \in Nat, Taken(cap, a, j), a <= i, i < j
      PROVE  Covers(u[m], d, j)
  <2>1. Taken(d, i + 1, j)
    <3> SUFFICES ASSUME NEW k \in i + 1 .. j, k \in DOMAIN d PROVE d[k] # Free
      BY DEF Taken
    <3>1. k # i /\ k \in a .. j
      BY <1>6, <1>7
    <3> QED
      BY <1>1, <1>7, <3>1 DEF Taken
  <2> QED
    BY <1>4, <1>6, <1>7, <2>1 DEF Covers
<1>8. ASSUME NEW a \in Nat, Taken(cap, a, j), i < a \/ j < i
      PROVE  Taken(d, a, j)
  <2> SUFFICES ASSUME NEW k \in a .. j, k \in DOMAIN d PROVE d[k] # Free
    BY DEF Taken
  <2>1. k # i
    BY <1>6, <1>8
  <2> QED
    BY <1>1, <1>8, <2>1 DEF Taken
<1>9. CASE on /\ Taken(cap, 1, j)
  <2>1. i < j \/ j < i
    BY <1>6
  <2>2. 1 \in Nat /\ 1 <= i
    BY <1>1, <1>6
  <2> QED
    BY <1>4, <1>7, <1>8, <1>9, <2>1, <2>2
<1>10. CASE \E n \in DOMAIN s : Covers(s[n], cap, j)
  <2>1. PICK n \in DOMAIN s : Covers(s[n], cap, j)
    BY <1>10
  <2>2. CASE n = 1
    <3>1. i <= j /\ Taken(cap, i, j)
      BY <1>3, <2>1, <2>2 DEF Covers
    <3>2. i < j /\ i <= i
      BY <1>6, <3>1
    <3> QED
      BY <1>4, <1>6, <1>7, <3>1, <3>2
  <2>3. CASE n # 1
    <3>1. n - 1 \in DOMAIN t /\ s[n] = t[n - 1]
      BY <1>3, <2>3
    <3>2. PICK l \in DOMAIN u : u[l] = s[n]
      BY <1>2, <3>1
    <3>3. s[n].do = "release" /\ s[n].i \in Nat /\ s[n].i <= j /\ Taken(cap, s[n].i, j)
      BY <1>5, <2>1, <3>1 DEF Covers
    <3>4. CASE s[n].i <= i /\ i < j
      BY <1>4, <1>7, <3>3, <3>4
    <3>5. CASE i < s[n].i \/ j < i
      <4>1. Taken(d, s[n].i, j)
        BY <1>8, <3>3, <3>5
      <4> QED
        BY <3>2, <3>3, <4>1 DEF Covers
    <3> QED
      BY <1>6, <3>3, <3>4, <3>5
  <2> QED
    BY <2>2, <2>3
<1> QED
  BY <1>6, <1>9, <1>10 DEF Owned

\* release_captured_events ends at a free place, or past the last one.
LEMMA OwnedEnd ==
  ASSUME NEW S, NEW s \in Seq(S), s # <<>>, NEW cap, NEW on, Owned(s, cap, on),
         DOMAIN cap \subseteq Nat \ {0},
         Head(s).do = "release", Head(s).i \in Nat,
         \A j \in DOMAIN cap : Head(s).i <= j => Head(s).i \in DOMAIN cap /\ cap[Head(s).i] = Free
  PROVE  Owned(Tail(s), cap, on)
<1> SUFFICES ASSUME NEW j \in DOMAIN cap, cap[j] # Free
             PROVE  (on /\ Taken(cap, 1, j)) \/ \E n \in DOMAIN Tail(s) : Covers(Tail(s)[n], cap, j)
  BY DEF Owned
<1>1. ~Covers(Head(s), cap, j)
  <2> SUFFICES ASSUME Head(s).i <= j, Taken(cap, Head(s).i, j) PROVE FALSE
    BY DEF Covers
  <2>1. Head(s).i \in Head(s).i .. j
    OBVIOUS
  <2> QED
    BY <2>1 DEF Taken
<1>2. /\ s[1] = Head(s)
      /\ \A n \in DOMAIN s : n = 1 \/ (n - 1 \in DOMAIN Tail(s) /\ s[n] = Tail(s)[n - 1])
  BY Behind
<1> QED
  BY <1>1, <1>2 DEF Owned

-----------------------------------------------------------------------------
(* Types and the keycodes a hold-tap sends. *)

LEMMA Basics ==
  ASSUME Types
  PROVE  /\ MaxCaptured \in Nat /\ Place = 1 .. MaxCaptured
         /\ DOMAIN captured = Place /\ DOMAIN captured \subseteq Nat \ {0}
         /\ None \notin Slot
         /\ agenda # <<>> => Head(agenda) \in Call(Slot) /\ Tail(agenda) \in Seq(Call(Slot))
         /\ \A j \in Place : captured[j] \in Kept
<1>1. MaxCaptured \in Nat
  BY HoldTapAssumption DEF Types, MaxCaptured
<1>2. DOMAIN captured = Place /\ \A j \in Place : captured[j] \in Kept
  BY DEF Types
<1>3. None \notin Slot
  BY DEF None, Slot
<1>4. agenda \in Seq(Call(Slot))
  BY DEF Types
<1>5. agenda # <<>> => Head(agenda) \in Call(Slot) /\ Tail(agenda) \in Seq(Call(Slot))
  BY <1>4, Behind
<1>6. Place = 1 .. MaxCaptured
  BY DEF Place
<1>7. Place \subseteq Nat \ {0}
  BY <1>1, <1>6
<1> QED
  BY <1>1, <1>2, <1>3, <1>5, <1>6, <1>7

LEMMA TypesNext ==
  ASSUME Types, build' = build,
         DOMAIN taps' = Slot, \A i \in Slot : TapShape(taps'[i]),
         undecided' \in Slot \cup {None}, captured' \in [Place -> Kept],
         agenda' \in Seq(Call(Slot)), now' \in Int, serial' \in Nat
  PROVE  Types'
<1>1. Slot' = Slot /\ Place' = Place
  BY DEF Slot, Place, MaxHeld, MaxCaptured
<1>2. Call(Slot)' = Call(Slot)
  BY <1>1 DEF Call
<1> QED
  BY <1>1, <1>2 DEF Types

\* The keycode listener captures what it captured before.
LEMMA HotNext ==
  ASSUME Types, build' = build, undecided' = undecided,
         \A i \in Slot : taps'[i].pos = taps[i].pos
  PROVE  Hot' <=> Hot
<1>1. CASE undecided = None
  BY <1>1 DEF Hot
<1>2. CASE undecided \in Slot
  <2>1. taps'[undecided'].pos = taps[undecided].pos
    BY <1>2
  <2>2. Config' = Config
    BY DEF Config
  <2> QED
    BY <2>1, <2>2 DEF Hot
<1> QED
  BY <1>1, <1>2 DEF Types

\* The keycodes of Code, and those that are modifiers.
LEMMA CodeIs ==
  ASSUME NEW p \in Position \cup {NoKey}, NEW down \in BOOLEAN, NEW at \in Int
  PROVE  /\ Code(Hold(p), down, at) \in Sent /\ Code(Tap(p), down, at) \in Sent
         /\ ~SendsMod(Code(Tap(p), down, at))
         /\ SendsMod(Code(Hold(p), down, at)) <=> p \in ModHolds
         /\ Code(Hold(p), down, at).do = "code"
<1>1. Code(Hold(p), down, at) \in Sent
  BY DEF Code, Hold, Sent, AnyBinding, None
<1>2. Code(Tap(p), down, at) \in Sent
  BY DEF Code, Tap, Sent, AnyBinding, None
<1>3. ~SendsMod(Code(Tap(p), down, at))
  BY DEF SendsMod, IsMod, Code, Tap
<1>4. SendsMod(Code(Hold(p), down, at)) <=> p \in ModHolds
  BY DEF SendsMod, IsMod, Code, Hold
<1>5. Code(Hold(p), down, at).do = "code"
  BY DEF Code
<1> QED
  BY <1>1, <1>2, <1>3, <1>4, <1>5

LEMMA SentIsCall ==
  ASSUME NEW S, NEW cs \in Seq(Sent)
  PROVE  cs \in Seq(Call(S))
<1>1. Sent \subseteq Call(S)
  BY DEF Call
<1> QED
  BY <1>1

\* press_binding sends at most a modifier.
LEMMA PressCodes ==
  ASSUME NEW h, h.pos \in Position \cup {NoKey}, h.at \in Int, NEW s
  PROVE  Codes(PressBinding(h, s))
<1> DEFINE p == h.pos
           a == h.at
           up == Code(Hold(p), FALSE, a)
           down == Code(Hold(p), TRUE, a)
           tap == Code(Tap(p), TRUE, a)
<1>1. up \in Sent /\ down \in Sent /\ tap \in Sent /\ ~SendsMod(tap)
  BY CodeIs
<1>2. PressBinding(h, s) \in {<<>>, <<down>>, <<>> \o <<tap>>, <<up>> \o <<tap>>}
  BY DEF PressBinding
<1> HIDE DEF up, down, tap
<1>3. Codes(<<>>)
  BY DEF Codes
<1>4. \A x \in Sent : Codes(<<x>>)
  BY DEF Codes
<1>5. <<>> \o <<tap>> = <<tap>>
  BY <1>1
<1>6. Codes(<<up>> \o <<tap>>)
  <2> DEFINE t == <<up>> \o <<tap>>
  <2>1. <<up>> \in Seq(Sent) /\ <<tap>> \in Seq(Sent) /\ DOMAIN <<up>> = {1} /\ DOMAIN <<tap>> = {1} /\ <<tap>>[1] = tap
        /\ Len(<<up>>) = 1
    BY <1>1
  <2>2. t \in Seq(Sent) /\ \A n \in DOMAIN t :
           \/ n \in DOMAIN <<up>> /\ t[n] = <<up>>[n]
           \/ n > Len(<<up>>) /\ n - Len(<<up>>) \in DOMAIN <<tap>> /\ t[n] = <<tap>>[n - Len(<<up>>)]
    BY <2>1, Joined
  <2> HIDE DEF t
  <2>3. DOMAIN t \subseteq Nat
    BY <2>2
  <2>4. \A n \in DOMAIN t : n = 1 \/ ~SendsMod(t[n])
    BY <1>1, <2>1, <2>2, <2>3
  <2> QED
    BY <2>2, <2>4 DEF Codes, t
<1> QED
  BY <1>1, <1>2, <1>3, <1>4, <1>5, <1>6

\* What decide_hold_tap does: nothing, or the hold-tap is undecided no longer, and its
\* keycodes and release_captured_events come before the rest.
LEMMA DecideDoes ==
  ASSUME Types, build' = build, NEW tp, DOMAIN tp = Slot, NEW i \in Slot, NEW moment, NEW rest,
         \A j \in Slot : TapShape(tp[j]) /\ tp[j].pos = taps[j].pos,
         Decide(tp, i, moment, rest)
  PROVE  /\ DOMAIN taps' = Slot
         /\ \A j \in Slot : TapShape(taps'[j]) /\ taps'[j].pos = taps[j].pos
         /\ \/ undecided' = undecided /\ agenda' = rest
            \/ /\ undecided' = None
               /\ \E cs \in Seq(Sent) : Codes(cs) /\ agenda' = (cs \o <<Release(1)>>) \o rest
<1> DEFINE d == Decision(tp[i], moment)
<1>1. CASE taps' = tp /\ agenda' = rest /\ UNCHANGED <<undecided, lastTapped>>
  BY <1>1
<1>2. CASE /\ taps' = [tp EXCEPT ![i].status = d]
           /\ undecided' = None
           /\ agenda' = PressBinding(tp[i], d) \o <<Release(1)>> \o rest
  <2>1. Codes(PressBinding(tp[i], d))
    BY PressCodes DEF TapShape
  <2> HIDE DEF d
  <2>2. PressBinding(tp[i], d) \in Seq(Sent)
    BY <2>1 DEF Codes
  <2>3. \A j \in Slot : TapShape(taps'[j]) /\ taps'[j].pos = taps[j].pos
    BY <1>2 DEF TapShape
  <2>4. DOMAIN taps' = Slot
    BY <1>2
  <2>5. agenda' = (PressBinding(tp[i], d) \o <<Release(1)>>) \o rest
    BY <1>2
  <2> QED
    BY <1>2, <2>1, <2>2, <2>3, <2>4, <2>5
<1> QED
  BY <1>1, <1>2 DEF Decide

\* Deciding keeps the calls in order, whatever comes behind the call that decides.
LEMMA DecideKeeps ==
  ASSUME Types, build' = build, UNCHANGED <<now, serial>>, captured' \in [Place -> Kept],
         NEW tp, DOMAIN tp = Slot, NEW i \in Slot, NEW moment, NEW rest \in Seq(Call(Slot)),
         \A j \in Slot : TapShape(tp[j]) /\ tp[j].pos = taps[j].pos,
         Decide(tp, i, moment, rest),
         Owned(rest, captured', undecided # None)
  PROVE  /\ OwnedInv'
         /\ AllLater(rest, captured') /\ Calls(rest, captured', undecided # None, Hot) => CallsInv'
<1>1. /\ DOMAIN taps' = Slot
      /\ \A j \in Slot : TapShape(taps'[j]) /\ taps'[j].pos = taps[j].pos
      /\ \/ undecided' = undecided /\ agenda' = rest
         \/ /\ undecided' = None
            /\ \E cs \in Seq(Sent) : Codes(cs) /\ agenda' = (cs \o <<Release(1)>>) \o rest
  BY DecideDoes
<1>2. DOMAIN captured' \subseteq Nat \ {0}
  <2>1. DOMAIN captured' = Place
    OBVIOUS
  <2> QED
    BY <2>1, Basics
<1>3. undecided' \in Slot \cup {None}
  BY <1>1 DEF Types
<1>4. CASE undecided' = undecided /\ agenda' = rest
  <2>1. Types'
    BY <1>1, <1>3, <1>4, TypesNext DEF Types
  <2>2. OwnedInv'
    BY <1>4, <2>1 DEF OwnedInv
  <2>3. Hot' <=> Hot
    BY <1>1, <1>4, HotNext
  <2>4. AllLater(rest, captured') /\ Calls(rest, captured', undecided # None, Hot) => CallsInv'
    <3> SUFFICES ASSUME Calls(rest, captured', undecided # None, Hot), AllLater(rest, captured') PROVE CallsInv'
      OBVIOUS
    <3>1. \A n \in DOMAIN rest : rest[n].do # "code"
      BY DEF AllLater, Later
    <3>2. Calls(rest, captured', undecided # None, Hot')
      BY <3>1, NoCodes
    <3> QED
      BY <1>4, <2>2, <3>2 DEF CallsInv
  <2> QED
    BY <2>2, <2>4
<1>5. ASSUME undecided' = None,
             NEW cs \in Seq(Sent), Codes(cs), agenda' = (cs \o <<Release(1)>>) \o rest
      PROVE  OwnedInv' /\ (AllLater(rest, captured') /\ Calls(rest, captured', undecided # None, Hot) => CallsInv')
  <2>1. cs \in Seq(Call(Slot))
    BY SentIsCall
  <2>2. <<Release(1)>> \in Seq(Call(Slot))
    BY DEF Call, Release
  <2>3. cs \o <<Release(1)>> \in Seq(Call(Slot))
    BY <2>1, <2>2, Joined
  <2>4. agenda' \in Seq(Call(Slot))
    BY <1>5, <2>3, Joined
  <2>5. Types'
    BY <1>1, <1>3, <2>4, TypesNext DEF Types
  <2>6. Owned(agenda', captured', FALSE)
    BY <1>2, <1>5, <2>1, OwnedDecided
  <2>7. (undecided' # None) = FALSE
    BY <1>5
  <2>8. OwnedInv'
    BY <2>5, <2>6, <2>7 DEF OwnedInv
  <2>9. ASSUME AllLater(rest, captured'), Calls(rest, captured', undecided # None, Hot)
        PROVE  CallsInv'
    <3>1. Calls(agenda', captured', FALSE, FALSE)
      BY <1>2, <1>5, <2>1, <2>9, DecidedCalls
    <3>2. Hot' = FALSE
      BY <1>5 DEF Hot
    <3> QED
      BY <2>7, <2>8, <3>1, <3>2 DEF CallsInv
  <2> QED
    BY <2>8, <2>9
<1> QED
  BY <1>1, <1>4, <1>5

-----------------------------------------------------------------------------
(* The events. *)

\* An event on its way through the listener, and as it is captured.
LEMMA EventIs ==
  ASSUME NEW S, NEW e \in KeyEvent({"pos", "after", "keymap"})
  PROVE  /\ Handles(e) /\ e \in Call(S)
         /\ \A w \in {"pos", "after", "keymap"} :
               /\ [e EXCEPT !.do = w] \in KeyEvent({"pos", "after", "keymap"})
               /\ [e EXCEPT !.do = w] \in Call(S)
               /\ Handles([e EXCEPT !.do = w])
               /\ [e EXCEPT !.do = w].from = e.from
         /\ [[e EXCEPT !.do = "pos"] EXCEPT !.from = None] \in Kept \ {Free}
<1>1. Handles(e) /\ e \in Call(S)
  BY DEF KeyEvent, Handles, Call
<1>2. ASSUME NEW w \in {"pos", "after", "keymap"}
      PROVE  /\ [e EXCEPT !.do = w] \in KeyEvent({"pos", "after", "keymap"})
             /\ [e EXCEPT !.do = w] \in Call(S)
             /\ Handles([e EXCEPT !.do = w])
             /\ [e EXCEPT !.do = w].from = e.from
  <2>1. [e EXCEPT !.do = w] \in KeyEvent({"pos", "after", "keymap"})
    BY DEF KeyEvent
  <2>2. [e EXCEPT !.do = w].do = w /\ [e EXCEPT !.do = w].from = e.from
    BY DEF KeyEvent
  <2> QED
    BY <2>1, <2>2 DEF Call, Handles
<1>3. [[e EXCEPT !.do = "pos"] EXCEPT !.from = None] \in Kept \ {Free}
  <2>1. [[e EXCEPT !.do = "pos"] EXCEPT !.from = None] \in KeyEvent({"pos"})
    BY DEF KeyEvent, None
  <2>2. \A x \in KeyEvent({"pos"}) : x.do = "pos"
    BY DEF KeyEvent
  <2>3. Free.do = "free"
    BY DEF Free
  <2> QED
    BY <2>1, <2>2, <2>3 DEF Kept
<1> QED
  BY <1>1, <1>2, <1>3

\* capture_event takes the first free place, if there is one.
LEMMA CaptureDoes ==
  ASSUME Types, NEW e, [e EXCEPT !.from = None] \in Kept, Capture(e)
  PROVE  /\ captured' \in [Place -> Kept]
         /\ \/ captured' = captured
            \/ \E f \in Place : /\ captured[f] = Free /\ \A j \in Place : captured[j] = Free => f <= j
                                /\ captured' = [captured EXCEPT ![f] = [e EXCEPT !.from = None]]
<1> DEFINE k == [e EXCEPT !.from = None]
           free == {j \in Place : captured[j] = Free}
<1>1. captured \in [Place -> Kept] /\ Place \subseteq Nat
  BY Basics DEF Types
<1>2. CASE captured' = captured
  BY <1>1, <1>2
<1>3. CASE free # {} /\ captured' = [captured EXCEPT ![Min(free)] = k]
  <2>1. Min(free) \in free /\ \A y \in free : Min(free) <= y
    <3>1. free \subseteq Nat
      BY <1>1
    <3> HIDE DEF free
    <3> QED
      BY <1>3, <3>1, MinIs
  <2> QED
    BY <1>1, <1>3, <2>1
<1> QED
  BY <1>2, <1>3 DEF Capture

\* An event that has been handled is captured: the others stay in order and owned.
LEMMA CaptureKeeps ==
  ASSUME OwnedInv, agenda # <<>>, undecided # None, NEW e, [e EXCEPT !.from = None] \in Kept \ {Free},
         Head(agenda).do # "release", Capture(e)
  PROVE  /\ captured' \in [Place -> Kept]
         /\ Owned(Tail(agenda), captured', undecided # None)
         /\ CallsInv /\ Handles(Head(agenda)) =>
               Calls(Tail(agenda), captured', undecided # None, Hot) /\ AllLater(Tail(agenda), captured')
<1> DEFINE t == Tail(agenda)
           on == undecided # None
<1>1. Types /\ Owned(agenda, captured, on)
  BY DEF OwnedInv
<1>2. /\ captured' \in [Place -> Kept]
      /\ \/ captured' = captured
         \/ \E f \in Place : /\ captured[f] = Free /\ \A j \in Place : captured[j] = Free => f <= j
                             /\ captured' = [captured EXCEPT ![f] = [e EXCEPT !.from = None]]
  BY <1>1, CaptureDoes
<1>3. /\ agenda \in Seq(Call(Slot)) /\ t \in Seq(Call(Slot))
      /\ DOMAIN captured = Place /\ DOMAIN captured \subseteq Nat \ {0}
  BY <1>1, Basics DEF Types
<1>4. Owned(t, captured, on)
  BY <1>1, <1>3, OwnedTail
<1>5. ASSUME CallsInv, Handles(Head(agenda))
      PROVE  /\ Calls(t, captured, on, Hot) /\ AllLater(t, captured)
             /\ \A n \in DOMAIN t : Marked(t[n]) => TwoFreeUnder(captured, Mark(t[n]))
             /\ \A n \in DOMAIN t : ~SendsMod(t[n])
  <2>1. Calls(agenda, captured, on, Hot)
    BY <1>5 DEF CallsInv
  <2>2. Calls(t, captured, on, Hot)
    BY <1>3, <2>1, TailCalls
  <2>3. AllLater(t, captured)
    BY <1>3, <1>5, <2>1, LaterIs
  <2>4. ASSUME NEW n \in DOMAIN t, Marked(t[n]) PROVE TwoFreeUnder(captured, Mark(t[n]))
    BY <1>3, <1>5, <2>1, <2>4, MarksBehind
  <2>5. \A n \in DOMAIN t : ~SendsMod(t[n])
    BY <2>3 DEF AllLater, Later, SendsMod
  <2> QED
    BY <2>2, <2>3, <2>4, <2>5
<1>6. CASE captured' = captured
  BY <1>2, <1>4, <1>5, <1>6
<1>7. ASSUME NEW f \in Place, captured[f] = Free, \A j \in Place : captured[j] = Free => f <= j,
             captured' = [captured EXCEPT ![f] = [e EXCEPT !.from = None]]
      PROVE  /\ Owned(t, captured', on)
             /\ CallsInv /\ Handles(Head(agenda)) => Calls(t, captured', on, Hot) /\ AllLater(t, captured')
  <2> DEFINE k == [e EXCEPT !.from = None]
  <2>1. k # Free
    OBVIOUS
  <2> HIDE DEF k, t
  <2>2. Owned(t, [captured EXCEPT ![f] = k], on)
    BY <1>3, <1>4, <1>7, <2>1, OwnedCapture
  <2>3. ASSUME CallsInv, Handles(Head(agenda))
        PROVE  Calls(t, [captured EXCEPT ![f] = k], on, Hot) /\ AllLater(t, [captured EXCEPT ![f] = k])
    <3>1. on => on
      OBVIOUS
    <3>2. f \in DOMAIN captured /\ \A j \in DOMAIN captured : captured[j] = Free => f <= j
      BY <1>3, <1>7
    <3> HIDE DEF on
    <3> QED
      BY <1>3, <1>5, <1>7, <2>3, <3>1, <3>2, PlaceTaken
  <2> QED
    BY <1>7, <2>2, <2>3 DEF k
<1> QED
  BY <1>2, <1>6, <1>7

\* A call other than release_captured_events gives way to others, and captures nothing.
LEMMA StepOwned ==
  ASSUME OwnedInv, agenda # <<>>, Head(agenda).do # "release", build' = build,
         DOMAIN taps' = Slot, \A i \in Slot : TapShape(taps'[i]),
         undecided' \in Slot \cup {None}, undecided # None => undecided' # None,
         NEW pre \in Seq(Call(Slot)), agenda' = pre \o Tail(agenda),
         UNCHANGED <<captured, now, serial>>
  PROVE  OwnedInv'
<1>1. Types /\ Owned(agenda, captured, undecided # None)
  BY DEF OwnedInv
<1>2. agenda \in Seq(Call(Slot)) /\ Tail(agenda) \in Seq(Call(Slot))
  BY <1>1, Basics DEF Types
<1>3. agenda' \in Seq(Call(Slot))
  BY <1>2, Joined
<1>4. Types'
  BY <1>1, <1>3, TypesNext DEF Types
<1>5. Owned(pre \o Tail(agenda), captured, undecided' # None)
  BY <1>1, <1>2, OwnedStep
<1> QED
  BY <1>4, <1>5 DEF OwnedInv

LEMMA TailOwned ==
  ASSUME OwnedInv, agenda # <<>>, Head(agenda).do # "release", build' = build,
         agenda' = Tail(agenda), UNCHANGED <<taps, undecided, captured, now, serial>>
  PROVE  OwnedInv' /\ (CallsInv => CallsInv')
<1>1. Types /\ Owned(agenda, captured, undecided # None)
  BY DEF OwnedInv
<1>2. agenda \in Seq(Call(Slot)) /\ Tail(agenda) \in Seq(Call(Slot))
  BY <1>1, Basics DEF Types
<1>3. Types'
  BY <1>1, <1>2, TypesNext DEF Types
<1>4. Owned(Tail(agenda), captured, undecided # None)
  BY <1>1, <1>2, OwnedTail
<1>5. OwnedInv'
  BY <1>3, <1>4 DEF OwnedInv
<1>6. Hot' <=> Hot
  BY <1>1, HotNext
<1>7. CallsInv => Calls(Tail(agenda), captured, undecided # None, Hot')
  BY <1>2, <1>6, TailCalls DEF CallsInv
<1> QED
  BY <1>5, <1>7 DEF CallsInv

\* The event at the head goes on, to the keymap or to another part of a listener.
LEMMA GoesOn ==
  ASSUME OwnedInv, agenda # <<>>, Handles(Head(agenda)), build' = build,
         DOMAIN taps' = Slot, \A i \in Slot : TapShape(taps'[i]) /\ taps'[i].pos = taps[i].pos,
         NEW z \in Call(Slot), Handles(z), z.from = Head(agenda).from,
         agenda' = <<z>> \o Tail(agenda), UNCHANGED <<undecided, captured, now, serial>>
  PROVE  OwnedInv' /\ (CallsInv => CallsInv')
<1>1. Types
  BY DEF OwnedInv
<1>2. agenda \in Seq(Call(Slot)) /\ <<z>> \in Seq(Call(Slot))
  BY <1>1 DEF Types
<1>3. Head(agenda).do # "release"
  BY DEF Handles
<1>4. OwnedInv'
  BY <1>1, <1>2, <1>3, StepOwned DEF Types
<1>5. Hot' <=> Hot
  BY <1>1, HotNext
<1>6. CallsInv => Calls(<<z>> \o Tail(agenda), captured, undecided # None, Hot')
  BY <1>2, <1>5, Replaced DEF CallsInv
<1> QED
  BY <1>4, <1>6 DEF CallsInv

LEMMA UpdateRetroTapsKeeps ==
  ASSUME OwnedInv, UpdateRetroTaps
  PROVE  OwnedInv' /\ (CallsInv /\ Calm => CallsInv')
<1>1. /\ agenda # <<>> /\ Head(agenda).do = "pos"
      /\ UNCHANGED <<build, undecided, captured, now, serial>>
  BY DEF UpdateRetroTaps, Doing, settings, input
<1>2. Types /\ Owned(agenda, captured, undecided # None)
  BY DEF OwnedInv
<1> DEFINE R == RetroWaiting(Head(agenda).pos)
           i == Min(R)
           cs == PressBinding(taps[i], "holdInterrupt")
<1>3. /\ R # {}
      /\ taps' = [taps EXCEPT ![i].status = "holdInterrupt"]
      /\ agenda' = cs \o agenda
  BY DEF UpdateRetroTaps
<1>4. R \subseteq Slot /\ Slot \subseteq Nat /\ \A x \in R : Config[taps[x].pos].retro
  BY DEF RetroWaiting, Slot
<1>5. i \in Slot /\ Config[taps[i].pos].retro
  <2> HIDE DEF R
  <2>1. Min(R) \in R
    BY <1>3, <1>4, MinIs
  <2> QED
    BY <1>4, <2>1
<1> HIDE DEF R, i
<1>6. TapShape(taps[i])
  BY <1>2, <1>5 DEF Types
<1>7. Codes(cs) /\ cs \in Seq(Sent)
  <2>1. Codes(cs)
    BY <1>6, PressCodes DEF TapShape
  <2> QED
    BY <2>1 DEF Codes
<1>8. cs = <<>> \/ cs = <<Code(Hold(taps[i].pos), TRUE, taps[i].at)>>
  BY DEF PressBinding
<1>9. Calm => \A n \in DOMAIN cs : ~SendsMod(cs[n])
  <2> SUFFICES ASSUME Calm PROVE \A n \in DOMAIN cs : ~SendsMod(cs[n])
    OBVIOUS
  <2>1. CASE taps[i].pos \in ModHolds
    <3>1. build \in Builds
      BY <1>2 DEF Types
    <3>2. Config[taps[i].pos].early
      BY <1>5, <2>1, <3>1 DEF Calm, Config
    <3>3. cs = <<>>
      BY <3>2 DEF PressBinding
    <3> QED
      BY <3>3
  <2>2. CASE taps[i].pos \notin ModHolds
    <3> DEFINE down == Code(Hold(taps[i].pos), TRUE, taps[i].at)
    <3>1. ~SendsMod(down)
      BY <1>6, <2>2, CodeIs DEF TapShape
    <3>2. cs = <<>> \/ cs = <<down>>
      BY <1>8
    <3> HIDE DEF cs, down
    <3> QED
      BY <3>1, <3>2
  <2> QED
    BY <2>1, <2>2
<1> HIDE DEF cs
<1>10. agenda \in Seq(Call(Slot)) /\ cs \in Seq(Call(Slot))
  BY <1>2, <1>7, SentIsCall DEF Types
<1>11. agenda' \in Seq(Call(Slot))
  BY <1>3, <1>10, Joined
<1>12. /\ DOMAIN taps' = Slot
       /\ \A j \in Slot : TapShape(taps'[j]) /\ taps'[j].pos = taps[j].pos
  BY <1>2, <1>3 DEF Types, TapShape
<1>13. Types'
  BY <1>1, <1>2, <1>11, <1>12, TypesNext DEF Types
<1>14. Owned(agenda', captured, undecided # None)
  <2>0. \A n \in DOMAIN agenda :
           Len(cs) + n \in DOMAIN (cs \o agenda) /\ (cs \o agenda)[Len(cs) + n] = agenda[n]
    BY <1>10, Joined
  <2>1. \A n \in DOMAIN agenda : \E m \in DOMAIN agenda' : agenda'[m] = agenda[n]
    BY <1>3, <2>0
  <2>2. undecided # None => undecided # None
    OBVIOUS
  <2> QED
    BY <1>2, <2>1, <2>2, StillOwned
<1>15. OwnedInv'
  BY <1>1, <1>13, <1>14 DEF OwnedInv
<1>16. ASSUME CallsInv, Calm PROVE CallsInv'
  <2>1. Calls(agenda, captured, undecided # None, Hot)
    BY <1>16 DEF CallsInv
  <2>2. AllLater(Tail(agenda), captured)
    BY <1>1, <1>10, <2>1, LaterIs DEF Handles
  <2>3. \A n \in DOMAIN agenda : agenda[n].do # "code"
    <3> SUFFICES ASSUME NEW n \in DOMAIN agenda PROVE agenda[n].do # "code"
      OBVIOUS
    <3>1. agenda[1] = Head(agenda) /\ (n = 1 \/ (n - 1 \in DOMAIN Tail(agenda) /\ agenda[n] = Tail(agenda)[n - 1]))
      BY <1>1, <1>10, Behind
    <3> QED
      BY <1>1, <2>2, <3>1 DEF AllLater, Later
  <2>4. Calls(agenda, captured, undecided # None, Hot')
    BY <2>1, <2>3, NoCodes
  <2>5. Calls(cs \o agenda, captured, undecided # None, Hot')
    BY <1>7, <1>9, <1>10, <1>16, <2>3, <2>4, SendCodes
  <2> QED
    BY <1>1, <1>3, <1>15, <2>5 DEF CallsInv
<1> QED
  BY <1>15, <1>16

LEMMA BubblingKeeps ==
  ASSUME OwnedInv, Bubbling
  PROVE  OwnedInv' /\ (CallsInv => CallsInv')
<1>1. /\ agenda # <<>> /\ Head(agenda).do = "pos"
      /\ agenda' = <<Bubble(Head(agenda))>> \o Tail(agenda)
      /\ UNCHANGED <<build, taps, undecided, captured, now, serial>>
  BY DEF Bubbling, Doing, settings, input, engine
<1>2. Types
  BY DEF OwnedInv
<1>3. Head(agenda) \in KeyEvent({"pos", "after", "keymap"})
  BY <1>1, <1>2, Basics, CallFields
<1>4. /\ Handles(Head(agenda)) /\ Bubble(Head(agenda)) \in Call(Slot)
      /\ Handles(Bubble(Head(agenda))) /\ Bubble(Head(agenda)).from = Head(agenda).from
  BY <1>3, EventIs DEF Bubble
<1>5. DOMAIN taps' = Slot /\ \A i \in Slot : TapShape(taps'[i]) /\ taps'[i].pos = taps[i].pos
  BY <1>1, <1>2 DEF Types
<1> QED
  BY <1>1, <1>4, <1>5, GoesOn

\* The last part of the listener.
LEMMA CaptureOrBubbleKeeps ==
  ASSUME OwnedInv, agenda # <<>>, Head(agenda).do \in {"pos", "after"}, undecided # None,
         NEW tp, DOMAIN tp = Slot, \A j \in Slot : TapShape(tp[j]) /\ tp[j].pos = taps[j].pos,
         CaptureOrBubble(tp, Head(agenda), Tail(agenda)), UNCHANGED <<build, now, serial>>
  PROVE  OwnedInv' /\ (CallsInv => CallsInv')
<1> DEFINE e == Head(agenda)
           t == Tail(agenda)
<1>1. Types
  BY DEF OwnedInv
<1>2. e \in KeyEvent({"pos", "after", "keymap"}) /\ t \in Seq(Call(Slot))
  BY <1>1, Basics, CallFields
<1>3. Handles(e) /\ e.do # "release"
  BY DEF Handles
<1>4. CASE taps' = tp /\ agenda' = <<Bubble(e)>> \o t /\ UNCHANGED <<undecided, captured>>
  <2>1. Bubble(e) \in Call(Slot) /\ Handles(Bubble(e)) /\ Bubble(e).from = e.from
    BY <1>2, EventIs DEF Bubble
  <2> QED
    BY <1>3, <1>4, <2>1, GoesOn
<1>5. ASSUME NEW moment, Capture([e EXCEPT !.do = "pos"]), Decide(tp, undecided, moment, t)
      PROVE  OwnedInv' /\ (CallsInv => CallsInv')
  <2>1. [[e EXCEPT !.do = "pos"] EXCEPT !.from = None] \in Kept \ {Free}
    BY <1>2, EventIs
  <2>2. /\ captured' \in [Place -> Kept]
        /\ Owned(t, captured', undecided # None)
        /\ CallsInv => Calls(t, captured', undecided # None, Hot) /\ AllLater(t, captured')
    BY <1>3, <1>5, <2>1, CaptureKeeps
  <2>3. undecided \in Slot
    BY <1>1 DEF Types
  <2> HIDE DEF e, t
  <2>4. /\ OwnedInv'
        /\ AllLater(t, captured') /\ Calls(t, captured', undecided # None, Hot) => CallsInv'
    BY <1>1, <1>2, <1>5, <2>2, <2>3, DecideKeeps
  <2> QED
    BY <2>2, <2>4
<1> QED
  BY <1>4, <1>5 DEF CaptureOrBubble

\* A decision made by a call that handles an event, before it goes on.
LEMMA DecideBefore ==
  ASSUME OwnedInv, agenda # <<>>, Handles(Head(agenda)), UNCHANGED <<build, captured, now, serial>>,
         NEW tp, DOMAIN tp = Slot, \A j \in Slot : TapShape(tp[j]) /\ tp[j].pos = taps[j].pos,
         NEW z \in Call(Slot), Handles(z), z.from = Head(agenda).from, z.do \notin {"pos", "keymap"},
         NEW i \in Slot, NEW moment, Decide(tp, i, moment, <<z>> \o Tail(agenda))
  PROVE  OwnedInv' /\ (CallsInv => CallsInv')
<1> DEFINE e == Head(agenda)
           t == Tail(agenda)
           rest == <<z>> \o t
<1>1. Types /\ Owned(agenda, captured, undecided # None)
  BY DEF OwnedInv
<1>2. /\ agenda \in Seq(Call(Slot)) /\ t \in Seq(Call(Slot)) /\ DOMAIN captured \subseteq Nat \ {0}
      /\ captured \in [Place -> Kept]
  BY <1>1, Basics DEF Types
<1>3. e.do # "release"
  BY DEF Handles
<1>4. <<z>> \in Seq(Call(Slot)) /\ DOMAIN <<z>> = {1} /\ <<z>>[1] = z /\ Len(<<z>>) = 1
  OBVIOUS
<1>5. rest \in Seq(Call(Slot))
  BY <1>2, <1>4, Joined
<1>6. Owned(rest, captured, undecided # None)
  <2>1. undecided # None => undecided # None
    OBVIOUS
  <2> QED
    BY <1>1, <1>2, <1>3, <1>4, <2>1, OwnedStep
<1>7. ASSUME CallsInv PROVE AllLater(rest, captured) /\ Calls(rest, captured, undecided # None, Hot)
  <2>1. Calls(agenda, captured, undecided # None, Hot)
    BY <1>7 DEF CallsInv
  <2>2. Calls(rest, captured, undecided # None, Hot)
    BY <1>2, <2>1, Replaced
  <2>3. AllLater(t, captured)
    BY <1>2, <2>1, LaterIs
  <2>4. ASSUME NEW n \in DOMAIN rest PROVE Later(rest[n], captured)
    <3>1. \/ n \in DOMAIN <<z>> /\ rest[n] = <<z>>[n]
          \/ n - Len(<<z>>) \in DOMAIN t /\ rest[n] = t[n - Len(<<z>>)]
      BY <1>2, <1>4, Joined
    <3>2. Later(z, captured)
      BY DEF Later, Handles
    <3> HIDE DEF rest
    <3> QED
      BY <1>4, <2>3, <3>1, <3>2 DEF AllLater
  <2> QED
    BY <2>2, <2>4 DEF AllLater
<1> HIDE DEF rest, e, t
<1>8. Decide(tp, i, moment, rest) /\ captured' = captured
  BY DEF rest, t
<1>9. captured' \in [Place -> Kept] /\ Owned(rest, captured', undecided # None)
  BY <1>2, <1>6, <1>8
<1>10. /\ OwnedInv'
       /\ AllLater(rest, captured') /\ Calls(rest, captured', undecided # None, Hot) => CallsInv'
  BY <1>1, <1>5, <1>8, <1>9, DecideKeeps
<1> QED
  BY <1>7, <1>8, <1>10

LEMMA WhileUndecidedKeeps ==
  ASSUME OwnedInv, WhileUndecided
  PROVE  OwnedInv' /\ (CallsInv => CallsInv')
<1> DEFINE e == Head(agenda)
           t == Tail(agenda)
           u == taps[undecided]
           c == Config[u.pos]
           tp == IF c.onRelease # e.down /\ u.other = NoKey
                 THEN [taps EXCEPT ![undecided].other = e.pos] ELSE taps
           z == [e EXCEPT !.do = "after"]
<1>1. /\ agenda # <<>> /\ e.do = "pos" /\ undecided # None
      /\ UNCHANGED <<build, now, serial>>
  BY DEF WhileUndecided, Doing, settings, input
<1>2. \/ taps' = tp /\ agenda' = <<Bubble(e)>> \o t /\ UNCHANGED <<undecided, captured>>
      \/ Decide(tp, undecided, "timer", <<z>> \o t) /\ UNCHANGED captured
      \/ CaptureOrBubble(tp, e, t)
  BY DEF WhileUndecided
<1>3. Types /\ undecided \in Slot /\ Owned(agenda, captured, undecided # None)
  BY <1>1 DEF OwnedInv, Types
<1>4. DOMAIN tp = Slot /\ \A j \in Slot : TapShape(tp[j]) /\ tp[j].pos = taps[j].pos
  BY <1>3 DEF Types, TapShape
<1> HIDE DEF tp
<1>5. /\ e \in KeyEvent({"pos", "after", "keymap"})
      /\ agenda \in Seq(Call(Slot)) /\ t \in Seq(Call(Slot)) /\ DOMAIN captured \subseteq Nat \ {0}
      /\ captured \in [Place -> Kept]
  BY <1>1, <1>3, Basics, CallFields DEF Types
<1>6. Handles(e) /\ e.do # "release"
  BY <1>1 DEF Handles
<1>7. CASE taps' = tp /\ agenda' = <<Bubble(e)>> \o t /\ UNCHANGED <<undecided, captured>>
  <2>1. Bubble(e) \in Call(Slot) /\ Handles(Bubble(e)) /\ Bubble(e).from = e.from
    BY <1>5, EventIs DEF Bubble
  <2> QED
    BY <1>1, <1>4, <1>6, <1>7, <2>1, GoesOn
<1>8. CASE Decide(tp, undecided, "timer", <<z>> \o t) /\ UNCHANGED captured
  <2>1. z \in Call(Slot) /\ Handles(z) /\ z.from = e.from /\ z.do = "after"
    <3>1. z.do = "after"
      BY <1>5 DEF KeyEvent
    <3> QED
      BY <1>5, <3>1, EventIs
  <2> HIDE DEF z
  <2> QED
    BY <1>1, <1>3, <1>4, <1>6, <1>8, <2>1, DecideBefore
<1>9. CASE CaptureOrBubble(tp, e, t)
  <2>1. e.do \in {"pos", "after"}
    BY <1>1
  <2> QED
    BY <1>1, <1>4, <1>9, <2>1, CaptureOrBubbleKeeps
<1> QED
  BY <1>2, <1>7, <1>8, <1>9

LEMMA AfterTimerKeeps ==
  ASSUME OwnedInv, AfterTimer
  PROVE  OwnedInv' /\ (CallsInv => CallsInv')
<1> DEFINE e == Head(agenda)
           t == Tail(agenda)
<1>1. agenda # <<>> /\ e.do = "after" /\ UNCHANGED <<build, now, serial>>
  BY DEF AfterTimer, Doing, settings, input
<1>2. \/ agenda' = <<Bubble(e)>> \o t /\ UNCHANGED <<taps, undecided, captured>>
      \/ undecided # None /\ CaptureOrBubble(taps, e, t)
  BY DEF AfterTimer, engine
<1>3. Types
  BY DEF OwnedInv
<1>4. DOMAIN taps = Slot /\ \A j \in Slot : TapShape(taps[j]) /\ taps[j].pos = taps[j].pos
  BY <1>3 DEF Types
<1>5. e \in KeyEvent({"pos", "after", "keymap"})
  BY <1>1, <1>3, Basics, CallFields
<1>6. CASE agenda' = <<Bubble(e)>> \o t /\ UNCHANGED <<taps, undecided, captured>>
  <2>1. Handles(e) /\ Bubble(e) \in Call(Slot) /\ Handles(Bubble(e)) /\ Bubble(e).from = e.from
    BY <1>5, EventIs DEF Bubble
  <2> QED
    BY <1>1, <1>4, <1>6, <2>1, GoesOn
<1>7. CASE undecided # None /\ CaptureOrBubble(taps, e, t)
  <2>1. e.do \in {"pos", "after"}
    BY <1>1
  <2> QED
    BY <1>1, <1>4, <1>7, <2>1, CaptureOrBubbleKeeps
<1> QED
  BY <1>2, <1>6, <1>7

LEMMA ReleaseCapturedKeeps ==
  ASSUME OwnedInv, ReleaseCaptured
  PROVE  OwnedInv' /\ (CallsInv => CallsInv')
<1> DEFINE i == Head(agenda).i
           t == Tail(agenda)
           e == [captured[i] EXCEPT !.from = i]
           on == undecided # None
<1>1. agenda # <<>> /\ Head(agenda).do = "release" /\ UNCHANGED <<build, taps, undecided, serial>>
  BY DEF ReleaseCaptured, Doing, settings
<1>2. IF i > MaxCaptured \/ captured[Min({i, MaxCaptured})] = Free
        THEN agenda' = t /\ UNCHANGED <<captured, now>>
        ELSE /\ captured' = [captured EXCEPT ![i] = Free]
             /\ agenda' = <<e, Release(i + 1)>> \o t
             /\ now' \in IF undecided = None \/ now = MaxTime THEN {now} ELSE {now, now + 1}
  BY DEF ReleaseCaptured
<1>3. Types /\ Owned(agenda, captured, on)
  BY DEF OwnedInv
<1>4. /\ i \in Nat \ {0} /\ MaxCaptured \in Nat /\ Place = 1 .. MaxCaptured
      /\ DOMAIN captured = Place /\ DOMAIN captured \subseteq Nat \ {0}
      /\ agenda \in Seq(Call(Slot)) /\ t \in Seq(Call(Slot))
      /\ captured \in [Place -> Kept] /\ now \in Int
  BY <1>1, <1>3, Basics, CallFields DEF Types
<1>5. i <= MaxCaptured => Min({i, MaxCaptured}) = i /\ i \in Place
  <2> HIDE DEF i
  <2>1. Min({i, MaxCaptured}) \in {i, MaxCaptured} /\ \A y \in {i, MaxCaptured} : Min({i, MaxCaptured}) <= y
    BY <1>4, MinIs
  <2> QED
    BY <1>4, <2>1
<1>6. Hot' <=> Hot
  BY <1>1, <1>3, HotNext
<1>7. CASE i > MaxCaptured \/ captured[Min({i, MaxCaptured})] = Free
  <2>1. agenda' = t /\ UNCHANGED <<captured, now>>
    BY <1>2, <1>7
  <2>2. Types'
    BY <1>1, <1>3, <1>4, <2>1, TypesNext DEF Types
  <2>3. \A j \in DOMAIN captured : i <= j => i \in DOMAIN captured /\ captured[i] = Free
    <3> HIDE DEF i
    <3> QED
      BY <1>4, <1>5, <1>7
  <2>4. Owned(t, captured, on)
    <3> HIDE DEF on
    <3> QED
      BY <1>1, <1>3, <1>4, <2>3, OwnedEnd
  <2>5. OwnedInv'
    BY <1>1, <2>1, <2>2, <2>4 DEF OwnedInv
  <2>6. CallsInv => Calls(t, captured, on, Hot')
    BY <1>1, <1>4, <1>6, TailCalls DEF CallsInv
  <2> QED
    BY <1>1, <2>1, <2>5, <2>6 DEF CallsInv
<1>8. CASE ~(i > MaxCaptured \/ captured[Min({i, MaxCaptured})] = Free)
  <2>1. /\ captured' = [captured EXCEPT ![i] = Free]
        /\ agenda' = <<e, Release(i + 1)>> \o t
        /\ now' \in IF undecided = None \/ now = MaxTime THEN {now} ELSE {now, now + 1}
    BY <1>2, <1>8
  <2>2. i \in Place /\ captured[i] # Free
    <3> HIDE DEF i
    <3> QED
      BY <1>4, <1>5, <1>8
  <2>3. e \in Call(Slot) /\ e.do \in {"pos", "code"} /\ e.from = i
    <3>1. captured[i] \in Sent \cup KeyEvent({"pos"})
      BY <1>4, <2>2 DEF Kept
    <3> HIDE DEF i
    <3>2. CASE captured[i] \in Sent
      <4>1. e \in Sent /\ e.do = "code" /\ e.from = i
        BY <1>4, <3>2 DEF Sent
      <4> QED
        BY <4>1 DEF Call
    <3>3. CASE captured[i] \in KeyEvent({"pos"})
      <4>1. e \in KeyEvent({"pos", "after", "keymap"}) /\ e.do = "pos" /\ e.from = i
        BY <1>4, <3>3 DEF KeyEvent
      <4> QED
        BY <4>1 DEF Call
    <3> QED
      BY <3>1, <3>2, <3>3
  <2>4. Release(i + 1) \in Call(Slot)
    BY <1>4 DEF Call, Release
  <2> DEFINE pre == <<e, Release(i + 1)>>
             d == [captured EXCEPT ![i] = Free]
  <2>5. pre \in Seq(Call(Slot)) /\ 2 \in DOMAIN pre /\ pre[2] = Release(i + 1)
    BY <2>3, <2>4
  <2>6. \A n \in DOMAIN t : t[n].do = "release" => t[n].i \in Nat
    <3> SUFFICES ASSUME NEW n \in DOMAIN t, t[n].do = "release" PROVE t[n].i \in Nat
      OBVIOUS
    <3>1. t[n] \in Call(Slot)
      BY <1>4
    <3> QED
      BY <3>1, CallFields
  <2>7. Owned(pre \o t, d, on)
    <3>1. i \in DOMAIN captured
      BY <1>4, <2>2
    <3> HIDE DEF i, e, pre, on
    <3> QED
      BY <1>1, <1>3, <1>4, <2>5, <2>6, <3>1, OwnedRaised DEF i
  <2>8. CallsInv => Calls(pre \o t, d, on, Hot')
    <3> SUFFICES ASSUME CallsInv PROVE Calls(pre \o t, d, on, Hot)
      BY <1>6
    <3>1. Calls(agenda, captured, on, Hot)
      BY DEF CallsInv
    <3>2. Hot => on
      BY DEF Hot
    <3>3. i = Head(agenda).i /\ i \in DOMAIN captured
      BY <1>4, <2>2
    <3> HIDE DEF i, e, on
    <3> QED
      BY <1>1, <1>4, <2>2, <2>3, <3>1, <3>2, <3>3, RaisedCalls
  <2>9. pre \o t \in Seq(Call(Slot))
    BY <1>4, <2>5, Joined
  <2>10. d \in [Place -> Kept]
    BY <1>4 DEF Kept
  <2>11. agenda' = pre \o t /\ captured' = d /\ now' \in Int
    BY <1>4, <2>1
  <2> HIDE DEF pre, d, i, e, t
  <2>12. Types'
    BY <1>1, <1>3, <2>9, <2>10, <2>11, TypesNext DEF Types
  <2>13. OwnedInv'
    BY <1>1, <2>7, <2>11, <2>12 DEF OwnedInv
  <2> QED
    BY <1>1, <2>8, <2>11, <2>13 DEF CallsInv
<1> QED
  BY <1>7, <1>8

LEMMA KeycodeKeeps ==
  ASSUME OwnedInv, Keycode
  PROVE  OwnedInv' /\ (CallsInv => CallsInv')
<1> DEFINE e == Head(agenda)
           t == Tail(agenda)
           on == undecided # None
<1>1. /\ agenda # <<>> /\ e.do = "code" /\ agenda' = t
      /\ UNCHANGED <<build, taps, undecided, now, serial>>
  BY DEF Keycode, Doing, settings, input
<1>2. \/ UNCHANGED captured
      \/ IsMod(e.code) /\ Hot /\ Capture(e)
  BY DEF Keycode, Hot
<1>3. Types /\ Owned(agenda, captured, on)
  BY DEF OwnedInv
<1>4. CASE UNCHANGED captured
  BY <1>1, <1>4, TailOwned
<1>5. CASE IsMod(e.code) /\ Hot /\ Capture(e)
  <2> DEFINE k == [e EXCEPT !.from = None]
  <2>1. /\ agenda \in Seq(Call(Slot)) /\ t \in Seq(Call(Slot)) /\ e \in Sent
        /\ DOMAIN captured = Place /\ DOMAIN captured \subseteq Nat \ {0}
    BY <1>1, <1>3, Basics, CallFields DEF Types
  <2>2. k \in Kept \ {Free}
    <3>1. k \in Sent
      BY <2>1 DEF Sent, None
    <3>2. k.do = "code" /\ Free.do = "free"
      BY <2>1 DEF Sent, Free
    <3> QED
      BY <3>1, <3>2 DEF Kept
  <2>3. /\ captured' \in [Place -> Kept]
        /\ Owned(t, captured', on)
    <3>1. undecided # None /\ e.do # "release"
      BY <1>1, <1>5 DEF Hot
    <3> QED
      BY <1>1, <1>5, <2>2, <3>1, CaptureKeeps
  <2>4. Types'
    BY <1>1, <1>3, <2>1, <2>3, TypesNext DEF Types
  <2>5. OwnedInv'
    BY <1>1, <2>3, <2>4 DEF OwnedInv
  <2>6. Hot' <=> Hot
    BY <1>1, <1>3, HotNext
  <2>7. ASSUME CallsInv PROVE Calls(t, captured', on, Hot)
    <3>1. Calls(agenda, captured, on, Hot)
      BY <2>7 DEF CallsInv
    <3>2. Calls(t, captured, on, Hot) /\ \A n \in DOMAIN t : InOrder(e, t[n], captured, Hot)
      BY <1>1, <2>1, <3>1, TailCalls
    <3>3. SendsMod(e)
      BY <1>1, <1>5 DEF SendsMod
    <3>4. \A n \in DOMAIN t : ~SendsMod(t[n])
      BY <3>2, <3>3 DEF InOrder, SendsMod
    <3>5. \A n \in DOMAIN t : Marked(t[n]) => TwoFreeUnder(captured, Mark(t[n]))
      BY <1>5, <3>2, <3>3 DEF InOrder
    <3>6. \/ captured' = captured
          \/ \E f \in Place : /\ captured[f] = Free /\ \A j \in Place : captured[j] = Free => f <= j
                              /\ captured' = [captured EXCEPT ![f] = k]
      BY <1>3, <1>5, <2>2, CaptureDoes
    <3>7. CASE captured' = captured
      BY <3>2, <3>7
    <3>8. ASSUME NEW f \in Place, captured[f] = Free, \A j \in Place : captured[j] = Free => f <= j,
                 captured' = [captured EXCEPT ![f] = k]
          PROVE  Calls(t, captured', on, Hot)
      <4>1. f \in DOMAIN captured /\ \A j \in DOMAIN captured : captured[j] = Free => f <= j
        BY <2>1, <3>8
      <4>2. on => on
        OBVIOUS
      <4> HIDE DEF on, k, t
      <4> QED
        BY <2>1, <3>2, <3>4, <3>5, <3>8, <4>1, <4>2, PlaceTaken
    <3> QED
      BY <3>6, <3>7, <3>8
  <2> QED
    BY <1>1, <2>5, <2>6, <2>7 DEF CallsInv
<1> QED
  BY <1>2, <1>4, <1>5

\* What is behind a call that handles an event.
LEMMA BehindHandled ==
  ASSUME CallsInv, agenda # <<>>, Handles(Head(agenda))
  PROVE  /\ Calls(Tail(agenda), captured, undecided # None, Hot)
         /\ AllLater(Tail(agenda), captured)
         /\ \A n \in DOMAIN Tail(agenda) : Tail(agenda)[n].do # "code"
         /\ undecided # None =>
               \A n \in DOMAIN Tail(agenda) :
                  Marked(Tail(agenda)[n]) => TwoFreeUnder(captured, Mark(Tail(agenda)[n]))
<1> DEFINE t == Tail(agenda)
           on == undecided # None
<1>1. Types /\ Calls(agenda, captured, on, Hot)
  BY DEF CallsInv, OwnedInv
<1>2. /\ agenda \in Seq(Call(Slot)) /\ DOMAIN captured \subseteq Nat \ {0}
  BY <1>1, Basics DEF Types
<1>3. Calls(t, captured, on, Hot)
  BY <1>1, <1>2, TailCalls
<1>4. AllLater(t, captured)
  BY <1>1, <1>2, LaterIs
<1>5. ASSUME on, NEW n \in DOMAIN t, Marked(t[n]) PROVE TwoFreeUnder(captured, Mark(t[n]))
  BY <1>1, <1>2, <1>5, MarksBehind
<1>6. \A n \in DOMAIN t : t[n].do # "code"
  BY <1>4 DEF AllLater, Later
<1> QED
  BY <1>3, <1>4, <1>5, <1>6

\* A call that handles an event sends keycodes.
LEMMA Sends ==
  ASSUME OwnedInv, agenda # <<>>, Handles(Head(agenda)), UNCHANGED <<build, undecided, captured, now, serial>>,
         DOMAIN taps' = Slot, \A i \in Slot : TapShape(taps'[i]),
         NEW cs \in Seq(Sent), agenda' = cs \o Tail(agenda)
  PROVE  OwnedInv' /\ (CallsInv /\ Codes(cs) => CallsInv')
<1>1. Types
  BY DEF OwnedInv
<1>2. cs \in Seq(Call(Slot)) /\ Tail(agenda) \in Seq(Call(Slot)) /\ Head(agenda).do # "release"
  BY <1>1, SentIsCall, Basics DEF Handles
<1>3. OwnedInv'
  BY <1>1, <1>2, StepOwned DEF Types
<1>4. ASSUME CallsInv, Codes(cs) PROVE Calls(cs \o Tail(agenda), captured, undecided # None, Hot')
  <2> DEFINE t == Tail(agenda)
  <2>1. /\ Calls(t, captured, undecided # None, Hot)
        /\ AllLater(t, captured)
        /\ \A n \in DOMAIN t : t[n].do # "code"
        /\ undecided # None =>
              \A n \in DOMAIN t : Marked(t[n]) => TwoFreeUnder(captured, Mark(t[n]))
    BY <1>4, BehindHandled
  <2>2. t \in Seq(Call(Slot))
    BY <1>2
  <2> HIDE DEF t
  <2>3. Calls(t, captured, undecided # None, Hot')
    BY <2>1, NoCodes
  <2>4. Hot' => undecided # None
    BY DEF Hot
  <2>5. \A m \in DOMAIN cs, n \in DOMAIN t :
            SendsMod(cs[m]) => /\ t[n].do \notin {"pos", "keymap"}
                               /\ Hot' /\ Marked(t[n]) => TwoFreeUnder(captured, Mark(t[n]))
    BY <2>1, <2>4 DEF AllLater, Later
  <2>6. Calls(cs \o t, captured, undecided # None, Hot')
    BY <1>2, <1>4, <2>1, <2>2, <2>3, <2>5, SendCodes
  <2> QED
    BY <2>6 DEF t
<1> QED
  BY <1>3, <1>4 DEF CallsInv

LEMMA PlainKeyKeeps ==
  ASSUME OwnedInv, PlainKey
  PROVE  OwnedInv' /\ (CallsInv => CallsInv')
<1> DEFINE e == Head(agenda)
           c == Code([of |-> e.pos, as |-> "key"], e.down, e.at)
<1>1. /\ agenda # <<>> /\ e.do = "keymap"
      /\ agenda' = <<c>> \o Tail(agenda)
      /\ UNCHANGED <<build, taps, undecided, captured, now, serial>>
  BY DEF PlainKey, Doing, settings, engine, input
<1>2. Types
  BY DEF OwnedInv
<1>3. e \in KeyEvent({"pos", "after", "keymap"})
  BY <1>1, <1>2, Basics, CallFields
<1>4. c \in Sent
  BY <1>3 DEF KeyEvent, Code, Sent, AnyBinding, None
<1> HIDE DEF c
<1>5. <<c>> \in Seq(Sent) /\ Codes(<<c>>)
  BY <1>4 DEF Codes
<1>6. Handles(e) /\ DOMAIN taps' = Slot /\ \A i \in Slot : TapShape(taps'[i])
  BY <1>1, <1>2 DEF Handles, Types
<1> QED
  BY <1>1, <1>5, <1>6, Sends

LEMMA RefusedKeeps ==
  ASSUME OwnedInv, PressRefused \/ ReleaseUnknown
  PROVE  OwnedInv' /\ (CallsInv => CallsInv')
<1>1. /\ agenda # <<>> /\ Head(agenda).do = "keymap" /\ agenda' = Tail(agenda)
      /\ UNCHANGED <<build, taps, undecided, captured, now, serial>>
  BY DEF PressRefused, ReleaseUnknown, Doing, settings, engine, input
<1> QED
  BY <1>1, TailOwned

\* A hold-tap that becomes undecided finds a free place before what waits: the place
\* of the event that made it so.
LEMMA NowUndecided ==
  ASSUME NEW S, NEW s \in Seq(Call(S)), s # <<>>, NEW cap, NEW on, NEW hot, NEW other,
         Calls(s, cap, on, hot), Handles(Head(s))
  PROVE  Calls(Tail(s), cap, TRUE, other)
<1> DEFINE x == Head(s)
           t == Tail(s)
<1>1. Clear(x, cap, on) /\ Calls(t, cap, on, hot) /\ \A n \in DOMAIN t : InOrder(x, t[n], cap, hot)
  BY TailCalls
<1>2. x.do # "release" /\ Mark(x) = x.from /\ (Marked(x) <=> x.from # None)
  BY DEF Handles, Mark, Marked
<1>3. AllLater(t, cap)
  BY LaterIs
<1>4. \A n \in DOMAIN t : t[n].do # "code"
  BY <1>3 DEF AllLater, Later
<1> HIDE DEF x, t
<1>5. ASSUME NEW n \in DOMAIN t PROVE Clear(t[n], cap, TRUE)
  <2>1. Clear(t[n], cap, on)
    BY <1>1 DEF Calls, Clears
  <2>2. ASSUME Marked(t[n]) PROVE FreeUnder(cap, Mark(t[n]))
    <3>1. InOrder(x, t[n], cap, hot)
      BY <1>1
    <3>2. x.from # None
      BY <2>2, <3>1 DEF InOrder, x
    <3>3. x.from \in DOMAIN cap /\ cap[x.from] = Free
      BY <1>1, <3>2 DEF Clear, x
    <3>4. x.from < Mark(t[n])
      BY <1>2, <2>2, <3>1, <3>2 DEF InOrder
    <3> QED
      BY <3>3, <3>4 DEF FreeUnder
  <2> QED
    BY <2>1, <2>2 DEF Clear
<1>6. Calls(t, cap, on, other)
  BY <1>1, <1>4, NoCodes
<1> QED
  BY <1>5, <1>6 DEF Calls, Clears, t

LEMMA BindingPressedKeeps ==
  ASSUME OwnedInv, BindingPressed
  PROVE  OwnedInv' /\ (CallsInv => CallsInv')
<1> DEFINE e == Head(agenda)
           t == Tail(agenda)
           free == {j \in Slot : taps[j].pos = NoKey}
           i == Min(free)
           h == [Unused EXCEPT !.pos = e.pos, !.at = e.at]
           quick == QuickTap(e.pos, e.at) /\ Outcome(timing[e.pos].flavor, "quickTap") = "tap"
           P == [do |-> "pressed", i |-> i]
           rest == <<P>> \o t
           cs == PressBinding(h, "tap")
<1>1. /\ agenda # <<>> /\ e.do = "keymap" /\ undecided = None /\ free # {}
      /\ UNCHANGED <<build, captured, now, serial>>
      /\ taps' = [taps EXCEPT ![i] = [h EXCEPT !.status = IF quick THEN "tap" ELSE "undecided"]]
      /\ undecided' = IF quick THEN None ELSE i
      /\ agenda' = (IF quick THEN cs \o <<Release(1)>> ELSE <<>>) \o rest
  BY DEF BindingPressed, Doing, settings, input
<1> HIDE DEF quick
<1>2. Types /\ Owned(agenda, captured, undecided # None)
  BY DEF OwnedInv
<1>3. /\ agenda \in Seq(Call(Slot)) /\ t \in Seq(Call(Slot)) /\ DOMAIN captured \subseteq Nat \ {0}
      /\ captured \in [Place -> Kept]
  BY <1>1, <1>2, Basics DEF Types
<1>4. e \in KeyEvent({"pos", "after", "keymap"}) /\ Handles(e) /\ e.do # "release"
  BY <1>1, <1>2, Basics, CallFields DEF Handles
<1>5. i \in Slot
  <2>1. free \subseteq Nat /\ free \subseteq Slot
    BY DEF Slot
  <2> HIDE DEF free
  <2> QED
    BY <1>1, <2>1, MinIs
<1> HIDE DEF free, i
<1>6. h.pos \in Position \cup {NoKey} /\ h.at \in Int /\ TapShape(h)
  BY <1>4 DEF KeyEvent, Unused, TapShape
<1> HIDE DEF h, e
<1>7. DOMAIN taps' = Slot /\ \A j \in Slot : TapShape(taps'[j])
  BY <1>1, <1>2, <1>5, <1>6 DEF Types, TapShape
<1>8. undecided' \in Slot \cup {None}
  BY <1>1, <1>5
<1>9. Codes(cs) /\ cs \in Seq(Call(Slot))
  <2>1. Codes(cs)
    BY <1>6, PressCodes
  <2>2. cs \in Seq(Sent)
    BY <2>1 DEF Codes
  <2> QED
    BY <2>1, <2>2, SentIsCall
<1> HIDE DEF cs
<1>10. /\ <<P>> \in Seq(Call(Slot)) /\ DOMAIN <<P>> = {1} /\ <<P>>[1] = P /\ Len(<<P>>) = 1
       /\ P.do = "pressed"
  BY <1>5 DEF Call
<1> HIDE DEF P
<1>11. rest \in Seq(Call(Slot))
  BY <1>3, <1>10, Joined
<1>12. ASSUME CallsInv, NEW on, NEW hot, Calls(t, captured, on, hot)
       PROVE  Calls(rest, captured, on, hot) /\ AllLater(rest, captured)
  <2>1. AllLater(t, captured) /\ \A n \in DOMAIN t : t[n].do # "code"
    BY <1>1, <1>4, <1>12, BehindHandled DEF e
  <2>2. ~Handles(P) /\ ~Marked(P) /\ ~SendsMod(P) /\ P.do # "release"
    BY <1>10 DEF Handles, Marked, SendsMod
  <2>3. Calls(<<P>>, captured, on, hot)
    <3>1. Clear(P, captured, on)
      BY <2>2 DEF Clear
    <3> QED
      BY <3>1, OneCall
  <2>4. ASSUME NEW m \in DOMAIN <<P>>, NEW n \in DOMAIN t PROVE InOrder(<<P>>[m], t[n], captured, hot)
    BY <1>10, <2>1, <2>2 DEF InOrder, AllLater, Later
  <2>5. Calls(rest, captured, on, hot)
    BY <1>3, <1>10, <1>12, <2>3, <2>4, JoinCalls
  <2>6. ASSUME NEW n \in DOMAIN rest PROVE Later(rest[n], captured)
    <3>1. \/ n \in DOMAIN <<P>> /\ rest[n] = <<P>>[n]
          \/ n - Len(<<P>>) \in DOMAIN t /\ rest[n] = t[n - Len(<<P>>)]
      BY <1>3, <1>10, Joined
    <3>2. Later(P, captured)
      BY <1>10 DEF Later
    <3> HIDE DEF rest
    <3> QED
      BY <1>10, <2>1, <3>1, <3>2 DEF AllLater
  <2> QED
    BY <2>5, <2>6 DEF AllLater
<1>13. \A then : (undecided # None => then) => Owned(rest, captured, then)
  BY <1>1, <1>2, <1>3, <1>4, <1>10, OwnedStep DEF e
<1>14. CASE quick
  <2>1. agenda' = (cs \o <<Release(1)>>) \o rest /\ undecided' = None /\ captured' = captured
    BY <1>1, <1>14
  <2>2. <<Release(1)>> \in Seq(Call(Slot))
    BY DEF Call, Release
  <2>3. cs \o <<Release(1)>> \in Seq(Call(Slot))
    BY <1>9, <2>2, Joined
  <2>4. agenda' \in Seq(Call(Slot))
    BY <1>11, <2>1, <2>3, Joined
  <2>5. Types'
    BY <1>1, <1>2, <1>3, <1>7, <1>8, <2>4, TypesNext DEF Types
  <2>6. Owned(rest, captured, FALSE)
    BY <1>1, <1>13
  <2> HIDE DEF rest, t
  <2>7. Owned(agenda', captured', FALSE)
    BY <1>3, <1>9, <1>11, <2>1, <2>6, OwnedDecided
  <2>8. (undecided' # None) = FALSE /\ Hot' = FALSE
    BY <2>1 DEF Hot
  <2>9. OwnedInv'
    BY <2>5, <2>7, <2>8 DEF OwnedInv
  <2>10. ASSUME CallsInv PROVE Calls(agenda', captured', FALSE, FALSE)
    <3>1. Calls(t, captured, undecided # None, Hot)
      BY <1>1, <1>4, <2>10, BehindHandled DEF e, t
    <3>2. Calls(rest, captured, undecided # None, Hot) /\ AllLater(rest, captured)
      BY <1>12, <2>10, <3>1
    <3> QED
      BY <1>3, <1>9, <1>11, <2>1, <3>2, DecidedCalls
  <2> QED
    BY <2>8, <2>9, <2>10 DEF CallsInv
<1>15. CASE ~quick
  <2>1. agenda' = rest /\ undecided' = i /\ captured' = captured
    <3>1. <<>> \o rest = rest
      BY <1>11, ConcatEmptySeq
    <3> QED
      BY <1>1, <1>15, <3>1
  <2>2. Types'
    BY <1>1, <1>2, <1>3, <1>7, <1>8, <1>11, <2>1, TypesNext DEF Types
  <2>3. (undecided' # None) = TRUE
    BY <1>2, <1>5, <2>1, Basics
  <2>4. Owned(rest, captured, TRUE)
    BY <1>13
  <2>5. OwnedInv'
    BY <2>1, <2>2, <2>3, <2>4 DEF OwnedInv
  <2>6. ASSUME CallsInv PROVE Calls(rest, captured, TRUE, Hot')
    <3>1. Calls(agenda, captured, undecided # None, Hot)
      BY <2>6 DEF CallsInv
    <3>2. Calls(t, captured, TRUE, Hot')
      BY <1>1, <1>3, <1>4, <3>1, NowUndecided DEF e
    <3> QED
      BY <1>12, <2>6, <3>2
  <2> QED
    BY <2>1, <2>3, <2>5, <2>6 DEF CallsInv
<1> QED
  BY <1>14, <1>15

LEMMA PressedKeeps ==
  ASSUME OwnedInv, Pressed
  PROVE  OwnedInv' /\ (CallsInv => CallsInv')
<1> DEFINE i == Head(agenda).i
           t == Tail(agenda)
           h == taps[i]
           due == h.at + timing[h.pos].term
           early == h.status = "undecided" /\ i = undecided /\ Config[h.pos].early
           c == Code(Hold(h.pos), TRUE, h.at)
           cs == IF early THEN <<c>> ELSE <<>>
<1>1. /\ agenda # <<>> /\ Head(agenda).do = "pressed"
      /\ UNCHANGED <<build, undecided, captured, now, serial>>
      /\ taps' = [taps EXCEPT ![i].timer = IF @ # Off THEN @ ELSE IF due > now THEN due ELSE now]
      /\ agenda' = cs \o t
  BY DEF Pressed, Doing, settings, input
<1> HIDE DEF due
<1>2. Types /\ Owned(agenda, captured, undecided # None)
  BY DEF OwnedInv
<1>3. i \in Slot
  BY <1>1, <1>2, Basics, CallFields
<1>4. /\ DOMAIN taps' = Slot
      /\ \A j \in Slot : TapShape(taps'[j]) /\ taps'[j].pos = taps[j].pos
  BY <1>1, <1>2, <1>3 DEF Types, TapShape
<1>5. c \in Sent
  <2>1. TapShape(h)
    BY <1>2, <1>3 DEF Types
  <2> QED
    BY <2>1, CodeIs DEF TapShape
<1> HIDE DEF c
<1>6. cs \in Seq(Sent) /\ Codes(cs)
  BY <1>5 DEF Codes
<1>7. early => ~Hot
  BY DEF Hot
<1>8. Hot' <=> Hot
  BY <1>1, <1>2, <1>4, HotNext
<1>9. cs # <<>> => ~Hot
  BY <1>7
<1> HIDE DEF early, cs, h, i
<1>10. cs \in Seq(Call(Slot)) /\ agenda \in Seq(Call(Slot)) /\ t \in Seq(Call(Slot))
  BY <1>1, <1>2, <1>6, SentIsCall, Basics DEF Types
<1>11. OwnedInv'
  BY <1>1, <1>2, <1>4, <1>10, StepOwned DEF Types
<1>12. ASSUME CallsInv PROVE Calls(cs \o t, captured, undecided # None, Hot)
  <2>1. Calls(agenda, captured, undecided # None, Hot)
    BY <1>12 DEF CallsInv
  <2>2. Calls(t, captured, undecided # None, Hot) /\ \A n \in DOMAIN t : InOrder(Head(agenda), t[n], captured, Hot)
    BY <1>1, <1>10, <2>1, TailCalls
  <2>3. \A n \in DOMAIN t : t[n].do \notin {"code", "pos", "keymap"}
    BY <1>1, <2>2 DEF InOrder
  <2>4. \A m \in DOMAIN cs : ~Hot
    <3>1. cs = <<>> => DOMAIN cs = {}
      OBVIOUS
    <3> QED
      BY <1>9, <3>1
  <2> HIDE DEF t
  <2> QED
    BY <1>6, <1>10, <2>2, <2>3, <2>4, SendCodes
<1> QED
  BY <1>1, <1>8, <1>11, <1>12 DEF CallsInv

LEMMA BindingReleasedKeeps ==
  ASSUME OwnedInv, BindingReleased
  PROVE  OwnedInv' /\ (CallsInv => CallsInv')
<1> DEFINE e == Head(agenda)
           mine == {j \in Slot : taps[j].pos = e.pos}
           i == Min(mine)
           tp == [taps EXCEPT ![i].timer = Off]
           z == [do |-> "keyUp", i |-> i, at |-> e.at, from |-> e.from]
           up == <<z>> \o Tail(agenda)
<1>1. /\ agenda # <<>> /\ e.do = "keymap" /\ mine # {}
      /\ UNCHANGED <<build, captured, now, serial>>
  BY DEF BindingReleased, Doing, settings, input
<1>2. \/ Decide(tp, i, "timer", up)
      \/ taps' = tp /\ agenda' = up /\ UNCHANGED undecided
  BY DEF BindingReleased
<1>3. Types
  BY DEF OwnedInv
<1>4. e \in KeyEvent({"pos", "after", "keymap"}) /\ Handles(e)
  BY <1>1, <1>3, Basics, CallFields DEF Handles
<1>5. i \in Slot
  <2>1. mine \subseteq Nat /\ mine \subseteq Slot
    BY DEF Slot
  <2> HIDE DEF mine
  <2> QED
    BY <1>1, <2>1, MinIs
<1> HIDE DEF mine, i
<1>6. DOMAIN tp = Slot /\ \A j \in Slot : TapShape(tp[j]) /\ tp[j].pos = taps[j].pos
  BY <1>3, <1>5 DEF Types, TapShape
<1> HIDE DEF tp
<1>7. z \in Call(Slot) /\ Handles(z) /\ z.from = e.from /\ z.do \notin {"pos", "keymap"}
  BY <1>4, <1>5 DEF KeyEvent, Call, Handles
<1> HIDE DEF z
<1>8. CASE Decide(tp, i, "timer", up)
  BY <1>1, <1>4, <1>5, <1>6, <1>7, <1>8, DecideBefore
<1>9. CASE taps' = tp /\ agenda' = up /\ UNCHANGED undecided
  BY <1>1, <1>4, <1>6, <1>7, <1>9, GoesOn
<1> QED
  BY <1>2, <1>8, <1>9

LEMMA KeyUpDecisionKeeps ==
  ASSUME OwnedInv, KeyUpDecision
  PROVE  OwnedInv' /\ (CallsInv => CallsInv')
<1> DEFINE e == Head(agenda)
           z == [e EXCEPT !.do = "released"]
<1>1. /\ agenda # <<>> /\ e.do = "keyUp"
      /\ UNCHANGED <<build, captured, now, serial>>
      /\ Decide(taps, e.i, "keyUp", <<z>> \o Tail(agenda))
  BY DEF KeyUpDecision, Doing, settings, input
<1>2. Types
  BY DEF OwnedInv
<1>3. e \in Call(Slot) /\ Handles(e) /\ e.i \in Slot
  BY <1>1, <1>2, Basics, CallFields DEF Handles
<1>4. e \in [do : {"keyUp", "released"}, i : Slot, at : Int, from : Nat]
  BY <1>1, <1>3 DEF Call, Sent, KeyEvent
<1>5. z \in [do : {"keyUp", "released"}, i : Slot, at : Int, from : Nat] /\ z.do = "released" /\ z.from = e.from
  BY <1>4
<1>6. z \in Call(Slot) /\ Handles(z) /\ z.from = e.from /\ z.do \notin {"pos", "keymap"}
  BY <1>5 DEF Call, Handles
<1> HIDE DEF z
<1>7. DOMAIN taps = Slot /\ \A j \in Slot : TapShape(taps[j]) /\ taps[j].pos = taps[j].pos
  BY <1>2 DEF Types
<1> QED
  BY <1>1, <1>3, <1>6, <1>7, DecideBefore

\* Keycodes one after the other hold a modifier at most once if one part holds none.
NoMods(cs) == \A n \in DOMAIN cs : ~SendsMod(cs[n])

LEMMA JoinCodes ==
  ASSUME NEW a \in Seq(Sent), NEW b \in Seq(Sent)
  PROVE  /\ a \o b \in Seq(Sent)
         /\ NoMods(a) /\ NoMods(b) => NoMods(a \o b)
         /\ Codes(a) /\ Codes(b) /\ (NoMods(a) \/ NoMods(b)) => Codes(a \o b)
<1> DEFINE t == a \o b
<1>1. /\ t \in Seq(Sent)
      /\ \A n \in DOMAIN t :
            \/ n \in DOMAIN a /\ t[n] = a[n]
            \/ n > Len(a) /\ n - Len(a) \in DOMAIN b /\ t[n] = b[n - Len(a)]
  BY Joined
<1>2. Len(a) \in Nat /\ DOMAIN t \subseteq Nat
  BY <1>1
<1> HIDE DEF t
<1>3. NoMods(a) /\ NoMods(b) => NoMods(t)
  BY <1>1 DEF NoMods
<1>4. ASSUME Codes(a), Codes(b), NoMods(a) \/ NoMods(b), NEW m \in DOMAIN t, NEW n \in DOMAIN t,
             SendsMod(t[m]), SendsMod(t[n])
      PROVE  m = n
  <2>1. CASE NoMods(a)
    <3>1. m > Len(a) /\ m - Len(a) \in DOMAIN b /\ t[m] = b[m - Len(a)]
      BY <1>1, <1>4, <2>1 DEF NoMods
    <3>2. n > Len(a) /\ n - Len(a) \in DOMAIN b /\ t[n] = b[n - Len(a)]
      BY <1>1, <1>4, <2>1 DEF NoMods
    <3>3. m - Len(a) = n - Len(a)
      BY <1>4, <3>1, <3>2 DEF Codes
    <3> QED
      BY <1>2, <3>3
  <2>2. CASE NoMods(b)
    <3>1. m \in DOMAIN a /\ t[m] = a[m] /\ n \in DOMAIN a /\ t[n] = a[n]
      BY <1>1, <1>4, <2>2 DEF NoMods
    <3> QED
      BY <1>4, <3>1 DEF Codes
  <2> QED
    BY <1>4, <2>1, <2>2
<1> QED
  BY <1>1, <1>3, <1>4 DEF Codes, t

\* One keycode, or none.
LEMMA FewCodes ==
  ASSUME NEW x \in Sent
  PROVE  /\ <<x>> \in Seq(Sent) /\ Codes(<<x>>) /\ (~SendsMod(x) => NoMods(<<x>>))
         /\ <<>> \in Seq(Sent) /\ Codes(<<>>) /\ NoMods(<<>>)
  BY DEF Codes, NoMods

LEMMA ReleasedKeeps ==
  ASSUME OwnedInv, Released
  PROVE  OwnedInv' /\ (CallsInv /\ Calm => CallsInv')
<1> DEFINE i == Head(agenda).i
           t == Tail(agenda)
           h == taps[i]
           p == h.pos
           c == Config[h.pos]
           retro == c.retro /\ h.status = "holdTimer"
           s == IF retro THEN "tap" ELSE h.status
           A == IF retro THEN PressBinding(h, "tap") ELSE <<>>
           B == ReleaseBinding(h, s)
           up == Code(Hold(h.pos), FALSE, h.at)
           tup == Code(Tap(h.pos), FALSE, h.at)
           C == IF c.early /\ c.linger THEN <<up>> ELSE <<>>
           AB == A \o B
           cs == AB \o C
<1>1. /\ agenda # <<>> /\ Head(agenda).do = "released"
      /\ UNCHANGED <<build, undecided, captured, now, serial>>
      /\ taps' = [taps EXCEPT ![i] = Unused]
      /\ agenda' = cs \o t
  BY DEF Released, Doing, settings, input
<1>2. Types
  BY DEF OwnedInv
<1>3. i \in Slot /\ Handles(Head(agenda))
  BY <1>1, <1>2, Basics, CallFields DEF Handles
<1>4. DOMAIN taps' = Slot /\ \A j \in Slot : TapShape(taps'[j])
  <2>1. TapShape(Unused)
    BY DEF TapShape, Unused
  <2> QED
    BY <1>1, <1>2, <1>3, <2>1 DEF Types
<1>5. p \in Position \cup {NoKey} /\ h.at \in Int
  BY <1>2, <1>3 DEF Types, TapShape
<1>6. up \in Sent /\ tup \in Sent /\ ~SendsMod(tup) /\ (SendsMod(up) <=> p \in ModHolds)
  BY <1>5, CodeIs
<1>7. B = <<>> \/ B = <<tup>> \/ (~retro /\ B = <<up>>)
  BY DEF ReleaseBinding
<1>8. Codes(PressBinding(h, "tap"))
  BY <1>5, PressCodes
<1>9. Codes(A) /\ (~retro => NoMods(A))
  BY <1>6, <1>8, FewCodes
<1> HIDE DEF up, tup, retro, A, B
<1>10. Codes(B) /\ (retro => NoMods(B))
  BY <1>6, <1>7, FewCodes
<1>11. Codes(C) /\ (NoMods(C) \/ (c.early /\ c.linger /\ p \in ModHolds))
  BY <1>6, FewCodes
<1>12. A \in Seq(Sent) /\ B \in Seq(Sent) /\ C \in Seq(Sent)
  BY <1>9, <1>10, <1>11 DEF Codes
<1>13. AB \in Seq(Sent) /\ Codes(AB)
  BY <1>9, <1>10, <1>12, JoinCodes
<1>14. Calm => NoMods(C)
  <2>1. build \in Builds
    BY <1>2 DEF Types
  <2> QED
    BY <1>11, <2>1 DEF Calm, Config
<1> HIDE DEF AB, C
<1>15. cs \in Seq(Sent) /\ (Calm => Codes(cs))
  BY <1>11, <1>12, <1>13, <1>14, JoinCodes
<1> HIDE DEF cs, i
<1> QED
  BY <1>1, <1>3, <1>4, <1>15, Sends

LEMMA TimerHandlerKeeps ==
  ASSUME OwnedInv, NEW i \in Slot, TimerHandler(i)
  PROVE  OwnedInv' /\ (CallsInv => CallsInv')
<1> DEFINE tp == [taps EXCEPT ![i].timer = Off]
<1>1. /\ agenda = <<>> /\ UNCHANGED <<build, captured, now, serial>>
      /\ Decide(tp, i, "timer", <<>>)
  BY DEF TimerHandler, Idle, settings, input
<1>2. Types /\ Owned(agenda, captured, undecided # None)
  BY DEF OwnedInv
<1>3. DOMAIN tp = Slot /\ \A j \in Slot : TapShape(tp[j]) /\ tp[j].pos = taps[j].pos
  BY <1>2 DEF Types, TapShape
<1> HIDE DEF tp
<1>4. <<>> \in Seq(Call(Slot)) /\ captured' \in [Place -> Kept] /\ Owned(<<>>, captured', undecided # None)
  BY <1>1, <1>2 DEF Types
<1>5. AllLater(<<>>, captured')
  BY DEF AllLater
<1>6. CallsInv => Calls(<<>>, captured', undecided # None, Hot)
  BY <1>1 DEF CallsInv
<1>7. /\ OwnedInv'
      /\ AllLater(<<>>, captured') /\ Calls(<<>>, captured', undecided # None, Hot) => CallsInv'
  BY <1>1, <1>2, <1>3, <1>4, DecideKeeps
<1> QED
  BY <1>5, <1>6, <1>7

LEMMA KeyKeeps ==
  ASSUME OwnedInv, NEW p \in Position, KeyDown(p) \/ KeyUp(p)
  PROVE  OwnedInv' /\ (CallsInv => CallsInv')
<1>1. Types /\ Owned(agenda, captured, undecided # None)
  BY DEF OwnedInv
<1>2. /\ agenda = <<>> /\ UNCHANGED <<build, taps, undecided, captured, now>> /\ serial' \in Nat
  <2>1. serial \in Nat
    BY <1>1 DEF Types
  <2>2. CASE KeyDown(p)
    BY <2>1, <2>2 DEF KeyDown, Idle, settings, engine
  <2>3. CASE KeyUp(p)
    BY <2>1, <2>3 DEF KeyUp, Idle, settings, engine
  <2> QED
    BY <2>2, <2>3
<1>3. PICK x \in KeyEvent({"pos"}) : agenda' = <<x>> /\ x.from = None
  <2>1. CASE KeyDown(p)
    <3>1. Key(p, TRUE, now, serial') \in KeyEvent({"pos"}) /\ Key(p, TRUE, now, serial').from = None
      BY <1>1, <1>2 DEF Key, KeyEvent, None, Types
    <3> QED
      BY <2>1, <3>1 DEF KeyDown
  <2>2. CASE KeyUp(p)
    <3>1. Key(p, FALSE, now, serial) \in KeyEvent({"pos"}) /\ Key(p, FALSE, now, serial).from = None
      BY <1>1, <1>2 DEF Key, KeyEvent, None, Types
    <3> QED
      BY <2>2, <3>1 DEF KeyUp
  <2> QED
    BY <2>1, <2>2
<1>4. x \in Call(Slot) /\ x.do = "pos"
  BY DEF KeyEvent, Call
<1>5. agenda' \in Seq(Call(Slot))
  BY <1>3, <1>4
<1>6. Types'
  BY <1>1, <1>2, <1>5, TypesNext DEF Types
<1>7. Owned(agenda', captured, undecided # None)
  <2>1. DOMAIN agenda = {}
    BY <1>2
  <2> QED
    BY <1>1, <2>1 DEF Owned
<1>8. OwnedInv'
  BY <1>2, <1>6, <1>7 DEF OwnedInv
<1>9. Clear(x, captured, undecided # None)
  BY <1>3, <1>4 DEF Clear, Marked
<1>10. Calls(agenda', captured, undecided # None, Hot')
  BY <1>3, <1>9, OneCall
<1> QED
  BY <1>2, <1>8, <1>10 DEF CallsInv

LEMMA QuietKeeps ==
  ASSUME OwnedInv, UNCHANGED <<build, taps, undecided, captured, agenda, serial>>, now' \in Int
  PROVE  OwnedInv' /\ (CallsInv => CallsInv')
<1>1. Types /\ Owned(agenda, captured, undecided # None)
  BY DEF OwnedInv
<1>2. Types'
  BY <1>1, TypesNext DEF Types
<1>3. OwnedInv'
  BY <1>1, <1>2 DEF OwnedInv
<1>4. Hot' <=> Hot
  BY <1>1, HotNext
<1> QED
  BY <1>3, <1>4 DEF CallsInv

-----------------------------------------------------------------------------
(* The theorems. *)

LEMMA InitCalls == Init => CallsInv
<1> SUFFICES ASSUME Init PROVE CallsInv
  OBVIOUS
<1>1. /\ build \in Builds /\ taps = [i \in Slot |-> Unused] /\ undecided = None
      /\ captured = [j \in Place |-> Free] /\ agenda = <<>> /\ now = 1 /\ serial = 0
  BY DEF Init
<1>2. TapShape(Unused)
  BY DEF TapShape, Unused
<1>3. agenda \in Seq(Call(Slot)) /\ DOMAIN agenda = {}
  BY <1>1
<1>4. captured \in [Place -> Kept]
  BY <1>1 DEF Kept
<1>5. DOMAIN taps = Slot /\ \A i \in Slot : TapShape(taps[i])
  BY <1>1, <1>2
<1>6. Types
  BY <1>1, <1>3, <1>4, <1>5 DEF Types
<1>7. Owned(agenda, captured, undecided # None)
  BY <1>1 DEF Owned
<1>8. Calls(agenda, captured, undecided # None, Hot)
  BY <1>3 DEF Calls, Clears, Ordered
<1> QED
  BY <1>6, <1>7, <1>8 DEF CallsInv, OwnedInv

LEMMA StepKeeps ==
  ASSUME OwnedInv, [Next]_vars
  PROVE  OwnedInv' /\ (CallsInv /\ Calm => CallsInv')
<1>1. CASE Work
  <2>1. CASE UpdateRetroTaps
    BY <2>1, UpdateRetroTapsKeeps
  <2>2. CASE Bubbling
    BY <2>2, BubblingKeeps
  <2>3. CASE WhileUndecided
    BY <2>3, WhileUndecidedKeeps
  <2>4. CASE AfterTimer
    BY <2>4, AfterTimerKeeps
  <2>5. CASE ReleaseCaptured
    BY <2>5, ReleaseCapturedKeeps
  <2>6. CASE Keycode
    BY <2>6, KeycodeKeeps
  <2>7. CASE PlainKey
    BY <2>7, PlainKeyKeeps
  <2>8. CASE PressRefused \/ ReleaseUnknown
    BY <2>8, RefusedKeeps
  <2>9. CASE BindingPressed
    BY <2>9, BindingPressedKeeps
  <2>10. CASE Pressed
    BY <2>10, PressedKeeps
  <2>11. CASE BindingReleased
    BY <2>11, BindingReleasedKeeps
  <2>12. CASE KeyUpDecision
    BY <2>12, KeyUpDecisionKeeps
  <2>13. CASE Released
    BY <2>13, ReleasedKeeps
  <2> QED
    BY <1>1, <2>1, <2>2, <2>3, <2>4, <2>5, <2>6, <2>7, <2>8, <2>9, <2>10, <2>11, <2>12, <2>13 DEF Work
<1>2. CASE \E i \in Slot : TimerHandler(i)
  BY <1>2, TimerHandlerKeeps
<1>3. CASE \E p \in Position : KeyDown(p) \/ KeyUp(p)
  BY <1>3, KeyKeeps
<1>4. CASE Tick
  <2>1. UNCHANGED <<build, taps, undecided, captured, agenda, serial>> /\ now' \in Int
    BY <1>4 DEF Tick, settings, engine, OwnedInv, Types
  <2> QED
    BY <2>1, QuietKeeps
<1>5. ASSUME NEW p \in HoldTaps, NEW f \in DOMAIN Edits[p], NEW v \in Edits[p][f], CopyField(p, f, v)
      PROVE  OwnedInv' /\ (CallsInv => CallsInv')
  <2>1. UNCHANGED <<build, taps, undecided, captured, agenda, serial>> /\ now' \in Int
    BY <1>5 DEF CopyField, engine, input, OwnedInv, Types
  <2> QED
    BY <2>1, QuietKeeps
<1>6. CASE UNCHANGED vars
  <2>1. UNCHANGED <<build, taps, undecided, captured, agenda, serial>> /\ now' \in Int
    BY <1>6 DEF vars, OwnedInv, Types
  <2> QED
    BY <2>1, QuietKeeps
<1> QED
  BY <1>1, <1>2, <1>3, <1>4, <1>5, <1>6 DEF Next

\* Whatever is captured is raised again once its hold-tap is decided: between two
\* events nothing is left in captured_events unless a hold-tap is undecided, on any
\* keyboard, with any settings and edits, and whatever overflowed before.
THEOREM NothingStaysCaptured == Spec => []CapturedHasOwner
<1>1. Init => OwnedInv
  BY InitCalls DEF CallsInv
<1>2. OwnedInv /\ [Next]_vars => OwnedInv'
  BY StepKeeps
<1>3. OwnedInv => CapturedHasOwner
  <2> SUFFICES ASSUME OwnedInv, Idle, undecided = None, NEW j \in Place, captured[j] # Free PROVE FALSE
    BY DEF CapturedHasOwner
  <2>1. DOMAIN agenda = {} /\ j \in DOMAIN captured
    BY DEF Idle, OwnedInv, Types
  <2> QED
    BY <2>1 DEF OwnedInv, Owned
<1> QED
  BY <1>1, <1>2, <1>3, PTL DEF Spec

\* An event raised again is read in place until the keymap has it; on a calm keyboard
\* nothing is captured over it, however deep the calls it starts are nested.
THEOREM NothingIsOverwritten ==
  ASSUME Calm
  PROVE  Spec => []CapturedIntact
<1>1. Init => CallsInv
  BY InitCalls
<1>2. CallsInv /\ [Next]_vars => CallsInv'
  BY StepKeeps DEF CallsInv
<1>3. CallsInv => RaisedEventIntact
  <2> SUFFICES ASSUME CallsInv, NEW n \in DOMAIN agenda, agenda[n].do \in {"pos", "after", "keymap"},
                      agenda[n].from # None
               PROVE  captured[agenda[n].from] = Free
    BY DEF RaisedEventIntact
  <2>1. Handles(agenda[n])
    BY DEF Handles
  <2> QED
    BY <2>1 DEF CallsInv, Calls, Clears, Clear
<1>4. Spec => []RaisedEventIntact
  BY <1>1, <1>2, <1>3, PTL DEF Spec
<1>5. Spec => []CapturedHasOwner
  BY NothingStaysCaptured
<1> QED
  BY <1>4, <1>5, PTL DEF CapturedIntact

-----------------------------------------------------------------------------
(* The line of events.  An event counts unless some hold-tap ignores its    *)
(* key; "ks" stands for the keys of the active hold-taps.                   *)

Event(x) == x.do \in {"pos", "after", "keymap"}
Counts(x) == Event(x) /\ x.pos \notin Ignored
Closes(x) == x.do \in {"keyUp", "released"}
Keys(tp) == [i \in DOMAIN tp |-> tp[i].pos]

\* Presses come in the order of their numbers, and so do the events of one key, the
\* release after the press it follows.
Sooner(x, y) ==
    /\ x.down /\ y.down => x.n < y.n
    /\ x.pos = y.pos => x.n < y.n \/ (x.n = y.n /\ x.down /\ ~y.down)

\* Until the keymap has them events come in the order of their times; after that still
\* two presses do, and two events of one key.
InTime(x, y) ==
    \/ x.do # "keymap"
    \/ Counts(x) /\ Counts(y) /\ (x.pos = y.pos \/ (x.down /\ y.down))
    => x.at <= y.at

\* What x may have behind it: sooner events, no end of a hold-tap whose key it moves,
\* and no hold-tap ends twice.
Line(x, y, ks) ==
    /\ Counts(x) /\ Counts(y) => Sooner(x, y)
    /\ Event(x) /\ Event(y) => InTime(x, y)
    /\ Counts(x) /\ Closes(y) => x.pos # ks[y.i]
    /\ Closes(x) /\ Closes(y) => x.i # y.i

\* The line is that of the calls and that of the places; what a release_captured_events
\* will raise comes before the calls behind it, and what an undecided hold-tap has
\* captured before any event that has yet to pass the listener.
InLine(ag, cap, on, ks) ==
    /\ \A m, n \in DOMAIN ag : m < n => Line(ag[m], ag[n], ks)
    /\ \A i, j \in DOMAIN cap : i < j => Line(cap[i], cap[j], ks)
    /\ \A m \in DOMAIN ag, j \in DOMAIN cap : Covers(ag[m], cap, j) =>
          \A k \in DOMAIN ag : (k < m => Line(ag[k], cap[j], ks)) /\ (m < k => Line(cap[j], ag[k], ks))
    /\ on => \A j \in DOMAIN cap, k \in DOMAIN ag :
                Taken(cap, 1, j) /\ ag[k].do # "keymap" => Line(cap[j], ag[k], ks)

\* No event of key p was captured by the undecided hold-tap.
NoneOf(p, cap) == \A j \in DOMAIN cap : Taken(cap, 1, j) /\ Counts(cap[j]) => cap[j].pos # p

\* While a hold-tap is undecided the keymap sees no press, and no release of a key that
\* was captured.
KeymapClear(ag, cap, on) ==
    on => \A k \in DOMAIN ag :
             ag[k].do = "keymap" /\ Counts(ag[k]) => ~ag[k].down /\ NoneOf(ag[k].pos, cap)

\* Hold-tap i of some of the calls.
Has(ag, dos, i) == \E k \in DOMAIN ag : ag[k].do \in dos /\ ag[k].i = i
Ends(ag, i) == \E k \in DOMAIN ag : Closes(ag[k]) /\ ag[k].i = i

\* Each key has one hold-tap at most, and what ends is active.
TapsIn(tp, ag) ==
    /\ \A i \in Slot : tp[i].pos \in HoldTaps \cup {NoKey}
    /\ \A i, j \in Slot : tp[i].pos = tp[j].pos /\ tp[i].pos # NoKey => i = j
    /\ \A i \in Slot : Ends(ag, i) => tp[i].pos # NoKey

\* What the undecided hold-tap has captured are other keys' events, and its timer or its
\* release will decide it.
Awaited(tp, u, ag, cap) ==
    u # None =>
        /\ tp[u].pos # NoKey /\ tp[u].status = "undecided"
        /\ NoneOf(tp[u].pos, cap)
        /\ tp[u].timer # Off \/ Has(ag, {"keyUp", "pressed"}, u)
        /\ ~Has(ag, {"released"}, u)

\* The events under way, and the keys with a hold-tap that is not ending.
Rec(x) == [pos |-> x.pos, n |-> x.n, down |-> x.down]
Events(ag, cap) ==
    {Rec(ag[k]) : k \in {m \in DOMAIN ag : Counts(ag[m])}}
        \cup {Rec(cap[j]) : j \in {m \in DOMAIN cap : Counts(cap[m])}}
ActiveKeys(ag, ks) == {ks[i] : i \in {m \in DOMAIN ks : ks[m] # NoKey /\ ~Ends(ag, m)}}

\* The presses and releases of a key under way alternate, and the last of them is how the
\* key is now.
Alternate(E, hl) ==
    /\ \A x, y \in E : x.pos = y.pos /\ x.down /\ y.down /\ x.n < y.n =>
          \E z \in E : z.pos = x.pos /\ ~z.down /\ x.n <= z.n /\ z.n < y.n
    /\ \A x, y \in E : x.pos = y.pos /\ ~x.down /\ ~y.down /\ x.n < y.n =>
          \E z \in E : z.pos = x.pos /\ z.down /\ x.n < z.n /\ z.n <= y.n
    /\ \A x \in E : x.down /\ x.pos \notin hl => \E z \in E : z.pos = x.pos /\ ~z.down /\ x.n <= z.n
    /\ \A x \in E : ~x.down /\ x.pos \in hl => \E z \in E : z.pos = x.pos /\ z.down /\ x.n < z.n

\* The key of an active hold-tap is down, or its release is under way before any press.
Follows(E, hl, p) ==
    /\ \A x \in E : x.pos = p /\ x.down => \E z \in E : z.pos = p /\ ~z.down /\ z.n < x.n
    /\ p \notin hl => \E z \in E : z.pos = p /\ ~z.down

Fresh(E, last, done) ==
    /\ last \in Nat /\ done \in Nat /\ done <= last
    /\ \A x \in E : x.n \in Nat /\ x.n <= last /\ (x.down => x.n > done)

EventsInv(E, hl, last, done, act) ==
    /\ Alternate(E, hl) /\ Fresh(E, last, done)
    /\ \A p \in act : Follows(E, hl, p)

Going(ag, cap, on, ks, hl, last, done) ==
    /\ InLine(ag, cap, on, ks)
    /\ KeymapClear(ag, cap, on)
    /\ EventsInv(Events(ag, cap), hl, last, done, ActiveKeys(ag, ks))

LineInv ==
    /\ Going(agenda, captured, undecided # None, Keys(taps), held, serial, seen)
    /\ TapsIn(taps, agenda) /\ Awaited(taps, undecided, agenda, captured)

\* Every flavor is one of the four, and no hold-tap ignores the key of another.
Plain ==
    \A b \in Builds :
        /\ \A p \in DOMAIN b.config :
              /\ b.timing[p].flavor \in ToSet(Flavor)
              /\ "flavor" \in DOMAIN b.edits[p] => b.edits[p]["flavor"] \subseteq ToSet(Flavor)
        /\ DOMAIN b.config \cap UNION {b.config[p].ignore : p \in DOMAIN b.config} = {}

\* No event is later than now.
Past ==
    /\ \A k \in DOMAIN agenda : Event(agenda[k]) => agenda[k].at <= now
    /\ \A j \in DOMAIN captured : Event(captured[j]) => captured[j].at <= now

SettingsInv ==
    /\ now \in Nat
    /\ HoldTaps \cap Ignored = {}
    /\ DOMAIN timing = HoldTaps
    /\ \A p \in HoldTaps : /\ DOMAIN timing[p] = {"term", "quick", "idle", "flavor"}
                            /\ timing[p].flavor \in ToSet(Flavor)
                            /\ timing[p].term \in Int /\ timing[p].quick \in Int /\ timing[p].idle \in Int

\* A call before others, place by place.
LEMMA Before1 ==
  ASSUME NEW S, NEW x \in S, NEW t \in Seq(S)
  PROVE  /\ <<x>> \o t \in Seq(S) /\ <<x>> \o t # <<>>
         /\ 1 \in DOMAIN (<<x>> \o t) /\ (<<x>> \o t)[1] = x
         /\ \A n \in DOMAIN t : n + 1 \in DOMAIN (<<x>> \o t) /\ (<<x>> \o t)[n + 1] = t[n] /\ n \in Nat \ {0}
         /\ DOMAIN (<<x>> \o t) \subseteq Nat \ {0}
         /\ \A n \in DOMAIN (<<x>> \o t) :
               \/ n = 1
               \/ n - 1 \in DOMAIN t /\ (<<x>> \o t)[n] = t[n - 1] /\ n - 1 \in Nat \ {0}
<1>1. <<x>> \in Seq(S) /\ DOMAIN <<x>> = {1} /\ Len(<<x>>) = 1 /\ <<x>>[1] = x
  OBVIOUS
<1> DEFINE u == <<x>> \o t
<1>2. /\ u \in Seq(S)
      /\ DOMAIN u = 1 .. Len(<<x>>) + Len(t)
      /\ \A n \in DOMAIN <<x>> : n \in DOMAIN u /\ u[n] = <<x>>[n]
      /\ \A n \in DOMAIN t : Len(<<x>>) + n \in DOMAIN u /\ u[Len(<<x>>) + n] = t[n]
      /\ \A n \in DOMAIN u :
            \/ n \in DOMAIN <<x>> /\ u[n] = <<x>>[n]
            \/ n > Len(<<x>>) /\ n - Len(<<x>>) \in DOMAIN t /\ u[n] = t[n - Len(<<x>>)]
  BY <1>1, Joined
<1>3. DOMAIN t = 1 .. Len(t) /\ Len(t) \in Nat
  OBVIOUS
<1> HIDE DEF u
<1>4. 1 \in DOMAIN u /\ u[1] = x
  BY <1>1, <1>2
<1>5. ASSUME NEW n \in DOMAIN t PROVE n + 1 \in DOMAIN u /\ u[n + 1] = t[n] /\ n \in Nat \ {0}
  <2>1. n \in Nat \ {0} /\ Len(<<x>>) + n = n + 1
    BY <1>1, <1>3
  <2> QED
    BY <1>2, <2>1
<1>6. ASSUME NEW n \in DOMAIN u PROVE n = 1 \/ (n - 1 \in DOMAIN t /\ u[n] = t[n - 1] /\ n - 1 \in Nat \ {0})
  BY <1>1, <1>2, <1>3
<1>7. u # <<>> /\ DOMAIN u \subseteq Nat \ {0}
  BY <1>2, <1>4
<1> QED
  BY <1>2, <1>4, <1>5, <1>6, <1>7 DEF u

LEMMA InLineCons ==
  ASSUME NEW S, NEW x \in S, NEW t \in Seq(S), NEW cap, NEW on, NEW ks, InLine(t, cap, on, ks),
         \A n \in DOMAIN t : Line(x, t[n], ks),
         \A m \in DOMAIN t, j \in DOMAIN cap : Covers(t[m], cap, j) => Line(x, cap[j], ks),
         \A n \in DOMAIN t, j \in DOMAIN cap : Covers(x, cap, j) => Line(cap[j], t[n], ks),
         on /\ x.do # "keymap" => \A j \in DOMAIN cap : Taken(cap, 1, j) => Line(cap[j], x, ks)
  PROVE  InLine(<<x>> \o t, cap, on, ks)
<1> DEFINE u == <<x>> \o t
<1>1. /\ 1 \in DOMAIN u /\ u[1] = x /\ DOMAIN u \subseteq Nat \ {0}
      /\ \A n \in DOMAIN u : n = 1 \/ (n - 1 \in DOMAIN t /\ u[n] = t[n - 1] /\ n - 1 \in Nat \ {0})
  BY Before1
<1> HIDE DEF u
<1>2. ASSUME NEW m \in DOMAIN u, NEW n \in DOMAIN u, m < n PROVE Line(u[m], u[n], ks)
  <2>1. n # 1
    BY <1>1, <1>2
  <2>2. n - 1 \in DOMAIN t /\ u[n] = t[n - 1] /\ n - 1 \in Nat
    BY <1>1, <2>1
  <2>3. CASE m = 1
    BY <1>1, <2>2, <2>3
  <2>4. CASE m - 1 \in DOMAIN t /\ u[m] = t[m - 1] /\ m - 1 \in Nat
    <3>1. m - 1 < n - 1
      BY <1>2, <2>2, <2>4
    <3> QED
      BY <2>2, <2>4, <3>1 DEF InLine
  <2> QED
    BY <1>1, <2>3, <2>4
<1>3. \A i, j \in DOMAIN cap : i < j => Line(cap[i], cap[j], ks)
  BY DEF InLine
<1>4. ASSUME NEW m \in DOMAIN u, NEW j \in DOMAIN cap, Covers(u[m], cap, j), NEW k \in DOMAIN u
      PROVE  (k < m => Line(u[k], cap[j], ks)) /\ (m < k => Line(cap[j], u[k], ks))
  <2>1. CASE m = 1
    <3>1. ASSUME m < k PROVE k - 1 \in DOMAIN t /\ u[k] = t[k - 1]
      BY <1>1, <2>1, <3>1
    <3>2. ~(k < m)
      BY <1>1, <2>1
    <3> QED
      BY <1>1, <1>4, <2>1, <3>1, <3>2
  <2>2. CASE m - 1 \in DOMAIN t /\ u[m] = t[m - 1] /\ m - 1 \in Nat \ {0}
    <3>1. CASE k = 1
      BY <1>1, <1>4, <2>2, <3>1
    <3>2. CASE k - 1 \in DOMAIN t /\ u[k] = t[k - 1] /\ k - 1 \in Nat
      <4>1. (k < m => k - 1 < m - 1) /\ (m < k => m - 1 < k - 1)
        BY <2>2, <3>2
      <4> QED
        BY <1>4, <2>2, <3>2, <4>1 DEF InLine
    <3> QED
      BY <1>1, <3>1, <3>2
  <2> QED
    BY <1>1, <2>1, <2>2
<1>5. ASSUME on, NEW j \in DOMAIN cap, NEW k \in DOMAIN u, Taken(cap, 1, j), u[k].do # "keymap"
      PROVE  Line(cap[j], u[k], ks)
  BY <1>1, <1>5 DEF InLine
<1> QED
  BY <1>2, <1>3, <1>4, <1>5 DEF InLine, u

LEMMA InLineTail ==
  ASSUME NEW S, NEW s \in Seq(S), s # <<>>, NEW cap, NEW on, NEW ks, InLine(s, cap, on, ks)
  PROVE  /\ InLine(Tail(s), cap, on, ks)
         /\ \A n \in DOMAIN Tail(s) : Line(Head(s), Tail(s)[n], ks)
         /\ \A m \in DOMAIN Tail(s), j \in DOMAIN cap : Covers(Tail(s)[m], cap, j) => Line(Head(s), cap[j], ks)
         /\ \A n \in DOMAIN Tail(s), j \in DOMAIN cap : Covers(Head(s), cap, j) => Line(cap[j], Tail(s)[n], ks)
         /\ on /\ Head(s).do # "keymap" => \A j \in DOMAIN cap : Taken(cap, 1, j) => Line(cap[j], Head(s), ks)
<1> DEFINE t == Tail(s)
           x == Head(s)
<1>1. /\ 1 \in DOMAIN s /\ s[1] = x
      /\ \A n \in DOMAIN t : n + 1 \in DOMAIN s /\ t[n] = s[n + 1] /\ n \in Nat \ {0}
  BY Behind
<1> HIDE DEF t, x
<1>2. \A n \in DOMAIN t : 1 < n + 1
  BY <1>1
<1>3. \A m, n \in DOMAIN t : m < n => m + 1 < n + 1
  BY <1>1
<1>4. InLine(t, cap, on, ks)
  <2>1. \A m, n \in DOMAIN t : m < n => Line(t[m], t[n], ks)
    BY <1>1, <1>3 DEF InLine
  <2>2. ASSUME NEW m \in DOMAIN t, NEW j \in DOMAIN cap, Covers(t[m], cap, j), NEW k \in DOMAIN t
        PROVE  (k < m => Line(t[k], cap[j], ks)) /\ (m < k => Line(cap[j], t[k], ks))
    <3>1. Covers(s[m + 1], cap, j) /\ m + 1 \in DOMAIN s /\ k + 1 \in DOMAIN s /\ t[k] = s[k + 1]
      BY <1>1, <2>2
    <3> QED
      BY <1>3, <3>1 DEF InLine
  <2>3. ASSUME on, NEW j \in DOMAIN cap, NEW k \in DOMAIN t, Taken(cap, 1, j), t[k].do # "keymap"
        PROVE  Line(cap[j], t[k], ks)
    BY <1>1, <2>3 DEF InLine
  <2> QED
    BY <2>1, <2>2, <2>3 DEF InLine
<1>5. \A n \in DOMAIN t : Line(x, t[n], ks)
  BY <1>1, <1>2 DEF InLine
<1>6. \A m \in DOMAIN t, j \in DOMAIN cap : Covers(t[m], cap, j) => Line(x, cap[j], ks)
  BY <1>1, <1>2 DEF InLine
<1>7. \A n \in DOMAIN t, j \in DOMAIN cap : Covers(x, cap, j) => Line(cap[j], t[n], ks)
  BY <1>1, <1>2 DEF InLine
<1>8. on /\ x.do # "keymap" => \A j \in DOMAIN cap : Taken(cap, 1, j) => Line(cap[j], x, ks)
  BY <1>1 DEF InLine
<1> QED
  BY <1>4, <1>5, <1>6, <1>7, <1>8 DEF t, x

\* Keycodes before the calls change nothing.
Silent(x) == ~Event(x) /\ ~Closes(x) /\ x.do # "release"

LEMMA SilentLine ==
  ASSUME NEW x, Silent(x), NEW y, NEW ks
  PROVE  Line(x, y, ks) /\ Line(y, x, ks)
  BY DEF Silent, Line, Counts

LEMMA InLineSilent ==
  ASSUME NEW S, NEW x \in S, NEW t \in Seq(S), NEW cap, NEW on, NEW ks, InLine(t, cap, on, ks), Silent(x)
  PROVE  InLine(<<x>> \o t, cap, on, ks)
<1>1. \A j \in DOMAIN cap : ~Covers(x, cap, j)
  BY DEF Covers, Silent
<1> QED
  BY <1>1, SilentLine, InLineCons

LEMMA InLineCodes ==
  ASSUME NEW S, NEW cs \in Seq(S), NEW t \in Seq(S), NEW cap, NEW on, NEW ks, InLine(t, cap, on, ks),
         \A n \in DOMAIN cs : Silent(cs[n])
  PROVE  InLine(cs \o t, cap, on, ks)
<1> DEFINE u == cs \o t
<1>1. \A n \in DOMAIN u :
         \/ n \in DOMAIN cs /\ u[n] = cs[n]
         \/ n > Len(cs) /\ n - Len(cs) \in DOMAIN t /\ u[n] = t[n - Len(cs)]
  BY Joined
<1>2. DOMAIN u \subseteq Nat /\ Len(cs) \in Nat
  BY Joined
<1> HIDE DEF u
<1>3. \A n \in DOMAIN u : Silent(u[n]) \/ (n - Len(cs) \in DOMAIN t /\ u[n] = t[n - Len(cs)])
  BY <1>1
<1>4. \A n \in DOMAIN u : Silent(u[n]) => \A y : Line(u[n], y, ks) /\ Line(y, u[n], ks)
  BY SilentLine
<1>5. \A n \in DOMAIN u, j \in DOMAIN cap : Silent(u[n]) => ~Covers(u[n], cap, j)
  BY DEF Silent, Covers
<1>6. ASSUME NEW m \in DOMAIN u, NEW n \in DOMAIN u, m < n PROVE Line(u[m], u[n], ks)
  <2>1. m - Len(cs) < n - Len(cs)
    BY <1>2, <1>6
  <2> QED
    BY <1>3, <1>4, <2>1 DEF InLine
<1>7. ASSUME NEW m \in DOMAIN u, NEW j \in DOMAIN cap, Covers(u[m], cap, j), NEW k \in DOMAIN u
      PROVE  (k < m => Line(u[k], cap[j], ks)) /\ (m < k => Line(cap[j], u[k], ks))
  <2>1. m - Len(cs) \in DOMAIN t /\ u[m] = t[m - Len(cs)]
    BY <1>3, <1>5, <1>7
  <2>2. CASE Silent(u[k])
    BY <1>4, <2>2
  <2>3. CASE k - Len(cs) \in DOMAIN t /\ u[k] = t[k - Len(cs)]
    <3>1. (k < m => k - Len(cs) < m - Len(cs)) /\ (m < k => m - Len(cs) < k - Len(cs))
      BY <1>2
    <3> QED
      BY <1>7, <2>1, <2>3, <3>1 DEF InLine
  <2> QED
    BY <1>3, <2>2, <2>3
<1>8. ASSUME on, NEW j \in DOMAIN cap, NEW k \in DOMAIN u, Taken(cap, 1, j), u[k].do # "keymap"
      PROVE  Line(cap[j], u[k], ks)
  BY <1>3, <1>4, <1>8 DEF InLine
<1>9. \A i, j \in DOMAIN cap : i < j => Line(cap[i], cap[j], ks)
  BY DEF InLine
<1> QED
  BY <1>6, <1>7, <1>8, <1>9 DEF InLine, u

\* A decision: what was captured will be raised before the rest.
LEMMA InLineDecided ==
  ASSUME NEW S, NEW cs \in Seq(Call(S)), NEW t \in Seq(Call(S)), NEW cap, NEW ks, InLine(t, cap, TRUE, ks),
         DOMAIN cap \subseteq Nat \ {0},
         \A n \in DOMAIN cs : Silent(cs[n]), \A n \in DOMAIN t : t[n].do # "keymap"
  PROVE  InLine((cs \o <<Release(1)>>) \o t, cap, FALSE, ks)
<1> DEFINE r == Release(1)
           u == <<r>> \o t
<1>1. r \in Call(S) /\ r.do = "release" /\ r.i = 1 /\ ~Event(r) /\ ~Counts(r) /\ ~Closes(r)
  BY DEF Release, Call, Counts, Event, Closes
<1>2. InLine(t, cap, FALSE, ks)
  BY DEF InLine
<1> HIDE DEF r
<1>3. \A y : Line(r, y, ks)
  BY <1>1 DEF Line
<1>4. \A n \in DOMAIN t, j \in DOMAIN cap : Covers(r, cap, j) => Line(cap[j], t[n], ks)
  BY <1>1 DEF Covers, InLine
<1>5. InLine(u, cap, FALSE, ks)
  BY <1>1, <1>2, <1>3, <1>4, InLineCons
<1>6. u \in Seq(Call(S))
  BY <1>1, Before1
<1> HIDE DEF u
<1>7. InLine(cs \o u, cap, FALSE, ks)
  BY <1>5, <1>6, InLineCodes
<1>8. (cs \o <<r>>) \o t = cs \o u
  <2>1. <<r>> \in Seq(Call(S))
    BY <1>1
  <2> QED
    BY <2>1, ConcatAssociative DEF u
<1> QED
  BY <1>7, <1>8 DEF r

\* A place becomes free.
LEMMA TakenFreed ==
  ASSUME NEW cap, NEW i \in DOMAIN cap, NEW a, NEW b, Taken([cap EXCEPT ![i] = Free], a, b)
  PROVE  Taken(cap, a, b) /\ i \notin a .. b
  BY DEF Taken

LEMMA InLineFreed ==
  ASSUME NEW t, NEW cap, NEW on, NEW ks, InLine(t, cap, on, ks), NEW i \in DOMAIN cap
  PROVE  InLine(t, [cap EXCEPT ![i] = Free], on, ks)
<1> DEFINE cap2 == [cap EXCEPT ![i] = Free]
<1>1. DOMAIN cap2 = DOMAIN cap
  OBVIOUS
<1>2. \A j \in DOMAIN cap : cap2[j] = cap[j] \/ cap2[j] = Free
  OBVIOUS
<1>3. Silent(Free)
  BY DEF Free, Silent, Counts, Event, Closes
<1>4. \A a, b : Taken(cap2, a, b) => Taken(cap, a, b)
  BY TakenFreed
<1>5. \A c, j : Covers(c, cap2, j) => Covers(c, cap, j)
  BY <1>4 DEF Covers
<1> HIDE DEF cap2
<1>6. \A y : Line(Free, y, ks) /\ Line(y, Free, ks)
  BY <1>3, SilentLine
<1>7. \A i1, j \in DOMAIN cap2 : i1 < j => Line(cap2[i1], cap2[j], ks)
  <2> SUFFICES ASSUME NEW i1 \in DOMAIN cap2, NEW j \in DOMAIN cap2, i1 < j PROVE Line(cap2[i1], cap2[j], ks)
    OBVIOUS
  <2>1. Line(cap[i1], cap[j], ks)
    BY <1>1 DEF InLine
  <2> QED
    BY <1>1, <1>2, <1>6, <2>1
<1>8. ASSUME NEW m \in DOMAIN t, NEW j \in DOMAIN cap2, Covers(t[m], cap2, j), NEW k \in DOMAIN t
      PROVE  (k < m => Line(t[k], cap2[j], ks)) /\ (m < k => Line(cap2[j], t[k], ks))
  <2>1. (k < m => Line(t[k], cap[j], ks)) /\ (m < k => Line(cap[j], t[k], ks))
    BY <1>1, <1>5, <1>8 DEF InLine
  <2> QED
    BY <1>1, <1>2, <1>6, <2>1
<1>9. ASSUME on, NEW j \in DOMAIN cap2, NEW k \in DOMAIN t, Taken(cap2, 1, j), t[k].do # "keymap"
      PROVE  Line(cap2[j], t[k], ks)
  <2>1. Line(cap[j], t[k], ks)
    BY <1>1, <1>4, <1>9 DEF InLine
  <2> QED
    BY <1>1, <1>2, <1>6, <2>1
<1>10. \A m, n \in DOMAIN t : m < n => Line(t[m], t[n], ks)
  BY DEF InLine
<1> QED
  BY <1>7, <1>8, <1>9, <1>10 DEF InLine, cap2

\* The event e comes from place i, which is free now: release_captured_events goes on.
Alike(e, c) ==
    /\ Counts(e) => Counts(c) /\ e.pos = c.pos /\ e.n = c.n /\ e.down = c.down
    /\ Event(e) => Event(c) /\ e.at = c.at /\ (c.do = "keymap" => e.do = "keymap")
    /\ ~Closes(e) /\ ~Closes(c)

LEMMA AlikeLine ==
  ASSUME NEW e, NEW c, Alike(e, c), NEW y, NEW ks
  PROVE  /\ Line(c, y, ks) => Line(e, y, ks)
         /\ Line(y, c, ks) => Line(y, e, ks)
  BY DEF Alike, Line, Sooner, InTime

LEMMA InLineRaised ==
  ASSUME NEW S, NEW s \in Seq(Call(S)), s # <<>>, NEW cap, NEW on, NEW ks, InLine(s, cap, on, ks),
         DOMAIN cap \subseteq Nat \ {0},
         Head(s).do = "release", NEW i \in DOMAIN cap, i = Head(s).i, cap[i] # Free,
         \A n \in DOMAIN Tail(s) : Tail(s)[n].do = "release" => Tail(s)[n].i \in Nat /\ i < Tail(s)[n].i,
         NEW e \in Call(S), Alike(e, cap[i]), e.do # "release"
  PROVE  InLine(<<e, Release(i + 1)>> \o Tail(s), [cap EXCEPT ![i] = Free], on, ks)
<1> DEFINE t == Tail(s)
           r == Release(i + 1)
           cap2 == [cap EXCEPT ![i] = Free]
           u == <<r>> \o t
<1>1. t \in Seq(Call(S)) /\ i \in Nat \ {0}
  BY Behind
<1>2. r \in Call(S) /\ r.do = "release" /\ r.i = i + 1 /\ Line(r, r, ks) /\ \A y : Line(r, y, ks) /\ Line(y, r, ks)
  BY <1>1 DEF Release, Call, Counts, Event, Closes, Line
<1>3. /\ InLine(t, cap, on, ks)
      /\ \A n \in DOMAIN t, j \in DOMAIN cap : Covers(Head(s), cap, j) => Line(cap[j], t[n], ks)
  BY InLineTail
<1>4. InLine(t, cap2, on, ks)
  BY <1>3, InLineFreed
<1>5. DOMAIN cap2 = DOMAIN cap /\ \A j \in DOMAIN cap : cap2[j] = cap[j] \/ cap2[j] = Free
  OBVIOUS
<1>6. \A a, b : Taken(cap2, a, b) => Taken(cap, a, b) /\ i \notin a .. b
  BY TakenFreed
<1>7. \A n \in DOMAIN t : t[n].do = "release" => t[n].i \in Nat /\ i < t[n].i
  OBVIOUS
<1>8. \A y : Line(Free, y, ks) /\ Line(y, Free, ks)
  BY DEF Free, Line, Counts, Event, Closes
<1>9. \A j, k \in DOMAIN cap : j < k => Line(cap[j], cap[k], ks)
  BY DEF InLine
<1> HIDE DEF t, r, cap2
<1>10. ASSUME NEW j \in DOMAIN cap, Covers(r, cap2, j) PROVE i < j /\ Covers(Head(s), cap, j)
  <2>1. i + 1 <= j /\ Taken(cap2, i + 1, j)
    BY <1>2, <1>10 DEF Covers
  <2>2. Taken(cap, i + 1, j)
    BY <1>6, <2>1
  <2>3. Taken(cap, i, j)
    BY <1>1, <2>1, <2>2 DEF Taken
  <2> QED
    BY <1>1, <2>1, <2>3 DEF Covers
<1>11. InLine(u, cap2, on, ks)
  <2>1. \A n \in DOMAIN t, j \in DOMAIN cap2 : Covers(r, cap2, j) => Line(cap2[j], t[n], ks)
    BY <1>3, <1>5, <1>8, <1>10
  <2> QED
    BY <1>1, <1>2, <1>4, <2>1, InLineCons
<1>12. /\ u \in Seq(Call(S))
       /\ \A n \in DOMAIN u : u[n] = r \/ \E m \in DOMAIN t : u[n] = t[m]
  BY <1>1, <1>2, Before1
<1> HIDE DEF u
<1>13. InLine(<<e>> \o u, cap2, on, ks)
  <2>1. \A n \in DOMAIN u : Line(e, u[n], ks)
    <3>1. Covers(Head(s), cap, i)
      BY <1>1 DEF Covers, Taken
    <3>2. \A n \in DOMAIN t : Line(e, t[n], ks)
      BY <1>3, <3>1, AlikeLine
    <3> QED
      BY <1>2, <1>12, <3>2
  <2>2. ASSUME NEW j \in DOMAIN cap, i < j PROVE Line(e, cap2[j], ks)
    BY <1>5, <1>8, <1>9, <2>2, AlikeLine
  <2>3. ASSUME NEW m \in DOMAIN u, NEW j \in DOMAIN cap2, Covers(u[m], cap2, j)
        PROVE  Line(e, cap2[j], ks)
    <3>1. CASE u[m] = r
      BY <1>5, <1>10, <2>2, <2>3, <3>1
    <3>2. ASSUME NEW n \in DOMAIN t, u[m] = t[n] PROVE i < j
      <4>1. t[n].do = "release" /\ t[n].i <= j
        BY <2>3, <3>2 DEF Covers
      <4>2. j \in Nat /\ t[n].i \in Nat /\ i < t[n].i
        BY <1>5, <1>7, <4>1
      <4> QED
        BY <1>1, <4>1, <4>2
    <3> QED
      BY <1>5, <1>12, <2>2, <3>1, <3>2
  <2>4. ASSUME NEW j \in DOMAIN cap2, Taken(cap2, 1, j) PROVE Line(cap2[j], e, ks)
    <3>1. i \notin 1 .. j
      BY <1>6, <2>4
    <3>2. j < i
      BY <1>1, <1>5, <3>1
    <3> QED
      BY <1>5, <1>8, <1>9, <3>2, AlikeLine
  <2>5. \A j \in DOMAIN cap2 : ~Covers(e, cap2, j)
    BY DEF Covers
  <2> QED
    BY <1>11, <1>12, <2>1, <2>3, <2>4, <2>5, InLineCons
<1>14. <<e, r>> \o t = <<e>> \o u
  <2>1. <<e>> \in Seq(Call(S)) /\ <<r>> \in Seq(Call(S))
    BY <1>2
  <2>2. <<e, r>> = <<e>> \o <<r>>
    BY <1>2
  <2> QED
    BY <1>1, <2>1, <2>2, ConcatAssociative DEF u
<1> QED
  BY <1>13, <1>14 DEF r, t, cap2

\* An event is captured in the first free place.
FirstFree(f, cap) == f \in DOMAIN cap /\ cap[f] = Free /\ \A j \in DOMAIN cap : cap[j] = Free => f <= j
Roomy(t, cap, f) ==
    \A m \in DOMAIN t : t[m].do = "release" =>
        t[m].i \in Nat /\ \E g \in DOMAIN cap : f < g /\ g < t[m].i /\ cap[g] = Free

LEMMA PlacesTaken ==
  ASSUME NEW t, NEW cap, DOMAIN cap \subseteq Nat \ {0}, NEW f, FirstFree(f, cap), Roomy(t, cap, f),
         Owned(t, cap, TRUE), NEW e
  PROVE  /\ \A j \in DOMAIN cap : Taken([cap EXCEPT ![f] = e], 1, j) => j = f \/ Taken(cap, 1, j)
         /\ \A m \in DOMAIN t, j \in DOMAIN cap : Covers(t[m], [cap EXCEPT ![f] = e], j) => Covers(t[m], cap, j) /\ f < j
         /\ \A m \in DOMAIN t, j \in DOMAIN cap : Covers(t[m], cap, j) => f < j
         /\ \A j \in DOMAIN cap : j < f => Taken(cap, 1, j) /\ cap[j] # Free
         /\ \A j \in DOMAIN cap : f < j => cap[j] = Free \/ \E m \in DOMAIN t : Covers(t[m], cap, j)
<1> DEFINE cap2 == [cap EXCEPT ![f] = e]
<1>1. f \in DOMAIN cap /\ f \in Nat \ {0} /\ cap[f] = Free /\ \A j \in DOMAIN cap : cap[j] = Free => f <= j
  BY DEF FirstFree
<1>2. DOMAIN cap2 = DOMAIN cap /\ \A j \in DOMAIN cap : j # f => cap2[j] = cap[j]
  OBVIOUS
<1> HIDE DEF cap2
<1>3. ASSUME NEW j \in DOMAIN cap, f <= j PROVE ~Taken(cap, 1, j)
  BY <1>1, <1>3 DEF Taken
<1>4. ASSUME NEW j \in DOMAIN cap, f < j, cap[j] # Free PROVE \E m \in DOMAIN t : Covers(t[m], cap, j)
  BY <1>1, <1>3, <1>4 DEF Owned
<1>5. ASSUME NEW m \in DOMAIN t, NEW j \in DOMAIN cap, t[m].do = "release", t[m].i <= j
      PROVE  t[m].i \in Nat /\ f < t[m].i /\ f < j /\ \E g \in DOMAIN cap : f < g /\ g < j /\ cap[g] = Free
  <2>1. PICK g \in DOMAIN cap : t[m].i \in Nat /\ f < g /\ g < t[m].i /\ cap[g] = Free
    BY <1>5 DEF Roomy
  <2> QED
    BY <1>1, <1>5, <2>1
<1>6. ASSUME NEW j \in DOMAIN cap, Taken(cap2, 1, j) PROVE j = f \/ Taken(cap, 1, j)
  <2>1. CASE j < f
    BY <1>1, <1>2, <1>6, <2>1 DEF Taken
  <2>2. CASE f < j
    <3>1. cap2[j] # Free
      BY <1>2, <1>6, <2>2 DEF Taken
    <3>2. PICK m \in DOMAIN t : Covers(t[m], cap, j)
      BY <1>1, <1>2, <1>4, <2>2, <3>1
    <3>3. PICK g \in DOMAIN cap : f < g /\ g < j /\ cap[g] = Free
      BY <1>5, <3>2 DEF Covers
    <3>4. cap2[g] = Free /\ g \in 1 .. j
      BY <1>1, <1>2, <3>3
    <3> QED
      BY <1>2, <1>6, <3>4 DEF Taken
  <2> QED
    BY <1>1, <2>1, <2>2
<1>7. ASSUME NEW m \in DOMAIN t, NEW j \in DOMAIN cap, Covers(t[m], cap2, j) PROVE Covers(t[m], cap, j) /\ f < j
  <2>1. t[m].do = "release" /\ t[m].i <= j /\ Taken(cap2, t[m].i, j)
    BY <1>7 DEF Covers
  <2>2. t[m].i \in Nat /\ f < t[m].i /\ f < j
    BY <1>5, <2>1
  <2>3. Taken(cap, t[m].i, j)
    BY <1>1, <1>2, <2>1, <2>2 DEF Taken
  <2> QED
    BY <2>1, <2>2, <2>3 DEF Covers
<1>8. \A m \in DOMAIN t, j \in DOMAIN cap : Covers(t[m], cap, j) => f < j
  BY <1>5 DEF Covers
<1>9. ASSUME NEW j \in DOMAIN cap, j < f PROVE Taken(cap, 1, j) /\ cap[j] # Free
  BY <1>1, <1>9 DEF Taken
<1> QED
  BY <1>4, <1>6, <1>7, <1>8, <1>9 DEF cap2

LEMMA InLineCaptured ==
  ASSUME NEW t, NEW cap, NEW ks, InLine(t, cap, TRUE, ks),
         DOMAIN cap \subseteq Nat \ {0}, NEW f, FirstFree(f, cap), Roomy(t, cap, f), Owned(t, cap, TRUE), NEW e,
         \A n \in DOMAIN t : Line(e, t[n], ks),
         \A m \in DOMAIN t, j \in DOMAIN cap : Covers(t[m], cap, j) => Line(e, cap[j], ks),
         \A j \in DOMAIN cap : Taken(cap, 1, j) => Line(cap[j], e, ks)
  PROVE  InLine(t, [cap EXCEPT ![f] = e], TRUE, ks)
<1> DEFINE cap2 == [cap EXCEPT ![f] = e]
<1>1. f \in DOMAIN cap /\ f \in Nat \ {0}
  BY DEF FirstFree
<1>2. DOMAIN cap2 = DOMAIN cap /\ cap2[f] = e /\ \A j \in DOMAIN cap : j # f => cap2[j] = cap[j]
  BY <1>1
<1>3. /\ \A j \in DOMAIN cap : Taken(cap2, 1, j) => j = f \/ Taken(cap, 1, j)
      /\ \A m \in DOMAIN t, j \in DOMAIN cap : Covers(t[m], cap2, j) => Covers(t[m], cap, j) /\ f < j
      /\ \A j \in DOMAIN cap : j < f => Taken(cap, 1, j) /\ cap[j] # Free
      /\ \A j \in DOMAIN cap : f < j => cap[j] = Free \/ \E m \in DOMAIN t : Covers(t[m], cap, j)
  BY PlacesTaken
<1> HIDE DEF cap2
<1>4. \A y : Line(Free, y, ks) /\ Line(y, Free, ks)
  BY DEF Free, Line, Counts, Event, Closes
<1>5. ASSUME NEW i \in DOMAIN cap2, NEW j \in DOMAIN cap2, i < j PROVE Line(cap2[i], cap2[j], ks)
  <2>1. CASE i = f
    BY <1>1, <1>2, <1>3, <1>4, <1>5, <2>1
  <2>2. CASE j = f
    BY <1>1, <1>2, <1>3, <1>5, <2>2
  <2>3. CASE i # f /\ j # f
    BY <1>2, <1>5, <2>3 DEF InLine
  <2> QED
    BY <2>1, <2>2, <2>3
<1>6. ASSUME NEW m \in DOMAIN t, NEW j \in DOMAIN cap2, Covers(t[m], cap2, j), NEW k \in DOMAIN t
      PROVE  (k < m => Line(t[k], cap2[j], ks)) /\ (m < k => Line(cap2[j], t[k], ks))
  <2>1. Covers(t[m], cap, j) /\ f < j
    BY <1>2, <1>3, <1>6
  <2>2. cap2[j] = cap[j]
    BY <1>1, <1>2, <2>1
  <2> QED
    BY <1>2, <2>1, <2>2 DEF InLine
<1>7. ASSUME NEW j \in DOMAIN cap2, NEW k \in DOMAIN t, Taken(cap2, 1, j), t[k].do # "keymap"
      PROVE  Line(cap2[j], t[k], ks)
  <2>1. CASE j = f
    BY <1>2, <2>1
  <2>2. CASE j # f
    BY <1>2, <1>3, <1>7, <2>2 DEF InLine
  <2> QED
    BY <2>1, <2>2
<1>8. \A m, n \in DOMAIN t : m < n => Line(t[m], t[n], ks)
  BY DEF InLine
<1> QED
  BY <1>5, <1>6, <1>7, <1>8 DEF InLine, cap2

\* A hold-tap becomes undecided while nothing is captured that would be its own.
LEMMA InLineOn ==
  ASSUME NEW t, NEW cap, NEW on, NEW ks, InLine(t, cap, on, ks), \A j \in DOMAIN cap : ~Taken(cap, 1, j)
  PROVE  InLine(t, cap, TRUE, ks)
  BY DEF InLine

\* Only the keys of the hold-taps that are ending matter.
LEMMA InLineKeys ==
  ASSUME NEW t, NEW cap, NEW on, NEW ks, InLine(t, cap, on, ks), NEW ks2,
         \A n \in DOMAIN t : Closes(t[n]) => ks2[t[n].i] = ks[t[n].i],
         \A j \in DOMAIN cap : ~Closes(cap[j])
  PROVE  InLine(t, cap, on, ks2)
<1>1. \A n \in DOMAIN t : \A x : Line(x, t[n], ks) => Line(x, t[n], ks2)
  BY DEF Line
<1>2. \A j \in DOMAIN cap : \A x : Line(x, cap[j], ks) => Line(x, cap[j], ks2)
  BY DEF Line
<1> QED
  BY <1>1, <1>2 DEF InLine

-----------------------------------------------------------------------------
(* The events under way and the hold-taps that are ending. *)

LEMMA EventsAre ==
  ASSUME NEW ag, NEW cap, NEW z
  PROVE  z \in Events(ag, cap) <=> \/ \E k \in DOMAIN ag : Counts(ag[k]) /\ z = Rec(ag[k])
                                   \/ \E j \in DOMAIN cap : Counts(cap[j]) /\ z = Rec(cap[j])
  BY DEF Events

LEMMA ActiveAre ==
  ASSUME NEW ag, NEW ks, NEW p
  PROVE  p \in ActiveKeys(ag, ks) <=> \E i \in DOMAIN ks : ks[i] = p /\ ks[i] # NoKey /\ ~Ends(ag, i)
  BY DEF ActiveKeys

\* One call before others.
LEMMA ConsHas ==
  ASSUME NEW S, NEW x \in S, NEW t \in Seq(S), NEW cap
  PROVE  /\ Events(<<x>> \o t, cap) = Events(t, cap) \cup (IF Counts(x) THEN {Rec(x)} ELSE {})
         /\ \A i : Ends(<<x>> \o t, i) <=> (Closes(x) /\ x.i = i) \/ Ends(t, i)
<1> DEFINE u == <<x>> \o t
<1>1. /\ 1 \in DOMAIN u /\ u[1] = x
      /\ \A n \in DOMAIN t : n + 1 \in DOMAIN u /\ u[n + 1] = t[n]
      /\ \A n \in DOMAIN u : n = 1 \/ (n - 1 \in DOMAIN t /\ u[n] = t[n - 1])
  BY Before1
<1> HIDE DEF u
<1>3. ASSUME NEW z PROVE z \in Events(u, cap) <=> z \in Events(t, cap) \cup (IF Counts(x) THEN {Rec(x)} ELSE {})
  <2>1. (\E k \in DOMAIN u : Counts(u[k]) /\ z = Rec(u[k])) <=>
           (Counts(x) /\ z = Rec(x)) \/ \E k \in DOMAIN t : Counts(t[k]) /\ z = Rec(t[k])
    BY <1>1
  <2> QED
    BY <2>1, EventsAre
<1>4. \A i : Ends(u, i) <=> (Closes(x) /\ x.i = i) \/ Ends(t, i)
  BY <1>1 DEF Ends
<1> QED
  BY <1>3, <1>4 DEF u

\* The first call and those behind it.
LEMMA HeadHas ==
  ASSUME NEW S, NEW s \in Seq(S), s # <<>>, NEW cap
  PROVE  /\ Events(s, cap) = Events(Tail(s), cap) \cup (IF Counts(Head(s)) THEN {Rec(Head(s))} ELSE {})
         /\ \A i : Ends(s, i) <=> (Closes(Head(s)) /\ Head(s).i = i) \/ Ends(Tail(s), i)
<1> DEFINE x == Head(s)
           t == Tail(s)
<1>1. s = <<x>> \o t
  OBVIOUS
<1>2. x \in S /\ t \in Seq(S)
  BY Behind
<1> HIDE DEF x, t
<1>3. /\ Events(<<x>> \o t, cap) = Events(t, cap) \cup (IF Counts(x) THEN {Rec(x)} ELSE {})
      /\ \A i : Ends(<<x>> \o t, i) <=> (Closes(x) /\ x.i = i) \/ Ends(t, i)
  BY <1>2, ConsHas
<1> QED
  BY <1>1, <1>3 DEF x, t

\* Keycodes before others.
LEMMA CodesHave ==
  ASSUME NEW S, NEW cs \in Seq(S), NEW t \in Seq(S), NEW cap, \A n \in DOMAIN cs : Silent(cs[n])
  PROVE  /\ Events(cs \o t, cap) = Events(t, cap)
         /\ \A i : Ends(cs \o t, i) <=> Ends(t, i)
         /\ \A n \in DOMAIN (cs \o t) : Silent((cs \o t)[n]) \/ \E m \in DOMAIN t : (cs \o t)[n] = t[m]
<1> DEFINE u == cs \o t
<1>1. /\ \A n \in DOMAIN t : Len(cs) + n \in DOMAIN u /\ u[Len(cs) + n] = t[n]
      /\ \A n \in DOMAIN u :
            \/ n \in DOMAIN cs /\ u[n] = cs[n]
            \/ n > Len(cs) /\ n - Len(cs) \in DOMAIN t /\ u[n] = t[n - Len(cs)]
  BY Joined
<1> HIDE DEF u
<1>2. \A n \in DOMAIN u : Silent(u[n]) \/ \E m \in DOMAIN t : u[n] = t[m]
  BY <1>1
<1>3. \A n \in DOMAIN t : \E m \in DOMAIN u : u[m] = t[n]
  BY <1>1
<1>4. ASSUME NEW z PROVE z \in Events(u, cap) <=> z \in Events(t, cap)
  <2>1. (\E k \in DOMAIN u : Counts(u[k]) /\ z = Rec(u[k])) <=> \E k \in DOMAIN t : Counts(t[k]) /\ z = Rec(t[k])
    BY <1>2, <1>3 DEF Silent, Counts
  <2> QED
    BY <2>1, EventsAre
<1>5. \A i : Ends(u, i) <=> Ends(t, i)
  BY <1>2, <1>3 DEF Ends, Silent
<1> QED
  BY <1>2, <1>4, <1>5 DEF u

\* An event in a place that was free.
LEMMA PlaceHas ==
  ASSUME NEW ag, NEW cap, NEW f \in DOMAIN cap, cap[f] = Free, NEW e
  PROVE  Events(ag, [cap EXCEPT ![f] = e]) = Events(ag, cap) \cup (IF Counts(e) THEN {Rec(e)} ELSE {})
<1> DEFINE cap2 == [cap EXCEPT ![f] = e]
<1>1. DOMAIN cap2 = DOMAIN cap /\ cap2[f] = e /\ \A j \in DOMAIN cap : j # f => cap2[j] = cap[j]
  OBVIOUS
<1>2. ~Counts(Free)
  BY DEF Counts, Event, Free
<1> HIDE DEF cap2
<1>3. ASSUME NEW z PROVE z \in Events(ag, cap2) <=> z \in Events(ag, cap) \cup (IF Counts(e) THEN {Rec(e)} ELSE {})
  <2>1. (\E j \in DOMAIN cap2 : Counts(cap2[j]) /\ z = Rec(cap2[j])) <=>
           (Counts(e) /\ z = Rec(e)) \/ \E j \in DOMAIN cap : Counts(cap[j]) /\ z = Rec(cap[j])
    BY <1>1, <1>2
  <2> QED
    BY <2>1, EventsAre
<1> QED
  BY <1>3 DEF cap2

LEMMA PlaceLeft ==
  ASSUME NEW ag, NEW cap, NEW i \in DOMAIN cap
  PROVE  Events(ag, cap) = Events(ag, [cap EXCEPT ![i] = Free]) \cup (IF Counts(cap[i]) THEN {Rec(cap[i])} ELSE {})
<1> DEFINE cap2 == [cap EXCEPT ![i] = Free]
<1>1. DOMAIN cap2 = DOMAIN cap /\ cap2[i] = Free /\ \A j \in DOMAIN cap : j # i => cap2[j] = cap[j]
  OBVIOUS
<1>2. ~Counts(Free)
  BY DEF Counts, Event, Free
<1> HIDE DEF cap2
<1>3. ASSUME NEW z PROVE z \in Events(ag, cap) <=> z \in Events(ag, cap2) \cup (IF Counts(cap[i]) THEN {Rec(cap[i])} ELSE {})
  <2>1. (\E j \in DOMAIN cap : Counts(cap[j]) /\ z = Rec(cap[j])) <=>
           (Counts(cap[i]) /\ z = Rec(cap[i])) \/ \E j \in DOMAIN cap2 : Counts(cap2[j]) /\ z = Rec(cap2[j])
    BY <1>1, <1>2
  <2> QED
    BY <2>1, EventsAre
<1> QED
  BY <1>3 DEF cap2

\* Nothing under way comes before the event at the head, but what the undecided hold-tap
\* has captured.
LEMMA HeadFirst ==
  ASSUME NEW S, NEW s \in Seq(S), s # <<>>, NEW cap, NEW on, NEW ks, InLine(s, cap, on, ks), Owned(s, cap, on),
         Counts(Head(s)), NEW z \in Events(Tail(s), cap)
  PROVE  \/ Sooner(Head(s), z)
         \/ on /\ \E j \in DOMAIN cap : Taken(cap, 1, j) /\ Counts(cap[j]) /\ z = Rec(cap[j])
<1> DEFINE x == Head(s)
           t == Tail(s)
<1>1. /\ \A n \in DOMAIN t : Line(x, t[n], ks)
      /\ \A m \in DOMAIN t, j \in DOMAIN cap : Covers(t[m], cap, j) => Line(x, cap[j], ks)
  BY InLineTail
<1>2. /\ s[1] = x
      /\ \A n \in DOMAIN s : n = 1 \/ (n - 1 \in DOMAIN t /\ s[n] = t[n - 1])
  BY Behind
<1>3. ~(x.do = "release")
  BY DEF Counts, Event
<1> HIDE DEF x, t
<1>4. \A y : Sooner(x, Rec(y)) <=> Sooner(x, y)
  BY DEF Sooner, Rec
<1>5. Counts(x)
  BY DEF x
<1>6. ASSUME NEW k \in DOMAIN t, Counts(t[k]), z = Rec(t[k]) PROVE Sooner(x, z)
  BY <1>1, <1>4, <1>5, <1>6 DEF Line
<1>7. ASSUME NEW j \in DOMAIN cap, Counts(cap[j]), z = Rec(cap[j]), ~(on /\ Taken(cap, 1, j)) PROVE Sooner(x, z)
  <2>1. cap[j] # Free
    BY <1>7 DEF Counts, Event, Free
  <2>2. PICK n \in DOMAIN s : Covers(s[n], cap, j)
    BY <1>7, <2>1 DEF Owned
  <2>3. n # 1
    BY <1>2, <1>3, <2>2 DEF Covers
  <2>4. n - 1 \in DOMAIN t /\ s[n] = t[n - 1]
    BY <1>2, <2>3
  <2>5. Line(x, cap[j], ks)
    BY <1>1, <2>2, <2>4
  <2> QED
    BY <1>4, <1>5, <1>7, <2>5 DEF Line
<1>8. z \in Events(t, cap)
  BY DEF t
<1> QED
  BY <1>6, <1>7, <1>8, EventsAre DEF x

-----------------------------------------------------------------------------
(* The presses and releases of a key. *)

\* The first press of all goes: its key may have an active hold-tap then.
LEMMA PressGoes ==
  ASSUME NEW E, NEW F, NEW r, E = F \cup {r}, NEW hl, NEW last, NEW done, NEW act, EventsInv(E, hl, last, done, act),
         r.down, \A z \in F : Sooner(r, z)
  PROVE  EventsInv(F, hl, last, r.n, act \cup {r.pos})
<1>1. /\ Alternate(E, hl) /\ Fresh(E, last, done) /\ \A p \in act : Follows(E, hl, p)
      /\ \A x \in E : x.n \in Nat /\ r.n \in Nat
  BY DEF EventsInv, Fresh
<1>2. \A z \in F : (z.down => r.n < z.n) /\ (z.pos = r.pos => r.n < z.n \/ (r.n = z.n /\ ~z.down))
  BY DEF Sooner
<1>3. Alternate(F, hl)
  <2>1. ASSUME NEW x \in F, NEW y \in F, x.pos = y.pos, x.down, y.down, x.n < y.n
        PROVE  \E z \in F : z.pos = x.pos /\ ~z.down /\ x.n <= z.n /\ z.n < y.n
    BY <1>1, <2>1 DEF Alternate
  <2>2. ASSUME NEW x \in F, NEW y \in F, x.pos = y.pos, ~x.down, ~y.down, x.n < y.n
        PROVE  \E z \in F : z.pos = x.pos /\ z.down /\ x.n < z.n /\ z.n <= y.n
    <3>1. PICK z \in E : z.pos = x.pos /\ z.down /\ x.n < z.n /\ z.n <= y.n
      BY <1>1, <2>2 DEF Alternate
    <3>2. z # r
      BY <1>1, <1>2, <3>1
    <3> QED
      BY <3>1, <3>2
  <2>3. ASSUME NEW x \in F, x.down, x.pos \notin hl PROVE \E z \in F : z.pos = x.pos /\ ~z.down /\ x.n <= z.n
    BY <1>1, <2>3 DEF Alternate
  <2>4. ASSUME NEW x \in F, ~x.down, x.pos \in hl PROVE \E z \in F : z.pos = x.pos /\ z.down /\ x.n < z.n
    <3>1. PICK z \in E : z.pos = x.pos /\ z.down /\ x.n < z.n
      BY <1>1, <2>4 DEF Alternate
    <3>2. z # r
      BY <1>1, <1>2, <3>1
    <3> QED
      BY <3>1, <3>2
  <2> QED
    BY <2>1, <2>2, <2>3, <2>4 DEF Alternate
<1>4. Fresh(F, last, r.n)
  BY <1>1, <1>2 DEF Fresh
<1>5. ASSUME NEW p \in act PROVE Follows(F, hl, p)
  BY <1>1 DEF Follows
<1>6. Follows(F, hl, r.pos)
  <2>1. ASSUME NEW x \in F, x.pos = r.pos, x.down PROVE \E z \in F : z.pos = r.pos /\ ~z.down /\ z.n < x.n
    <3>1. PICK z \in E : z.pos = r.pos /\ ~z.down /\ r.n <= z.n /\ z.n < x.n
      BY <1>1, <1>2, <2>1 DEF Alternate
    <3> QED
      BY <3>1
  <2>2. ASSUME r.pos \notin hl PROVE \E z \in F : z.pos = r.pos /\ ~z.down
    BY <1>1, <2>2 DEF Alternate
  <2> QED
    BY <2>1, <2>2 DEF Follows
<1> QED
  BY <1>3, <1>4, <1>5, <1>6 DEF EventsInv

\* The first event of a key goes, a release: its key has no active hold-tap then.
LEMMA ReleaseGoes ==
  ASSUME NEW E, NEW F, NEW r, E = F \cup {r}, NEW hl, NEW last, NEW done, NEW act, EventsInv(E, hl, last, done, act),
         ~r.down, \A z \in F : z.pos = r.pos => Sooner(r, z), NEW now2, now2 \subseteq act \ {r.pos}
  PROVE  EventsInv(F, hl, last, done, now2)
<1>1. /\ Alternate(E, hl) /\ Fresh(E, last, done) /\ \A p \in act : Follows(E, hl, p)
      /\ \A x \in E : x.n \in Nat /\ r.n \in Nat
  BY DEF EventsInv, Fresh
<1>2. \A z \in F : z.pos = r.pos => r.n < z.n
  BY DEF Sooner
<1>3. Alternate(F, hl)
  <2>1. ASSUME NEW x \in F, NEW y \in F, x.pos = y.pos, x.down, y.down, x.n < y.n
        PROVE  \E z \in F : z.pos = x.pos /\ ~z.down /\ x.n <= z.n /\ z.n < y.n
    <3>1. PICK z \in E : z.pos = x.pos /\ ~z.down /\ x.n <= z.n /\ z.n < y.n
      BY <1>1, <2>1 DEF Alternate
    <3>2. z # r
      BY <1>1, <1>2, <3>1
    <3> QED
      BY <3>1, <3>2
  <2>2. ASSUME NEW x \in F, NEW y \in F, x.pos = y.pos, ~x.down, ~y.down, x.n < y.n
        PROVE  \E z \in F : z.pos = x.pos /\ z.down /\ x.n < z.n /\ z.n <= y.n
    BY <1>1, <2>2 DEF Alternate
  <2>3. ASSUME NEW x \in F, x.down, x.pos \notin hl PROVE \E z \in F : z.pos = x.pos /\ ~z.down /\ x.n <= z.n
    <3>1. PICK z \in E : z.pos = x.pos /\ ~z.down /\ x.n <= z.n
      BY <1>1, <2>3 DEF Alternate
    <3>2. z # r
      BY <1>1, <1>2, <3>1
    <3> QED
      BY <3>1, <3>2
  <2>4. ASSUME NEW x \in F, ~x.down, x.pos \in hl PROVE \E z \in F : z.pos = x.pos /\ z.down /\ x.n < z.n
    BY <1>1, <2>4 DEF Alternate
  <2> QED
    BY <2>1, <2>2, <2>3, <2>4 DEF Alternate
<1>4. Fresh(F, last, done)
  BY <1>1 DEF Fresh
<1>5. ASSUME NEW p \in now2 PROVE Follows(F, hl, p)
  <2>1. p # r.pos /\ Follows(E, hl, p)
    BY <1>1
  <2> QED
    BY <2>1 DEF Follows
<1> QED
  BY <1>3, <1>4, <1>5 DEF EventsInv

\* A key goes down.
LEMMA DownComes ==
  ASSUME NEW E, NEW hl, NEW last, NEW done, NEW act, EventsInv(E, hl, last, done, act),
         NEW r, r.down, r.n = last + 1, r.pos \notin hl
  PROVE  EventsInv(E \cup {r}, hl \cup {r.pos}, last + 1, done, act)
<1> DEFINE F == E \cup {r}
           hd == hl \cup {r.pos}
<1>1. /\ Alternate(E, hl) /\ Fresh(E, last, done) /\ \A p \in act : Follows(E, hl, p)
      /\ \A x \in E : x.n \in Nat /\ x.n < r.n
      /\ r.n \in Nat
  BY DEF EventsInv, Fresh
<1>2. \A x \in F : x = r \/ x \in E
  OBVIOUS
<1>3. ASSUME NEW x \in F, NEW y \in F, x.pos = y.pos, x.down, y.down, x.n < y.n
      PROVE  \E z \in F : z.pos = x.pos /\ ~z.down /\ x.n <= z.n /\ z.n < y.n
  <2>1. x \in E
    BY <1>1, <1>3
  <2>2. CASE y \in E
    BY <1>1, <1>3, <2>1, <2>2 DEF Alternate
  <2>3. CASE y = r
    <3>1. PICK z \in E : z.pos = x.pos /\ ~z.down /\ x.n <= z.n
      BY <1>1, <1>3, <2>1, <2>3 DEF Alternate
    <3> QED
      BY <1>1, <2>3, <3>1
  <2> QED
    BY <2>2, <2>3
<1>4. ASSUME NEW x \in F, NEW y \in F, x.pos = y.pos, ~x.down, ~y.down, x.n < y.n
      PROVE  \E z \in F : z.pos = x.pos /\ z.down /\ x.n < z.n /\ z.n <= y.n
  BY <1>1, <1>4 DEF Alternate
<1>5. ASSUME NEW x \in F, x.down, x.pos \notin hd PROVE \E z \in F : z.pos = x.pos /\ ~z.down /\ x.n <= z.n
  BY <1>1, <1>5 DEF Alternate
<1>6. ASSUME NEW x \in F, ~x.down, x.pos \in hd PROVE \E z \in F : z.pos = x.pos /\ z.down /\ x.n < z.n
  <2>1. x \in E
    BY <1>6
  <2>2. CASE x.pos = r.pos
    BY <1>1, <2>1, <2>2
  <2>3. CASE x.pos # r.pos
    BY <1>1, <1>6, <2>1, <2>3 DEF Alternate
  <2> QED
    BY <2>2, <2>3
<1>7. Fresh(F, last + 1, done)
  BY <1>1 DEF Fresh
<1>8. ASSUME NEW p \in act PROVE Follows(F, hd, p)
  <2>1. Follows(E, hl, p)
    BY <1>1
  <2>2. ASSUME NEW x \in F, x.pos = p, x.down PROVE \E z \in F : z.pos = p /\ ~z.down /\ z.n < x.n
    <3>1. CASE x \in E
      BY <2>1, <2>2, <3>1 DEF Follows
    <3>2. CASE x = r
      <4>1. PICK z \in E : z.pos = p /\ ~z.down
        BY <2>1, <2>2, <3>2 DEF Follows
      <4> QED
        BY <1>1, <3>2, <4>1
    <3> QED
      BY <3>1, <3>2
  <2>3. p \notin hd => \E z \in F : z.pos = p /\ ~z.down
    BY <2>1 DEF Follows
  <2> QED
    BY <2>2, <2>3 DEF Follows
<1> QED
  BY <1>3, <1>4, <1>5, <1>6, <1>7, <1>8 DEF EventsInv, Alternate

\* A key comes up.
LEMMA UpComes ==
  ASSUME NEW E, NEW hl, NEW last, NEW done, NEW act, EventsInv(E, hl, last, done, act),
         NEW r, ~r.down, r.n = last, r.pos \in hl
  PROVE  /\ EventsInv(E \cup {r}, hl \ {r.pos}, last, done, act)
         /\ \A x \in E : x.pos = r.pos /\ ~x.down => x.n < r.n
<1> DEFINE F == E \cup {r}
           hu == hl \ {r.pos}
<1>1. /\ Alternate(E, hl) /\ Fresh(E, last, done) /\ \A p \in act : Follows(E, hl, p)
      /\ \A x \in E : x.n \in Nat /\ x.n <= r.n
      /\ r.n \in Nat
  BY DEF EventsInv, Fresh
<1>2. \A x \in E : x.pos = r.pos /\ ~x.down => \E z \in E : z.pos = x.pos /\ z.down /\ x.n < z.n
  BY <1>1 DEF Alternate
<1>3. ASSUME NEW x \in F, NEW y \in F, x.pos = y.pos, x.down, y.down, x.n < y.n
      PROVE  \E z \in F : z.pos = x.pos /\ ~z.down /\ x.n <= z.n /\ z.n < y.n
  BY <1>1, <1>3 DEF Alternate
<1>4. ASSUME NEW x \in F, NEW y \in F, x.pos = y.pos, ~x.down, ~y.down, x.n < y.n
      PROVE  \E z \in F : z.pos = x.pos /\ z.down /\ x.n < z.n /\ z.n <= y.n
  <2>1. x \in E
    BY <1>1, <1>4
  <2>2. CASE y \in E
    BY <1>1, <1>4, <2>1, <2>2 DEF Alternate
  <2>3. CASE y = r
    <3>1. PICK z \in E : z.pos = x.pos /\ z.down /\ x.n < z.n
      BY <1>2, <1>4, <2>1, <2>3
    <3> QED
      BY <1>1, <2>3, <3>1
  <2> QED
    BY <2>2, <2>3
<1>5. ASSUME NEW x \in F, x.down, x.pos \notin hu PROVE \E z \in F : z.pos = x.pos /\ ~z.down /\ x.n <= z.n
  <2>1. x \in E
    BY <1>5
  <2>2. CASE x.pos = r.pos
    BY <1>1, <2>1, <2>2
  <2>3. CASE x.pos # r.pos
    BY <1>1, <1>5, <2>1, <2>3 DEF Alternate
  <2> QED
    BY <2>2, <2>3
<1>6. ASSUME NEW x \in F, ~x.down, x.pos \in hu PROVE \E z \in F : z.pos = x.pos /\ z.down /\ x.n < z.n
  BY <1>1, <1>6 DEF Alternate
<1>7. Fresh(F, last, done)
  BY <1>1 DEF Fresh
<1>8. ASSUME NEW p \in act PROVE Follows(F, hu, p)
  BY <1>1 DEF Follows
<1>9. \A x \in E : x.pos = r.pos /\ ~x.down => x.n < r.n
  <2> SUFFICES ASSUME NEW x \in E, x.pos = r.pos, ~x.down PROVE x.n < r.n
    OBVIOUS
  <2>1. PICK z \in E : x.n < z.n
    BY <1>2
  <2> QED
    BY <1>1, <2>1
<1> QED
  BY <1>3, <1>4, <1>5, <1>6, <1>7, <1>8, <1>9 DEF EventsInv, Alternate

-----------------------------------------------------------------------------
(* What the calls do to the line of events. *)

LEMMA ActiveSame ==
  ASSUME NEW u, NEW t, \A i : Ends(u, i) <=> Ends(t, i), NEW ks
  PROVE  ActiveKeys(u, ks) = ActiveKeys(t, ks)
<1>1. \A p : p \in ActiveKeys(u, ks) <=> p \in ActiveKeys(t, ks)
  BY ActiveAre
<1> QED
  BY <1>1

\* Keycodes are sent.
LEMMA GoCodes ==
  ASSUME NEW S, NEW cs \in Seq(S), NEW t \in Seq(S), \A n \in DOMAIN cs : Silent(cs[n]),
         NEW cap, NEW on, NEW ks, NEW hl, NEW last, NEW done, Going(t, cap, on, ks, hl, last, done)
  PROVE  Going(cs \o t, cap, on, ks, hl, last, done)
<1> DEFINE u == cs \o t
<1>1. /\ Events(u, cap) = Events(t, cap) /\ \A i : Ends(u, i) <=> Ends(t, i)
      /\ \A n \in DOMAIN u : Silent(u[n]) \/ \E m \in DOMAIN t : u[n] = t[m]
  BY CodesHave
<1>2. InLine(u, cap, on, ks)
  BY InLineCodes DEF Going
<1> HIDE DEF u
<1>3. ActiveKeys(u, ks) = ActiveKeys(t, ks)
  BY <1>1, ActiveSame
<1>4. KeymapClear(u, cap, on)
  BY <1>1 DEF Going, KeymapClear, Silent, Counts
<1> QED
  BY <1>1, <1>2, <1>3, <1>4 DEF Going, u

\* A call that moves nothing returns.
LEMMA GoTail ==
  ASSUME NEW S, NEW s \in Seq(S), s # <<>>, ~Counts(Head(s)), ~Closes(Head(s)),
         NEW cap, NEW on, NEW ks, NEW hl, NEW last, NEW done, Going(s, cap, on, ks, hl, last, done)
  PROVE  Going(Tail(s), cap, on, ks, hl, last, done) /\ \A i : Ends(s, i) <=> Ends(Tail(s), i)
<1> DEFINE t == Tail(s)
<1>1. Events(s, cap) = Events(t, cap) /\ \A i : Ends(s, i) <=> Ends(t, i)
  BY HeadHas
<1>2. InLine(t, cap, on, ks)
  BY InLineTail DEF Going
<1>3. \A n \in DOMAIN t : n + 1 \in DOMAIN s /\ t[n] = s[n + 1]
  BY Behind
<1> HIDE DEF t
<1>4. ActiveKeys(s, ks) = ActiveKeys(t, ks)
  BY <1>1, ActiveSame
<1>5. KeymapClear(t, cap, on)
  BY <1>3 DEF Going, KeymapClear
<1> QED
  BY <1>1, <1>2, <1>4, <1>5 DEF Going, t

\* No event is about to reach the keymap.
NoKeymap(t) == \A n \in DOMAIN t : t[n].do # "keymap"

LEMMA NoneClear ==
  ASSUME NEW t, NoKeymap(t), NEW cap, NEW on
  PROVE  KeymapClear(t, cap, on)
  BY DEF NoKeymap, KeymapClear

\* A call that stands for another in the line.
Same(z, x) ==
    /\ Event(z) <=> Event(x)
    /\ Event(x) => z.at = x.at /\ (x.do = "keymap" => z.do = "keymap")
    /\ Counts(z) <=> Counts(x)
    /\ Counts(x) => z.pos = x.pos /\ z.n = x.n /\ z.down = x.down
    /\ Closes(z) <=> Closes(x)
    /\ Closes(x) => z.i = x.i
    /\ z.do # "release"

LEMMA SameLine ==
  ASSUME NEW z, NEW x, Same(z, x), NEW y, NEW ks
  PROVE  /\ Line(x, y, ks) => Line(z, y, ks)
         /\ Line(y, x, ks) => Line(y, z, ks)
  BY DEF Same, Line, Sooner, InTime

\* The event at the head goes on, to the keymap or to another part of a listener.
LEMMA GoOn ==
  ASSUME NEW S, NEW s \in Seq(S), s # <<>>, NEW z \in S, Same(z, Head(s)), NoKeymap(Tail(s)),
         NEW cap, NEW on, NEW ks, NEW hl, NEW last, NEW done, Going(s, cap, on, ks, hl, last, done),
         Head(s).do # "keymap", on /\ z.do = "keymap" /\ Counts(z) => ~z.down /\ NoneOf(z.pos, cap)
  PROVE  Going(<<z>> \o Tail(s), cap, on, ks, hl, last, done) /\ \A i : Ends(<<z>> \o Tail(s), i) <=> Ends(s, i)
<1> DEFINE t == Tail(s)
           x == Head(s)
           u == <<z>> \o t
<1>1. t \in Seq(S)
  BY Behind
<1>2. /\ Events(s, cap) = Events(t, cap) \cup (IF Counts(x) THEN {Rec(x)} ELSE {})
      /\ \A i : Ends(s, i) <=> (Closes(x) /\ x.i = i) \/ Ends(t, i)
  BY HeadHas
<1>3. /\ InLine(t, cap, on, ks)
      /\ \A n \in DOMAIN t : Line(x, t[n], ks)
      /\ \A m \in DOMAIN t, j \in DOMAIN cap : Covers(t[m], cap, j) => Line(x, cap[j], ks)
      /\ on => \A j \in DOMAIN cap : Taken(cap, 1, j) => Line(cap[j], x, ks)
  BY InLineTail DEF Going
<1>4. Same(z, x) /\ NoKeymap(t)
  OBVIOUS
<1>5. EventsInv(Events(s, cap), hl, last, done, ActiveKeys(s, ks))
  BY DEF Going
<1> HIDE DEF t, x
<1>6. /\ Events(u, cap) = Events(t, cap) \cup (IF Counts(z) THEN {Rec(z)} ELSE {})
      /\ \A i : Ends(u, i) <=> (Closes(z) /\ z.i = i) \/ Ends(t, i)
  BY <1>1, ConsHas
<1>7. \A n \in DOMAIN u : n = 1 \/ (n - 1 \in DOMAIN t /\ u[n] = t[n - 1])
  BY <1>1, Before1
<1>8. u[1] = z
  BY <1>1, Before1
<1>9. InLine(u, cap, on, ks)
  <2>1. \A j \in DOMAIN cap : ~Covers(z, cap, j)
    BY <1>4 DEF Same, Covers
  <2> HIDE DEF u
  <2>2. \A n \in DOMAIN t : Line(z, t[n], ks)
    BY <1>3, <1>4, SameLine
  <2>3. \A m \in DOMAIN t, j \in DOMAIN cap : Covers(t[m], cap, j) => Line(z, cap[j], ks)
    BY <1>3, <1>4, SameLine
  <2>4. on => \A j \in DOMAIN cap : Taken(cap, 1, j) => Line(cap[j], z, ks)
    BY <1>3, <1>4, SameLine
  <2> QED
    BY <1>1, <1>3, <2>1, <2>2, <2>3, <2>4, InLineCons DEF u
<1> HIDE DEF u
<1>10. KeymapClear(u, cap, on)
  BY <1>4, <1>7, <1>8 DEF KeymapClear, NoKeymap
<1>11. Counts(x) => Rec(z) = Rec(x)
  BY <1>4 DEF Same, Rec
<1>12. Events(u, cap) = Events(s, cap)
  BY <1>2, <1>4, <1>6, <1>11 DEF Same
<1>13. \A i : Ends(u, i) <=> Ends(s, i)
  BY <1>2, <1>4, <1>6 DEF Same
<1>14. ActiveKeys(u, ks) = ActiveKeys(s, ks)
  BY <1>13, ActiveSame
<1> QED
  BY <1>5, <1>9, <1>10, <1>12, <1>13, <1>14 DEF Going, u, t

\* A hold-tap is decided.
LEMMA GoDecided ==
  ASSUME NEW S, NEW cs \in Seq(Call(S)), NEW t \in Seq(Call(S)), NEW cap, DOMAIN cap \subseteq Nat \ {0},
         \A n \in DOMAIN cs : Silent(cs[n]), NoKeymap(t),
         NEW ks, NEW hl, NEW last, NEW done, Going(t, cap, TRUE, ks, hl, last, done)
  PROVE  /\ Going((cs \o <<Release(1)>>) \o t, cap, FALSE, ks, hl, last, done)
         /\ \A i : Ends((cs \o <<Release(1)>>) \o t, i) <=> Ends(t, i)
<1> DEFINE r == Release(1)
           u == <<r>> \o t
           w == (cs \o <<r>>) \o t
<1>1. r \in Call(S) /\ ~Counts(r) /\ ~Closes(r) /\ r.do # "keymap"
  BY DEF Release, Call, Counts, Event, Closes
<1>2. InLine(w, cap, FALSE, ks)
  BY InLineDecided DEF Going, NoKeymap
<1> HIDE DEF r
<1>3. Events(u, cap) = Events(t, cap) /\ \A i : Ends(u, i) <=> Ends(t, i)
  <2> DEFINE C == Call(S)
  <2>1. r \in C /\ t \in Seq(C)
    BY <1>1
  <2> HIDE DEF C
  <2>2. /\ Events(u, cap) = Events(t, cap) \cup (IF Counts(r) THEN {Rec(r)} ELSE {})
        /\ \A i : Ends(u, i) <=> (Closes(r) /\ r.i = i) \/ Ends(t, i)
    BY <2>1, ConsHas
  <2> QED
    BY <1>1, <2>2
<1>4. u \in Seq(Call(S))
  BY <1>1, Before1
<1> HIDE DEF u
<1>5. Events(cs \o u, cap) = Events(u, cap) /\ \A i : Ends(cs \o u, i) <=> Ends(u, i)
  BY <1>4, CodesHave
<1>6. w = cs \o u
  <2>1. <<r>> \in Seq(Call(S))
    BY <1>1
  <2> QED
    BY <2>1, ConcatAssociative DEF u
<1> HIDE DEF w
<1>7. Events(w, cap) = Events(t, cap) /\ \A i : Ends(w, i) <=> Ends(t, i)
  BY <1>3, <1>5, <1>6
<1>8. ActiveKeys(w, ks) = ActiveKeys(t, ks)
  BY <1>7, ActiveSame
<1>9. KeymapClear(w, cap, FALSE)
  BY DEF KeymapClear
<1> QED
  BY <1>2, <1>7, <1>8, <1>9 DEF Going, w, r

\* The event at the head is captured.
LEMMA GoCaptured ==
  ASSUME NEW S, NEW s \in Seq(S), s # <<>>, ~Closes(Head(s)), Head(s).do # "keymap", NoKeymap(Tail(s)),
         NEW cap, DOMAIN cap \subseteq Nat \ {0}, NEW f, FirstFree(f, cap),
         Roomy(Tail(s), cap, f), Owned(Tail(s), cap, TRUE), NEW e, Same(e, Head(s)),
         NEW ks, NEW hl, NEW last, NEW done, Going(s, cap, TRUE, ks, hl, last, done)
  PROVE  /\ Going(Tail(s), [cap EXCEPT ![f] = e], TRUE, ks, hl, last, done)
         /\ \A i : Ends(s, i) <=> Ends(Tail(s), i)
         /\ \A p : NoneOf(p, cap) /\ (Counts(e) => e.pos # p) => NoneOf(p, [cap EXCEPT ![f] = e])
<1> DEFINE t == Tail(s)
           x == Head(s)
           cap2 == [cap EXCEPT ![f] = e]
<1>1. /\ Events(s, cap) = Events(t, cap) \cup (IF Counts(x) THEN {Rec(x)} ELSE {})
      /\ \A i : Ends(s, i) <=> (Closes(x) /\ x.i = i) \/ Ends(t, i)
  BY HeadHas
<1>2. /\ InLine(t, cap, TRUE, ks)
      /\ \A n \in DOMAIN t : Line(x, t[n], ks)
      /\ \A m \in DOMAIN t, j \in DOMAIN cap : Covers(t[m], cap, j) => Line(x, cap[j], ks)
      /\ \A j \in DOMAIN cap : Taken(cap, 1, j) => Line(cap[j], x, ks)
  BY InLineTail DEF Going
<1>3. Same(e, x) /\ NoKeymap(t) /\ ~Closes(x) /\ Roomy(t, cap, f) /\ Owned(t, cap, TRUE)
  OBVIOUS
<1>4. EventsInv(Events(s, cap), hl, last, done, ActiveKeys(s, ks))
  BY DEF Going
<1>5. f \in DOMAIN cap /\ cap[f] = Free
  BY DEF FirstFree
<1> HIDE DEF t, x
<1>6. /\ \A n \in DOMAIN t : Line(e, t[n], ks)
      /\ \A m \in DOMAIN t, j \in DOMAIN cap : Covers(t[m], cap, j) => Line(e, cap[j], ks)
      /\ \A j \in DOMAIN cap : Taken(cap, 1, j) => Line(cap[j], e, ks)
  BY <1>2, <1>3, SameLine
<1>7. InLine(t, cap2, TRUE, ks)
  BY <1>2, <1>3, <1>6, InLineCaptured
<1>8. Events(t, cap2) = Events(t, cap) \cup (IF Counts(e) THEN {Rec(e)} ELSE {})
  BY <1>5, PlaceHas
<1>9. Counts(x) => Rec(e) = Rec(x)
  BY <1>3 DEF Same, Rec
<1>10. DOMAIN cap2 = DOMAIN cap /\ cap2[f] = e /\ \A j \in DOMAIN cap : j # f => cap2[j] = cap[j]
  BY <1>5
<1>11. \A j \in DOMAIN cap : Taken(cap2, 1, j) => j = f \/ Taken(cap, 1, j)
  BY <1>3, PlacesTaken
<1> HIDE DEF cap2
<1>12. Events(t, cap2) = Events(s, cap)
  BY <1>1, <1>3, <1>8, <1>9 DEF Same
<1>13. ActiveKeys(t, ks) = ActiveKeys(s, ks)
  BY <1>1, <1>3, ActiveSame
<1>14. Going(t, cap2, TRUE, ks, hl, last, done)
  BY <1>3, <1>4, <1>7, <1>12, <1>13, NoneClear DEF Going
<1>15. ASSUME NEW p, NoneOf(p, cap), Counts(e) => e.pos # p PROVE NoneOf(p, cap2)
  <2> SUFFICES ASSUME NEW j \in DOMAIN cap, Taken(cap2, 1, j), Counts(cap2[j]) PROVE cap2[j].pos # p
    BY <1>10 DEF NoneOf
  <2>1. CASE j = f
    BY <1>10, <1>15, <2>1
  <2>2. CASE j # f
    BY <1>10, <1>11, <1>15, <2>2 DEF NoneOf
  <2> QED
    BY <2>1, <2>2
<1> QED
  BY <1>1, <1>3, <1>14, <1>15 DEF t, cap2

\* An event is raised again.
LEMMA GoRaised ==
  ASSUME NEW S, NEW s \in Seq(Call(S)), s # <<>>, NEW cap, DOMAIN cap \subseteq Nat \ {0},
         Head(s).do = "release", NEW i \in DOMAIN cap, i = Head(s).i, cap[i] # Free, NoKeymap(Tail(s)),
         \A n \in DOMAIN Tail(s) : Tail(s)[n].do = "release" => Tail(s)[n].i \in Nat /\ i < Tail(s)[n].i,
         NEW e \in Call(S), Same(e, cap[i]), ~Closes(cap[i]), e.do # "keymap",
         NEW on, NEW ks, NEW hl, NEW last, NEW done, Going(s, cap, on, ks, hl, last, done)
  PROVE  /\ Going(<<e, Release(i + 1)>> \o Tail(s), [cap EXCEPT ![i] = Free], on, ks, hl, last, done)
         /\ \A m : Ends(<<e, Release(i + 1)>> \o Tail(s), m) <=> Ends(s, m)
         /\ \A p : NoneOf(p, cap) => NoneOf(p, [cap EXCEPT ![i] = Free])
<1> DEFINE t == Tail(s)
           r == Release(i + 1)
           cap2 == [cap EXCEPT ![i] = Free]
           u == <<r>> \o t
           w == <<e>> \o u
           C == Call(S)
<1>1. Alike(e, cap[i])
  BY DEF Same, Alike
<1>2. InLine(<<e, r>> \o t, cap2, on, ks)
  <2>1. e.do # "release" /\ InLine(s, cap, on, ks)
    BY DEF Same, Going
  <2> QED
    BY <1>1, <2>1, InLineRaised
<1>3. i \in Nat \ {0} /\ t \in Seq(C) /\ e \in C
  BY Behind
<1>4. r \in C /\ ~Counts(r) /\ ~Closes(r) /\ r.do # "keymap"
  BY <1>3 DEF Release, Call, Counts, Event, Closes
<1>5. Events(s, cap) = Events(t, cap) /\ \A m : Ends(s, m) <=> Ends(t, m)
  <2>1. ~Counts(Head(s)) /\ ~Closes(Head(s))
    BY DEF Counts, Event, Closes
  <2> QED
    BY <2>1, HeadHas
<1>6. EventsInv(Events(s, cap), hl, last, done, ActiveKeys(s, ks))
  BY DEF Going
<1>7. NoKeymap(t)
  OBVIOUS
<1> HIDE DEF C, r, t
<1>8. <<e, r>> \o t = w
  <2>1. <<e>> \in Seq(C) /\ <<r>> \in Seq(C)
    BY <1>3, <1>4
  <2>2. <<e, r>> = <<e>> \o <<r>>
    BY <1>3, <1>4
  <2> QED
    BY <1>3, <2>1, <2>2, ConcatAssociative
<1>9. u \in Seq(C) /\ \A n \in DOMAIN u : n = 1 \/ (n - 1 \in DOMAIN t /\ u[n] = t[n - 1])
  BY <1>3, <1>4, Before1
<1>10. u[1] = r
  BY <1>3, <1>4, Before1
<1> HIDE DEF cap2
<1>11. /\ Events(u, cap2) = Events(t, cap2) \cup (IF Counts(r) THEN {Rec(r)} ELSE {})
       /\ \A m : Ends(u, m) <=> (Closes(r) /\ r.i = m) \/ Ends(t, m)
  BY <1>3, <1>4, ConsHas
<1> HIDE DEF u
<1>12. /\ Events(w, cap2) = Events(u, cap2) \cup (IF Counts(e) THEN {Rec(e)} ELSE {})
       /\ \A m : Ends(w, m) <=> (Closes(e) /\ e.i = m) \/ Ends(u, m)
  BY <1>3, <1>9, ConsHas
<1>13. Events(t, cap) = Events(t, cap2) \cup (IF Counts(cap[i]) THEN {Rec(cap[i])} ELSE {})
  <2>1. \A k \in DOMAIN cap :
           Events(t, cap) = Events(t, [cap EXCEPT ![k] = Free]) \cup (IF Counts(cap[k]) THEN {Rec(cap[k])} ELSE {})
    BY PlaceLeft
  <2> QED
    BY <2>1 DEF cap2
<1>14. ~Closes(e) /\ (Counts(e) <=> Counts(cap[i])) /\ (Counts(cap[i]) => Rec(e) = Rec(cap[i]))
  BY DEF Same, Rec
<1>15. \A m : Ends(w, m) <=> Ends(s, m)
  BY <1>4, <1>5, <1>11, <1>12, <1>14
<1>16. Events(w, cap2) = Events(s, cap)
  BY <1>4, <1>5, <1>11, <1>12, <1>13, <1>14
<1>17. NoKeymap(w)
  <2>1. \A n \in DOMAIN w : n = 1 \/ (n - 1 \in DOMAIN u /\ w[n] = u[n - 1])
    BY <1>3, <1>9, Before1
  <2>2. w[1] = e
    BY <1>3, <1>9, Before1
  <2> HIDE DEF w
  <2>3. \A n \in DOMAIN u : u[n].do # "keymap"
    BY <1>4, <1>7, <1>9, <1>10 DEF NoKeymap
  <2> QED
    BY <2>1, <2>2, <2>3 DEF NoKeymap
<1> HIDE DEF w
<1>18. ActiveKeys(w, ks) = ActiveKeys(s, ks)
  BY <1>15, ActiveSame
<1>19. Going(w, cap2, on, ks, hl, last, done)
  BY <1>2, <1>6, <1>8, <1>16, <1>17, <1>18, NoneClear DEF Going
<1>20. ASSUME NEW p, NoneOf(p, cap) PROVE NoneOf(p, cap2)
  <2> SUFFICES ASSUME NEW j \in DOMAIN cap, Taken(cap2, 1, j), Counts(cap2[j]) PROVE cap2[j].pos # p
    BY DEF NoneOf, cap2
  <2>1. Taken(cap, 1, j)
    BY TakenFreed DEF cap2
  <2>2. cap2[j] # Free
    BY DEF Counts, Event, Free
  <2>3. cap2[j] = cap[j]
    BY <2>2 DEF cap2
  <2> QED
    BY <1>20, <2>1, <2>3 DEF NoneOf
<1> QED
  BY <1>8, <1>15, <1>19, <1>20 DEF t, r, cap2

\* The keymap sees the event at the head.
LEMMA SeenFirst ==
  ASSUME NEW S, NEW s \in Seq(S), s # <<>>, NEW cap, NEW on, NEW ks, NEW hl, NEW last, NEW done,
         Going(s, cap, on, ks, hl, last, done), Owned(s, cap, on),
         Head(s).do = "keymap", Counts(Head(s))
  PROVE  /\ InLine(Tail(s), cap, on, ks)
         /\ \A i : Ends(s, i) <=> Ends(Tail(s), i)
         /\ Head(s).down =>
               /\ ~on
               /\ EventsInv(Events(Tail(s), cap), hl, last, Head(s).n, ActiveKeys(Tail(s), ks) \cup {Head(s).pos})
         /\ ~Head(s).down =>
               /\ on => NoneOf(Head(s).pos, cap)
               /\ EventsInv(Events(Tail(s), cap), hl, last, done, ActiveKeys(Tail(s), ks) \ {Head(s).pos})
<1> DEFINE t == Tail(s)
           x == Head(s)
           E == Events(s, cap)
           F == Events(t, cap)
           A == ActiveKeys(t, ks)
<1>1. /\ E = F \cup {Rec(x)}
      /\ \A i : Ends(s, i) <=> Ends(t, i)
  <2>1. ~Closes(x)
    BY DEF Closes
  <2> QED
    BY <2>1, HeadHas
<1>2. InLine(t, cap, on, ks)
  BY InLineTail DEF Going
<1>3. EventsInv(E, hl, last, done, A)
  <2>1. ActiveKeys(s, ks) = A
    BY <1>1, ActiveSame
  <2> QED
    BY <2>1 DEF Going
<1>4. 1 \in DOMAIN s /\ s[1] = x
  BY Behind
<1>5. on => ~x.down /\ NoneOf(x.pos, cap)
  BY <1>4 DEF Going, KeymapClear
<1>6. \A z \in F : Sooner(x, z) \/ (on /\ \E j \in DOMAIN cap : Taken(cap, 1, j) /\ Counts(cap[j]) /\ z = Rec(cap[j]))
  BY HeadFirst DEF Going
<1> HIDE DEF t, x, E, F, A
<1>7. \A z : Sooner(Rec(x), z) <=> Sooner(x, z)
  BY DEF Sooner, Rec
<1>8. Rec(x).down = x.down /\ Rec(x).n = x.n /\ Rec(x).pos = x.pos
  BY DEF Rec
<1>9. ASSUME x.down PROVE EventsInv(F, hl, last, x.n, A \cup {x.pos})
  <2>1. \A z \in F : Sooner(Rec(x), z)
    BY <1>5, <1>6, <1>7, <1>9
  <2> DEFINE r == Rec(x)
  <2>2. r.down /\ E = F \cup {r} /\ \A z \in F : Sooner(r, z)
    BY <1>1, <1>8, <1>9, <2>1
  <2> HIDE DEF r
  <2>3. EventsInv(F, hl, last, r.n, A \cup {r.pos})
    BY <1>3, <2>2, PressGoes
  <2> QED
    BY <1>8, <2>3 DEF r
<1>10. ASSUME ~x.down PROVE EventsInv(F, hl, last, done, A \ {x.pos})
  <2> DEFINE r == Rec(x)
             A2 == A \ {x.pos}
  <2>1. ASSUME NEW z \in F, z.pos = x.pos PROVE Sooner(r, z)
    <3>1. ASSUME on, NEW j \in DOMAIN cap, Taken(cap, 1, j), Counts(cap[j]), z = Rec(cap[j]) PROVE FALSE
      <4>1. cap[j].pos # x.pos
        BY <1>5, <3>1 DEF NoneOf
      <4> QED
        BY <2>1, <3>1, <4>1 DEF Rec
    <3> QED
      BY <1>6, <1>7, <3>1
  <2>2. ~r.down /\ E = F \cup {r} /\ A2 \subseteq A \ {r.pos} /\ r.pos = x.pos
    BY <1>1, <1>8, <1>10
  <2> HIDE DEF r, A2
  <2>3. EventsInv(F, hl, last, done, A2)
    BY <1>3, <2>1, <2>2, ReleaseGoes
  <2> QED
    BY <2>3 DEF A2
<1> QED
  BY <1>1, <1>2, <1>5, <1>9, <1>10 DEF t, x, F, A

\* A release that the keymap passes to the hold-tap of the key: it is ending.
LEMMA GoEnding ==
  ASSUME NEW S, NEW s \in Seq(S), s # <<>>, NEW cap, NEW on, NEW ks, NEW hl, NEW last, NEW done,
         Going(s, cap, on, ks, hl, last, done), Owned(s, cap, on),
         Head(s).do = "keymap", Counts(Head(s)), ~Head(s).down, NoKeymap(Tail(s)),
         \A j \in DOMAIN cap : ~Closes(cap[j]),
         NEW k \in S, k.do = "keyUp", NEW i \in DOMAIN ks, k.i = i, ks[i] = Head(s).pos,
         \A m \in DOMAIN ks : ks[m] = Head(s).pos => m = i
  PROVE  /\ Going(<<k>> \o Tail(s), cap, on, ks, hl, last, done)
         /\ \A m : Ends(<<k>> \o Tail(s), m) <=> m = i \/ Ends(s, m)
<1> DEFINE t == Tail(s)
           x == Head(s)
           u == <<k>> \o t
<1>1. /\ InLine(t, cap, on, ks)
      /\ \A m : Ends(s, m) <=> Ends(t, m)
      /\ on => NoneOf(x.pos, cap)
      /\ EventsInv(Events(t, cap), hl, last, done, ActiveKeys(t, ks) \ {x.pos})
  BY SeenFirst
<1>2. Closes(k) /\ ~Counts(k) /\ ~Event(k)
  BY DEF Closes, Counts, Event
<1>3. t \in Seq(S)
  BY Behind
<1>4. \A n \in DOMAIN t : Line(x, t[n], ks)
  BY InLineTail DEF Going
<1>5. Counts(x) /\ NoKeymap(t) /\ ks[i] = x.pos /\ \A m \in DOMAIN ks : ks[m] = x.pos => m = i
  OBVIOUS
<1> HIDE DEF t, x
<1>6. /\ Events(u, cap) = Events(t, cap) \cup (IF Counts(k) THEN {Rec(k)} ELSE {})
      /\ \A m : Ends(u, m) <=> (Closes(k) /\ k.i = m) \/ Ends(t, m)
  BY <1>3, ConsHas
<1>7. \A n \in DOMAIN t : Closes(t[n]) => t[n].i # i
  BY <1>4, <1>5 DEF Line
<1>8. InLine(u, cap, on, ks)
  <2>1. \A n \in DOMAIN t : Line(k, t[n], ks)
    BY <1>2, <1>7 DEF Line
  <2>2. \A j \in DOMAIN cap : Line(k, cap[j], ks) /\ ~Covers(k, cap, j)
    BY <1>2 DEF Line, Covers
  <2>3. ASSUME on, NEW j \in DOMAIN cap, Taken(cap, 1, j) PROVE Line(cap[j], k, ks)
    BY <1>1, <1>2, <1>5, <2>3 DEF Line, NoneOf
  <2> QED
    BY <1>1, <1>3, <2>1, <2>2, <2>3, InLineCons
<1>9. NoKeymap(u)
  <2>1. \A n \in DOMAIN u : n = 1 \/ (n - 1 \in DOMAIN t /\ u[n] = t[n - 1])
    BY <1>3, Before1
  <2>2. u[1] = k
    BY <1>3, Before1
  <2> HIDE DEF u
  <2> QED
    BY <1>5, <2>1, <2>2 DEF NoKeymap
<1> HIDE DEF u
<1>10. \A m : Ends(u, m) <=> m = i \/ Ends(s, m)
  BY <1>1, <1>2, <1>6
<1>11. ActiveKeys(u, ks) \subseteq ActiveKeys(t, ks) \ {x.pos}
  <2> SUFFICES ASSUME NEW p \in ActiveKeys(u, ks) PROVE p \in ActiveKeys(t, ks) \ {x.pos}
    OBVIOUS
  <2>1. PICK m \in DOMAIN ks : ks[m] = p /\ ks[m] # NoKey /\ ~Ends(u, m)
    BY ActiveAre
  <2>2. m # i /\ ~Ends(t, m)
    BY <1>1, <1>10, <2>1
  <2>3. p # x.pos
    BY <1>5, <2>1, <2>2
  <2> QED
    BY <2>1, <2>2, <2>3, ActiveAre
<1>12. EventsInv(Events(u, cap), hl, last, done, ActiveKeys(u, ks))
  BY <1>1, <1>2, <1>6, <1>11 DEF EventsInv
<1> QED
  BY <1>8, <1>9, <1>10, <1>12, NoneClear DEF Going, u, t

\* A hold-tap has ended, and its place is free.
LEMMA GoEnded ==
  ASSUME NEW S, NEW s \in Seq(S), s # <<>>, NEW cap, NEW on, NEW ks, NEW hl, NEW last, NEW done,
         Going(s, cap, on, ks, hl, last, done), Closes(Head(s)),
         \A j \in DOMAIN cap : ~Closes(cap[j]), NEW ks2, DOMAIN ks2 = DOMAIN ks,
         \A m \in DOMAIN ks : IF m = Head(s).i THEN ks2[m] = NoKey ELSE ks2[m] = ks[m],
         \A n \in DOMAIN s : Closes(s[n]) => s[n].i \in DOMAIN ks
  PROVE  /\ Going(Tail(s), cap, on, ks2, hl, last, done)
         /\ \A m : Ends(Tail(s), m) <=> Ends(s, m) /\ m # Head(s).i
<1> DEFINE t == Tail(s)
           x == Head(s)
<1>1. /\ Events(s, cap) = Events(t, cap) \cup (IF Counts(x) THEN {Rec(x)} ELSE {})
      /\ \A m : Ends(s, m) <=> (Closes(x) /\ x.i = m) \/ Ends(t, m)
  BY HeadHas
<1>2. InLine(t, cap, on, ks) /\ \A n \in DOMAIN t : Line(x, t[n], ks)
  BY InLineTail DEF Going
<1>3. Closes(x) /\ ~Counts(x)
  BY DEF Closes, Counts, Event
<1>4. \A n \in DOMAIN t : n + 1 \in DOMAIN s /\ t[n] = s[n + 1]
  BY Behind
<1>5. EventsInv(Events(s, cap), hl, last, done, ActiveKeys(s, ks)) /\ KeymapClear(s, cap, on)
  BY DEF Going
<1>6. \A m \in DOMAIN ks : IF m = x.i THEN ks2[m] = NoKey ELSE ks2[m] = ks[m]
  OBVIOUS
<1> HIDE DEF t, x
<1>7. \A n \in DOMAIN t : Closes(t[n]) => t[n].i # x.i /\ t[n].i \in DOMAIN ks
  BY <1>2, <1>3, <1>4 DEF Line
<1>8. \A m : Ends(t, m) <=> Ends(s, m) /\ m # x.i
  BY <1>1, <1>3, <1>7 DEF Ends
<1>9. InLine(t, cap, on, ks2)
  <2>1. \A n \in DOMAIN t : Closes(t[n]) => ks2[t[n].i] = ks[t[n].i]
    BY <1>6, <1>7
  <2> QED
    BY <1>2, <2>1, InLineKeys
<1>10. ActiveKeys(t, ks2) \subseteq ActiveKeys(s, ks)
  <2> SUFFICES ASSUME NEW p \in ActiveKeys(t, ks2) PROVE p \in ActiveKeys(s, ks)
    OBVIOUS
  <2>1. PICK m \in DOMAIN ks : ks2[m] = p /\ ks2[m] # NoKey /\ ~Ends(t, m)
    BY ActiveAre
  <2>2. m # x.i /\ ks[m] = p
    BY <1>6, <2>1
  <2>3. ~Ends(s, m)
    BY <1>8, <2>1, <2>2
  <2> QED
    BY <2>1, <2>2, <2>3, ActiveAre
<1>11. EventsInv(Events(t, cap), hl, last, done, ActiveKeys(t, ks2))
  BY <1>1, <1>3, <1>5, <1>10 DEF EventsInv
<1>12. KeymapClear(t, cap, on)
  BY <1>4, <1>5 DEF KeymapClear
<1> QED
  BY <1>8, <1>9, <1>11, <1>12 DEF Going, t, x

\* Place i, the hold-tap of key q; nothing captured in the first places.
Begins(ks2, ks, i, q) ==
    DOMAIN ks2 = DOMAIN ks /\ i \in DOMAIN ks /\ \A m \in DOMAIN ks : ks2[m] = IF m = i THEN q ELSE ks[m]
Vacant(cap) == \A j \in DOMAIN cap : ~Taken(cap, 1, j) /\ ~Closes(cap[j])
ClosesIn(t, ks) == \A n \in DOMAIN t : Closes(t[n]) => t[n].i \in DOMAIN ks

\* The keymap has passed the press of a key to a hold-tap, in place i.
LEMMA GoPressed ==
  ASSUME NEW S, NEW t \in Seq(S), NoKeymap(t), NEW k \in S, Silent(k), k.do # "keymap",
         NEW cap, Vacant(cap),
         NEW on, NEW ks, InLine(t, cap, on, ks), NEW i, ~Ends(t, i), NEW q, ClosesIn(t, ks),
         NEW ks2, Begins(ks2, ks, i, q),
         NEW hl, NEW last, NEW done, EventsInv(Events(t, cap), hl, last, done, ActiveKeys(t, ks) \cup {q})
  PROVE  /\ Going(<<k>> \o t, cap, TRUE, ks2, hl, last, done)
         /\ \A m : Ends(<<k>> \o t, m) <=> Ends(t, m)
<1> USE DEF Begins, Vacant, ClosesIn
<1> DEFINE u == <<k>> \o t
<1>1. /\ Events(u, cap) = Events(t, cap) \cup (IF Counts(k) THEN {Rec(k)} ELSE {})
      /\ \A m : Ends(u, m) <=> (Closes(k) /\ k.i = m) \/ Ends(t, m)
  BY ConsHas
<1>2. ~Counts(k) /\ ~Closes(k)
  BY DEF Silent, Counts
<1>3. InLine(t, cap, TRUE, ks2)
  <2>1. InLine(t, cap, TRUE, ks)
    BY InLineOn
  <2>2. ASSUME NEW n \in DOMAIN t, Closes(t[n]) PROVE ks2[t[n].i] = ks[t[n].i]
    <3>1. t[n].i # i
      BY <2>2 DEF Ends
    <3> QED
      BY <2>2, <3>1
  <2> QED
    BY <2>1, <2>2, InLineKeys
<1>4. InLine(u, cap, TRUE, ks2)
  BY <1>3, InLineSilent
<1>5. NoKeymap(u)
  <2>1. \A n \in DOMAIN u : n = 1 \/ (n - 1 \in DOMAIN t /\ u[n] = t[n - 1])
    BY Before1
  <2>2. u[1] = k
    BY Before1
  <2> HIDE DEF u
  <2> QED
    BY <2>1, <2>2 DEF NoKeymap
<1> HIDE DEF u
<1>6. \A m : Ends(u, m) <=> Ends(t, m)
  BY <1>1, <1>2
<1>7. ActiveKeys(u, ks2) \subseteq ActiveKeys(t, ks) \cup {q}
  <2> SUFFICES ASSUME NEW p \in ActiveKeys(u, ks2), p # q PROVE p \in ActiveKeys(t, ks)
    OBVIOUS
  <2>1. PICK m \in DOMAIN ks2 : ks2[m] = p /\ ks2[m] # NoKey /\ ~Ends(u, m)
    BY ActiveAre
  <2>2. m # i /\ ks[m] = p
    BY <2>1
  <2> QED
    BY <1>6, <2>1, <2>2, ActiveAre
<1>8. EventsInv(Events(u, cap), hl, last, done, ActiveKeys(u, ks2))
  BY <1>1, <1>2, <1>7 DEF EventsInv
<1> QED
  BY <1>4, <1>5, <1>6, <1>8, NoneClear DEF Going, u

\* A key moves.
LEMMA GoKey ==
  ASSUME NEW x, x.do = "pos", NEW cap, NEW on, NEW ks, NEW hl, NEW last, NEW done,
         Going(<<>>, cap, on, ks, hl, last, done), NEW hl2, NEW last2,
         Counts(x) => \A z \in Events(<<>>, cap) : Sooner(z, x),
         \A j \in DOMAIN cap : Event(cap[j]) => cap[j].at <= x.at,
         EventsInv(Events(<<>>, cap) \cup (IF Counts(x) THEN {Rec(x)} ELSE {}), hl2, last2, done, ActiveKeys(<<>>, ks)),
         \A j \in DOMAIN cap : ~Closes(cap[j])
  PROVE  Going(<<x>>, cap, on, ks, hl2, last2, done) /\ \A m : ~Ends(<<x>>, m)
<1> DEFINE u == <<x>>
<1>1. DOMAIN u = {1} /\ u[1] = x
  OBVIOUS
<1>2. DOMAIN <<>> = {}
  OBVIOUS
<1> HIDE DEF u
<1>3. ~Closes(x) /\ x.do # "release" /\ x.do # "keymap"
  BY DEF Closes
<1>4. \A m : ~Ends(u, m)
  BY <1>1, <1>3 DEF Ends
<1>5. \A m : ~Ends(<<>>, m)
  BY <1>2 DEF Ends
<1>6. ActiveKeys(u, ks) = ActiveKeys(<<>>, ks)
  BY <1>4, <1>5, ActiveSame
<1>7. Events(u, cap) = Events(<<>>, cap) \cup (IF Counts(x) THEN {Rec(x)} ELSE {})
  <2>1. ASSUME NEW z PROVE z \in Events(u, cap) <=> z \in Events(<<>>, cap) \cup (IF Counts(x) THEN {Rec(x)} ELSE {})
    BY <1>1, <1>2, EventsAre
  <2> QED
    BY <2>1
<1>8. NoKeymap(u)
  BY <1>1, <1>3 DEF NoKeymap
<1>9. InLine(u, cap, on, ks)
  <2>1. \A i, j \in DOMAIN cap : i < j => Line(cap[i], cap[j], ks)
    BY DEF Going, InLine
  <2>2. ASSUME NEW j \in DOMAIN cap PROVE Line(cap[j], x, ks)
    <3>1. ASSUME Counts(cap[j]), Counts(x) PROVE Sooner(cap[j], x)
      <4>1. Rec(cap[j]) \in Events(<<>>, cap)
        BY <3>1, EventsAre
      <4>2. Sooner(Rec(cap[j]), x)
        BY <3>1, <4>1
      <4> QED
        BY <4>2 DEF Sooner, Rec
    <3> QED
      BY <1>3, <3>1 DEF Line, InTime
  <2>3. \A m, n \in DOMAIN u : ~(m < n)
    BY <1>1
  <2>4. \A m \in DOMAIN u, j \in DOMAIN cap : ~Covers(u[m], cap, j)
    BY <1>1, <1>3 DEF Covers
  <2> QED
    BY <1>1, <2>1, <2>2, <2>3, <2>4 DEF InLine
<1> QED
  BY <1>4, <1>6, <1>7, <1>8, <1>9, NoneClear DEF Going, u

\* An ignored key moves.
LEMMA IgnoredMoves ==
  ASSUME NEW E, NEW hl, NEW last, NEW done, NEW act, EventsInv(E, hl, last, done, act), NEW p,
         \A z \in E : z.pos # p, p \notin act, NEW hl2, hl2 \cup {p} = hl \cup {p}, NEW last2 \in Nat, last <= last2
  PROVE  EventsInv(E, hl2, last2, done, act)
<1>1. \A q : q # p => (q \in hl <=> q \in hl2)
  OBVIOUS
<1>2. Alternate(E, hl2)
  <2>1. Alternate(E, hl)
    BY DEF EventsInv
  <2>2. \A x \in E : x.pos \in hl <=> x.pos \in hl2
    BY <1>1
  <2> QED
    BY <2>1, <2>2 DEF Alternate
<1>3. Fresh(E, last2, done)
  BY DEF EventsInv, Fresh
<1>4. \A q \in act : Follows(E, hl2, q)
  BY <1>1 DEF EventsInv, Follows
<1> QED
  BY <1>2, <1>3, <1>4 DEF EventsInv

-----------------------------------------------------------------------------
(* The steps. *)

LEMMA HasCons ==
  ASSUME NEW S, NEW x \in S, NEW t \in Seq(S)
  PROVE  \A D, i : Has(<<x>> \o t, D, i) <=> (x.do \in D /\ x.i = i) \/ Has(t, D, i)
<1> DEFINE u == <<x>> \o t
<1>1. /\ 1 \in DOMAIN u /\ u[1] = x
      /\ \A n \in DOMAIN t : n + 1 \in DOMAIN u /\ u[n + 1] = t[n]
      /\ \A n \in DOMAIN u : n = 1 \/ (n - 1 \in DOMAIN t /\ u[n] = t[n - 1])
  BY Before1
<1> HIDE DEF u
<1>2. \A D, i : Has(u, D, i) <=> (x.do \in D /\ x.i = i) \/ Has(t, D, i)
  BY <1>1 DEF Has
<1> QED
  BY <1>2 DEF u

LEMMA HasHead ==
  ASSUME NEW S, NEW s \in Seq(S), s # <<>>
  PROVE  \A D, i : Has(s, D, i) <=> (Head(s).do \in D /\ Head(s).i = i) \/ Has(Tail(s), D, i)
<1> DEFINE x == Head(s)
           t == Tail(s)
<1>1. s = <<x>> \o t
  OBVIOUS
<1>2. x \in S /\ t \in Seq(S)
  BY Behind
<1> HIDE DEF x, t
<1>3. \A D, i : Has(<<x>> \o t, D, i) <=> (x.do \in D /\ x.i = i) \/ Has(t, D, i)
  BY <1>2, HasCons
<1> QED
  BY <1>1, <1>3 DEF x, t

LEMMA HasCodes ==
  ASSUME NEW S, NEW cs \in Seq(Sent), cs \in Seq(S), NEW t \in Seq(S)
  PROVE  \A D, i : "code" \notin D => (Has(cs \o t, D, i) <=> Has(t, D, i))
<1> DEFINE u == cs \o t
<1>1. /\ \A n \in DOMAIN t : Len(cs) + n \in DOMAIN u /\ u[Len(cs) + n] = t[n]
      /\ \A n \in DOMAIN u :
            \/ n \in DOMAIN cs /\ u[n] = cs[n]
            \/ n > Len(cs) /\ n - Len(cs) \in DOMAIN t /\ u[n] = t[n - Len(cs)]
  BY Joined
<1>2. \A n \in DOMAIN cs : cs[n].do = "code"
  <2>1. \A n \in DOMAIN cs : cs[n] \in Sent
    OBVIOUS
  <2> QED
    BY <2>1 DEF Sent
<1> HIDE DEF u
<1>3. \A D, i : "code" \notin D => (Has(u, D, i) <=> Has(t, D, i))
  BY <1>1, <1>2 DEF Has
<1> QED
  BY <1>3 DEF u

LEMMA SilentCodes ==
  ASSUME NEW cs \in Seq(Sent)
  PROVE  \A n \in DOMAIN cs : Silent(cs[n])
<1>1. \A n \in DOMAIN cs : cs[n] \in Sent
  OBVIOUS
<1> QED
  BY <1>1 DEF Sent, Silent, Counts, Event, Closes

\* What every step may use.
LEMMA Ready ==
  ASSUME CallsInv
  PROVE  /\ Types /\ Owned(agenda, captured, undecided # None)
         /\ agenda \in Seq(Call(Slot)) /\ DOMAIN captured = Place /\ DOMAIN captured \subseteq Nat \ {0}
         /\ \A j \in DOMAIN captured : ~Closes(captured[j]) /\ captured[j].do # "keymap"
         /\ DOMAIN Keys(taps) = Slot /\ \A i \in Slot : Keys(taps)[i] = taps[i].pos
         /\ \A n \in DOMAIN agenda : Closes(agenda[n]) => agenda[n].i \in Slot
         /\ agenda # <<>> =>
               /\ Head(agenda) \in Call(Slot) /\ Tail(agenda) \in Seq(Call(Slot))
               /\ \A n \in DOMAIN Tail(agenda) : Closes(Tail(agenda)[n]) => Tail(agenda)[n].i \in Slot
               /\ Handles(Head(agenda)) \/ Head(agenda).do = "release" \/ SendsMod(Head(agenda)) => NoKeymap(Tail(agenda))
<1>1. Types /\ Owned(agenda, captured, undecided # None) /\ Calls(agenda, captured, undecided # None, Hot)
  BY DEF CallsInv, OwnedInv
<1>2. agenda \in Seq(Call(Slot)) /\ DOMAIN taps = Slot
  BY <1>1 DEF Types
<1>3. /\ DOMAIN captured = Place /\ DOMAIN captured \subseteq Nat \ {0} /\ \A j \in Place : captured[j] \in Kept
      /\ agenda # <<>> => Head(agenda) \in Call(Slot) /\ Tail(agenda) \in Seq(Call(Slot))
  BY <1>1, Basics
<1>4. \A j \in DOMAIN captured : ~Closes(captured[j]) /\ captured[j].do # "keymap"
  <2>1. \A x \in Kept : x.do \in {"free", "code", "pos"}
    BY DEF Kept, Free, Sent, KeyEvent
  <2> QED
    BY <1>3, <2>1 DEF Closes
<1>5. DOMAIN Keys(taps) = Slot /\ \A i \in Slot : Keys(taps)[i] = taps[i].pos
  BY <1>2 DEF Keys
<1>6. \A x \in Call(Slot) : Closes(x) => x.i \in Slot
  BY CallFields DEF Closes
<1>7. \A n \in DOMAIN agenda : agenda[n] \in Call(Slot)
  BY <1>2
<1>8. agenda # <<>> => \A n \in DOMAIN Tail(agenda) : Tail(agenda)[n] \in Call(Slot)
  BY <1>3
<1>9. ASSUME agenda # <<>>, Handles(Head(agenda)) \/ Head(agenda).do = "release" \/ SendsMod(Head(agenda))
      PROVE  NoKeymap(Tail(agenda))
  <2>1. \A n \in DOMAIN Tail(agenda) : InOrder(Head(agenda), Tail(agenda)[n], captured, Hot)
    BY <1>1, <1>2, <1>9, TailCalls
  <2>2. Head(agenda).do # "code" \/ SendsMod(Head(agenda))
    BY <1>9 DEF Handles
  <2> QED
    BY <2>1, <2>2 DEF NoKeymap, InOrder
<1> QED
  BY <1>1, <1>2, <1>3, <1>4, <1>5, <1>6, <1>7, <1>8, <1>9

\* A step after which each place has the hold-tap it had.
LEMMA StepLine ==
  ASSUME Types, LineInv, build' = build, DOMAIN taps' = Slot, \A i \in Slot : taps'[i].pos = taps[i].pos,
         \A i : Ends(agenda', i) => Ends(agenda, i),
         Going(agenda', captured', undecided' # None, Keys(taps), held', serial', seen'),
         Awaited(taps', undecided', agenda', captured')
  PROVE  LineInv'
<1>1. Slot' = Slot /\ HoldTaps' = HoldTaps /\ Ignored' = Ignored
  BY DEF Slot, MaxHeld, HoldTaps, Config, Ignored
<1>2. Keys(taps') = Keys(taps)
  <2>1. DOMAIN taps = Slot
    BY DEF Types
  <2> QED
    BY <2>1 DEF Keys
<1>3. TapsIn(taps', agenda')
  BY DEF LineInv, TapsIn
<1> QED
  BY <1>1, <1>2, <1>3 DEF LineInv, TapsIn, Going, InLine, Line, InTime, Counts, KeymapClear, NoneOf, Events, Awaited

\* A decision, with the calls "rest" behind it.
LEMMA DecideMoves ==
  ASSUME Types, build' = build, NEW tp, DOMAIN tp = Slot, NEW i \in Slot, NEW moment, NEW rest \in Seq(Call(Slot)),
         \A j \in Slot : TapShape(tp[j]) /\ tp[j].pos = taps[j].pos, NoKeymap(rest),
         Decide(tp, i, moment, rest),
         NEW cap, DOMAIN cap \subseteq Nat \ {0}, NEW ks, NEW hl, NEW last, NEW done,
         Going(rest, cap, undecided # None, ks, hl, last, done)
  PROVE  /\ Going(agenda', cap, undecided' # None, ks, hl, last, done)
         /\ DOMAIN taps' = Slot /\ \A j \in Slot : taps'[j].pos = taps[j].pos
         /\ \A D, m : D \subseteq {"pressed", "keyUp", "released"} => (Has(agenda', D, m) <=> Has(rest, D, m))
         /\ \A m : Ends(agenda', m) <=> Ends(rest, m)
         /\ \/ undecided' = None /\ undecided # None
            \/ undecided' = undecided /\ agenda' = rest /\ taps' = tp
         /\ i = undecided /\ tp[i].status = "undecided" /\ Decision(tp[i], moment) # "undecided" => undecided' = None
<1> DEFINE d == Decision(tp[i], moment)
           cs == PressBinding(tp[i], d)
           C == Call(Slot)
<1>1. i \in Nat \ {0} /\ i # None
  BY Basics DEF Slot, None
<1>2. CASE taps' = tp /\ agenda' = rest /\ undecided' = undecided
             /\ (tp[i].status # "undecided" \/ i # undecided \/ d = "undecided")
  BY <1>2
<1>3. CASE /\ taps' = [tp EXCEPT ![i].status = d]
           /\ undecided' = None
           /\ agenda' = cs \o <<Release(1)>> \o rest
           /\ undecided = i
  <2>1. Codes(cs)
    BY PressCodes DEF TapShape
  <2>2. DOMAIN taps' = Slot /\ \A j \in Slot : taps'[j].pos = taps[j].pos
    BY <1>3 DEF TapShape
  <2> HIDE DEF d, cs
  <2>3. cs \in Seq(Sent) /\ cs \in Seq(C) /\ \A n \in DOMAIN cs : Silent(cs[n])
    BY <2>1, SentIsCall, SilentCodes DEF Codes
  <2>4. agenda' = (cs \o <<Release(1)>>) \o rest
    BY <1>3
  <2>5. Going(rest, cap, TRUE, ks, hl, last, done)
    BY <1>1, <1>3
  <2>6. /\ Going((cs \o <<Release(1)>>) \o rest, cap, FALSE, ks, hl, last, done)
        /\ \A m : Ends((cs \o <<Release(1)>>) \o rest, m) <=> Ends(rest, m)
    BY <2>3, <2>5, GoDecided
  <2>7. (undecided' # None) = FALSE /\ undecided # None
    BY <1>1, <1>3
  <2>8. \A D, m : D \subseteq {"pressed", "keyUp", "released"} => (Has(agenda', D, m) <=> Has(rest, D, m))
    <3> DEFINE r == Release(1)
               u == <<r>> \o rest
    <3>1. r \in C /\ r.do = "release" /\ rest \in Seq(C)
      BY DEF Release, Call
    <3> HIDE DEF C, r
    <3>2. \A D, m : Has(u, D, m) <=> (r.do \in D /\ r.i = m) \/ Has(rest, D, m)
      BY <3>1, HasCons
    <3>3. u \in Seq(C) /\ <<r>> \in Seq(C)
      BY <3>1, Before1
    <3> HIDE DEF u
    <3>4. \A D, m : "code" \notin D => (Has(cs \o u, D, m) <=> Has(u, D, m))
      BY <2>3, <3>3, HasCodes
    <3>5. agenda' = cs \o u
      BY <2>3, <2>4, <3>1, <3>3, ConcatAssociative DEF u, r
    <3> QED
      BY <3>1, <3>2, <3>4, <3>5
  <2> QED
    BY <1>3, <2>2, <2>4, <2>6, <2>7, <2>8
<1> QED
  BY <1>2, <1>3 DEF Decide

\* The event is captured, unless captured_events is full.
LEMMA CaptureMakes ==
  ASSUME Types, NEW e, Capture(e), ~overflow'
  PROVE  \E f : FirstFree(f, captured) /\ captured' = [captured EXCEPT ![f] = [e EXCEPT !.from = None]]
<1> DEFINE free == {j \in Place : captured[j] = Free}
<1>1. DOMAIN captured = Place /\ Place \subseteq Nat
  BY Basics
<1>2. free # {} /\ captured' = [captured EXCEPT ![Min(free)] = [e EXCEPT !.from = None]]
  BY DEF Capture
<1>3. Min(free) \in free /\ \A y \in free : Min(free) <= y
  <2>1. free \subseteq Nat
    BY <1>1
  <2> HIDE DEF free
  <2> QED
    BY <1>2, <2>1, MinIs
<1> QED
  BY <1>1, <1>2, <1>3 DEF FirstFree

\* A timer or a release decides any hold-tap.
LEMMA Decides ==
  ASSUME SettingsInv, NEW h, h.pos \in HoldTaps, NEW moment \in {"timer", "keyUp"}
  PROVE  Decision(h, moment) # "undecided"
<1> DEFINE f == timing[h.pos].flavor
           d == Outcome(f, moment)
<1>1. f \in ToSet(Flavor)
  BY DEF SettingsInv
<1> HIDE DEF f
<1>2. d # "undecided"
  <2>1. CASE moment = "keyUp"
    BY <1>1, <2>1 DEF Outcome
  <2>2. CASE moment = "timer"
    BY <1>1, <2>2 DEF Outcome
  <2> QED
    BY <2>1, <2>2
<1> HIDE DEF d
<1>3. Decision(h, moment) = IF d # "undecided" /\ ForcesTap(h) THEN "tap" ELSE d
  BY DEF Decision, d, f
<1> QED
  BY <1>2, <1>3

\* What the undecided hold-tap waits for stays.
LEMMA AwaitedStays ==
  ASSUME NEW tp, NEW u, NEW ag, NEW cap, Awaited(tp, u, ag, cap), NEW tp2, NEW ag2, NEW cap2,
         u # None => /\ tp2[u].pos = tp[u].pos /\ tp2[u].status = tp[u].status
                     /\ tp2[u].timer = tp[u].timer
                     /\ NoneOf(tp[u].pos, cap) => NoneOf(tp[u].pos, cap2)
                     /\ Has(ag, {"keyUp", "pressed"}, u) => Has(ag2, {"keyUp", "pressed"}, u)
                     /\ Has(ag2, {"released"}, u) => Has(ag, {"released"}, u)
  PROVE  Awaited(tp2, u, ag2, cap2)
  BY DEF Awaited

\* What an event is.
LEMMA EventHas ==
  ASSUME NEW e \in KeyEvent({"pos", "after", "keymap"})
  PROVE  /\ Event(e) /\ ~Closes(e) /\ (Counts(e) <=> e.pos \notin Ignored)
         /\ e.pos \in Position /\ e.n \in Nat /\ e.at \in Int
  BY DEF Event, Closes, KeyEvent, Counts

\* An event in another part of the listeners is the same event.
LEMMA EventSame ==
  ASSUME NEW e \in KeyEvent({"pos", "after", "keymap"})
  PROVE  /\ \A w \in {"pos", "after", "keymap"} : /\ e.do # "keymap" => Same([e EXCEPT !.do = w], e)
                                                 /\ [e EXCEPT !.do = w].do = w
         /\ e.do # "keymap" => Same([[e EXCEPT !.do = "pos"] EXCEPT !.from = None], e)
         /\ Event(e) /\ ~Closes(e) /\ (Counts(e) <=> e.pos \notin Ignored)
         /\ e.pos \in Position /\ e.n \in Nat
<1>1. Event(e) /\ ~Closes(e) /\ e.pos \in Position /\ e.n \in Nat
  BY DEF Event, Closes, KeyEvent
<1>2. ASSUME NEW w \in {"pos", "after", "keymap"}
      PROVE  (e.do # "keymap" => Same([e EXCEPT !.do = w], e)) /\ [e EXCEPT !.do = w].do = w
  <2> DEFINE z == [e EXCEPT !.do = w]
  <2>1. z.do = w /\ z.pos = e.pos /\ z.n = e.n /\ z.down = e.down /\ z.at = e.at
    BY DEF KeyEvent
  <2> HIDE DEF z
  <2> QED
    BY <1>1, <2>1 DEF Same, Counts, Event, Closes, z
<1>3. e.do # "keymap" => Same([[e EXCEPT !.do = "pos"] EXCEPT !.from = None], e)
  <2> DEFINE z == [[e EXCEPT !.do = "pos"] EXCEPT !.from = None]
  <2>1. z.do = "pos" /\ z.pos = e.pos /\ z.n = e.n /\ z.down = e.down /\ z.at = e.at
    BY DEF KeyEvent
  <2> HIDE DEF z
  <2> QED
    BY <1>1, <2>1 DEF Same, Counts, Event, Closes, z
<1> QED
  BY <1>1, <1>2, <1>3 DEF Counts

LEMMA UpdateRetroTapsLines ==
  ASSUME CallsInv, LineInv, UpdateRetroTaps
  PROVE  LineInv'
<1>1. /\ agenda # <<>> /\ Head(agenda).do = "pos"
      /\ UNCHANGED <<build, undecided, captured, held, serial, seen>>
  BY DEF UpdateRetroTaps, Doing, settings, input
<1>2. Types /\ agenda \in Seq(Call(Slot))
  BY Ready
<1> DEFINE R == RetroWaiting(Head(agenda).pos)
           i == Min(R)
           cs == PressBinding(taps[i], "holdInterrupt")
<1>3. /\ R # {}
      /\ taps' = [taps EXCEPT ![i].status = "holdInterrupt"]
      /\ agenda' = cs \o agenda
  BY DEF UpdateRetroTaps
<1>4. R \subseteq Slot /\ Slot \subseteq Nat /\ \A x \in R : taps[x].status = "holdTimer"
  BY DEF RetroWaiting, Slot
<1>5. i \in Slot /\ taps[i].status = "holdTimer"
  <2> HIDE DEF R
  <2>1. Min(R) \in R
    BY <1>3, <1>4, MinIs
  <2> QED
    BY <1>4, <2>1
<1> HIDE DEF R, i
<1>6. TapShape(taps[i])
  BY <1>2, <1>5 DEF Types
<1>7. cs \in Seq(Sent)
  BY <1>6, PressCodes DEF TapShape, Codes
<1> HIDE DEF cs
<1>8. cs \in Seq(Call(Slot)) /\ \A n \in DOMAIN cs : Silent(cs[n])
  BY <1>7, SentIsCall, SilentCodes
<1> DEFINE C == Call(Slot)
           on == undecided # None
<1> HIDE DEF C
<1>9. agenda \in Seq(C) /\ cs \in Seq(C)
  BY <1>2, <1>8 DEF C
<1>10. Going(agenda', captured, on, Keys(taps), held, serial, seen)
  BY <1>3, <1>8, <1>9, GoCodes DEF LineInv
<1>11. \A m : Ends(agenda', m) <=> Ends(agenda, m)
  BY <1>3, <1>8, <1>9, CodesHave
<1>12. \A D, m : "code" \notin D => (Has(agenda', D, m) <=> Has(agenda, D, m))
  BY <1>3, <1>7, <1>9, HasCodes
<1>13. /\ DOMAIN taps' = Slot
       /\ \A j \in Slot : taps'[j].pos = taps[j].pos /\ taps'[j].timer = taps[j].timer
                          /\ (j # i => taps'[j].status = taps[j].status)
  BY <1>2, <1>3, <1>5 DEF Types, TapShape
<1>14. Awaited(taps', undecided', agenda', captured')
  <2>1. Awaited(taps, undecided, agenda, captured)
    BY DEF LineInv
  <2>2. undecided # None => undecided \in Slot /\ undecided # i
    BY <1>2, <1>5, <2>1 DEF Types, Awaited
  <2> QED
    BY <1>1, <1>12, <1>13, <2>1, <2>2 DEF Awaited
<1> QED
  BY <1>1, <1>2, <1>10, <1>11, <1>13, <1>14, StepLine DEF on

\* The event at the head goes on, and nothing else happens.
LEMMA LineGoesOn ==
  ASSUME CallsInv, LineInv, agenda # <<>>, Head(agenda).do \in {"pos", "after"},
         UNCHANGED <<build, undecided, captured, held, serial, seen>>,
         DOMAIN taps' = Slot,
         \A j \in Slot : taps'[j].pos = taps[j].pos /\ taps'[j].status = taps[j].status /\ taps'[j].timer = taps[j].timer,
         agenda' = <<Bubble(Head(agenda))>> \o Tail(agenda),
         undecided # None /\ Counts(Head(agenda)) => ~Head(agenda).down /\ NoneOf(Head(agenda).pos, captured)
  PROVE  LineInv'
<1> DEFINE e == Head(agenda)
           t == Tail(agenda)
           z == Bubble(e)
           C == Call(Slot)
<1>1. Types /\ agenda \in Seq(C) /\ t \in Seq(C) /\ NoKeymap(t)
  BY Ready DEF Handles
<1>2. e \in KeyEvent({"pos", "after", "keymap"})
  BY <1>1, Basics, CallFields
<1>3. Same(z, e) /\ z.do = "keymap" /\ z \in C /\ ~Closes(e)
  BY <1>2, EventSame, EventIs DEF Bubble
<1>4. z.do \notin {"keyUp", "pressed", "released"} /\ e.do \notin {"keyUp", "pressed", "released"} /\ e.do # "keymap"
  BY <1>3
<1>5. agenda # <<>> /\ (undecided # None /\ Counts(z) => ~z.down /\ NoneOf(z.pos, captured))
  BY <1>3 DEF Same
<1> HIDE DEF C, z, t
<1>6. Same(z, Head(agenda)) /\ Head(agenda).do # "keymap"
  BY <1>3, <1>4
<1>7. /\ Going(<<z>> \o Tail(agenda), captured, undecided # None, Keys(taps), held, serial, seen)
      /\ \A m : Ends(<<z>> \o Tail(agenda), m) <=> Ends(agenda, m)
  BY <1>1, <1>3, <1>5, <1>6, GoOn DEF LineInv, t
<1>8. agenda' = <<z>> \o t
  BY DEF z, t
<1>9. \A D, m : Has(agenda, D, m) <=> (e.do \in D /\ e.i = m) \/ Has(t, D, m)
  BY <1>1, HasHead DEF t
<1>10. \A D, m : Has(<<z>> \o t, D, m) <=> (z.do \in D /\ z.i = m) \/ Has(t, D, m)
  BY <1>1, <1>3, HasCons
<1> HIDE DEF e
<1>11. \A D, m : D \subseteq {"keyUp", "pressed", "released"} => (Has(agenda', D, m) <=> Has(agenda, D, m))
  BY <1>4, <1>8, <1>9, <1>10
<1>12. Awaited(taps', undecided', agenda', captured')
  <2>1. undecided # None => undecided \in Slot
    BY <1>1 DEF Types
  <2> QED
    BY <1>11, <2>1 DEF LineInv, Awaited
<1> QED
  BY <1>1, <1>7, <1>8, <1>12, StepLine DEF t

LEMMA BubblingLines ==
  ASSUME CallsInv, LineInv, Bubbling
  PROVE  LineInv'
<1>1. /\ agenda # <<>> /\ Head(agenda).do = "pos"
      /\ agenda' = <<Bubble(Head(agenda))>> \o Tail(agenda)
      /\ UNCHANGED <<build, taps, undecided, captured, held, serial, seen>>
      /\ undecided # None => Head(agenda).pos \in Config[taps[undecided].pos].ignore
  BY DEF Bubbling, Doing, settings, input, engine
<1>2. Types
  BY Ready
<1>3. undecided # None => ~Counts(Head(agenda))
  <2>1. undecided # None => undecided \in Slot /\ taps[undecided].pos \in HoldTaps
    BY <1>2 DEF Types, LineInv, Awaited, TapsIn
  <2> QED
    BY <1>1, <2>1 DEF Counts, Ignored
<1> QED
  BY <1>1, <1>2, <1>3, LineGoesOn DEF Types

\* The call at the head is over, and keycodes may come in its place.
LEMMA LineLeft ==
  ASSUME CallsInv, LineInv, agenda # <<>>, Head(agenda).do \notin {"keyUp", "released"},
         UNCHANGED <<build, undecided>>, DOMAIN taps' = Slot,
         \A j \in Slot : /\ taps'[j].pos = taps[j].pos /\ taps'[j].status = taps[j].status
                         /\ taps'[j].timer # Off \/ taps'[j].timer = taps[j].timer,
         Head(agenda).do = "pressed" => taps'[Head(agenda).i].timer # Off,
         NEW cs \in Seq(Sent), agenda' = cs \o Tail(agenda),
         \A p : NoneOf(p, captured) => NoneOf(p, captured'),
         Going(Tail(agenda), captured', undecided # None, Keys(taps), held', serial', seen')
  PROVE  LineInv'
<1> DEFINE e == Head(agenda)
           t == Tail(agenda)
           C == Call(Slot)
           on == undecided # None
<1>1. Types /\ agenda \in Seq(C) /\ t \in Seq(C)
  BY Ready
<1>2. cs \in Seq(C) /\ \A n \in DOMAIN cs : Silent(cs[n])
  BY SentIsCall, SilentCodes
<1> HIDE DEF C
<1>3. \A D, m : Has(agenda, D, m) <=> (e.do \in D /\ e.i = m) \/ Has(t, D, m)
  BY <1>1, HasHead
<1>4. \A m : Ends(t, m) => Ends(agenda, m)
  BY <1>1, HeadHas
<1>5. ~Closes(e) /\ Going(t, captured', on, Keys(taps), held', serial', seen')
  BY DEF Closes
<1>6. agenda' = cs \o t
  OBVIOUS
<1>7. \A j \in Slot : /\ taps'[j].pos = taps[j].pos /\ taps'[j].status = taps[j].status
                      /\ taps'[j].timer # Off \/ taps'[j].timer = taps[j].timer
  OBVIOUS
<1>8. e.do \notin {"keyUp", "released"} /\ (e.do = "pressed" => taps'[e.i].timer # Off)
  OBVIOUS
<1> HIDE DEF t, e
<1>9. Going(cs \o t, captured', on, Keys(taps), held', serial', seen')
  BY <1>1, <1>2, <1>5, GoCodes
<1>10. \A m : Ends(cs \o t, m) <=> Ends(t, m)
  BY <1>1, <1>2, CodesHave
<1>11. \A D, m : "code" \notin D => (Has(cs \o t, D, m) <=> Has(t, D, m))
  BY <1>1, <1>2, HasCodes
<1>12. Awaited(taps', undecided', agenda', captured')
  <2>1. undecided # None => undecided \in Slot
    BY <1>1 DEF Types
  <2>2. Awaited(taps, undecided, agenda, captured)
    BY DEF LineInv
  <2>3. \A m : Has(agenda', {"released"}, m) => Has(agenda, {"released"}, m)
    BY <1>3, <1>6, <1>11
  <2>4. \A m : Has(agenda, {"keyUp", "pressed"}, m) => Has(agenda', {"keyUp", "pressed"}, m) \/ (e.do = "pressed" /\ e.i = m)
    BY <1>3, <1>6, <1>8, <1>11
  <2> QED
    BY <1>7, <1>8, <2>1, <2>2, <2>3, <2>4 DEF Awaited
<1>13. \A m : Ends(agenda', m) => Ends(agenda, m)
  BY <1>4, <1>6, <1>10
<1> QED
  BY <1>1, <1>6, <1>7, <1>9, <1>12, <1>13, StepLine DEF on

\* The keymap has seen an event, and no hold-tap begins or ends.
LEMMA LineSeen ==
  ASSUME CallsInv, LineInv, agenda # <<>>, Head(agenda).do = "keymap",
         UNCHANGED <<build, taps, undecided, captured, held, serial>>,
         NEW cs \in Seq(Sent), agenda' = cs \o Tail(agenda),
         seen' = IF Head(agenda).down THEN Seen(Head(agenda)) ELSE seen,
         ~Head(agenda).down => \A i \in Slot : taps[i].pos # Head(agenda).pos
  PROVE  LineInv'
<1> DEFINE e == Head(agenda)
           t == Tail(agenda)
           C == Call(Slot)
           on == undecided # None
<1>1. Types /\ agenda \in Seq(C) /\ t \in Seq(C) /\ NoKeymap(t) /\ Owned(agenda, captured, on)
      /\ DOMAIN Keys(taps) = Slot /\ \A i \in Slot : Keys(taps)[i] = taps[i].pos
  BY Ready DEF Handles
<1>2. e \in KeyEvent({"pos", "after", "keymap"})
  BY <1>1, Basics, CallFields
<1>3. ~Closes(e) /\ (Counts(e) <=> e.pos \notin Ignored)
  BY <1>2, EventSame
<1> HIDE DEF C
<1>4. Going(t, captured, on, Keys(taps), held, serial, seen')
  <2>1. Going(agenda, captured, on, Keys(taps), held, serial, seen)
    BY DEF LineInv
  <2>2. CASE ~Counts(e)
    <3>1. seen' = seen
      BY <1>3, <2>2 DEF Seen
    <3>2. Going(t, captured, on, Keys(taps), held, serial, seen)
      BY <1>1, <1>3, <2>1, <2>2, GoTail
    <3> QED
      BY <3>1, <3>2
  <2>3. CASE Counts(e)
    <3>1. /\ InLine(t, captured, on, Keys(taps))
          /\ e.down => EventsInv(Events(t, captured), held, serial, e.n, ActiveKeys(t, Keys(taps)) \cup {e.pos})
          /\ ~e.down => EventsInv(Events(t, captured), held, serial, seen, ActiveKeys(t, Keys(taps)) \ {e.pos})
      BY <1>1, <2>1, <2>3, SeenFirst
    <3>2. KeymapClear(t, captured, on)
      BY <1>1, NoneClear
    <3>3. ~e.down => e.pos \notin ActiveKeys(t, Keys(taps))
      <4> DEFINE ks == Keys(taps)
      <4>1. DOMAIN ks = Slot /\ \A i \in Slot : ks[i] = taps[i].pos
        BY <1>1
      <4>2. ~e.down => \A i \in Slot : taps[i].pos # e.pos
        OBVIOUS
      <4> HIDE DEF ks, e, t
      <4>3. \A p : p \in ActiveKeys(t, ks) => \E i \in DOMAIN ks : ks[i] = p
        BY ActiveAre
      <4>4. ASSUME ~e.down, e.pos \in ActiveKeys(t, ks) PROVE FALSE
        <5>1. PICK i \in DOMAIN ks : ks[i] = e.pos
          BY <4>3, <4>4
        <5> QED
          BY <4>1, <4>2, <4>4, <5>1
      <4> QED
        BY <4>4 DEF ks, t, e
    <3>4. e.down => seen' = e.n
      BY <1>3, <2>3 DEF Seen
    <3>5. ~e.down => seen' = seen
      OBVIOUS
    <3> HIDE DEF t, e, on
    <3>6. EventsInv(Events(t, captured), held, serial, seen', ActiveKeys(t, Keys(taps)))
      BY <3>1, <3>3, <3>4, <3>5 DEF EventsInv
    <3> QED
      BY <3>1, <3>2, <3>6 DEF Going
  <2> QED
    BY <2>2, <2>3
<1>5. DOMAIN taps' = Slot /\ \A j \in Slot : taps'[j].pos = taps[j].pos /\ taps'[j].status = taps[j].status
                                             /\ taps'[j].timer = taps[j].timer
  BY <1>1 DEF Types
<1> QED
  BY <1>1, <1>4, <1>5, LineLeft

LEMMA PlainKeyLines ==
  ASSUME CallsInv, LineInv, PlainKey
  PROVE  LineInv'
<1> DEFINE e == Head(agenda)
           c == Code([of |-> e.pos, as |-> "key"], e.down, e.at)
<1>1. /\ agenda # <<>> /\ e.do = "keymap" /\ e.pos \notin HoldTaps
      /\ agenda' = <<c>> \o Tail(agenda)
      /\ seen' = IF e.down THEN Seen(e) ELSE seen
      /\ UNCHANGED <<build, taps, undecided, captured, held, serial>>
  BY DEF PlainKey, Doing, settings, engine, input
<1>2. Types
  BY Ready
<1>3. e \in KeyEvent({"pos", "after", "keymap"})
  BY <1>1, <1>2, Basics, CallFields
<1>4. c \in Sent
  BY <1>3 DEF KeyEvent, Code, Sent, AnyBinding, None
<1> HIDE DEF c
<1>5. <<c>> \in Seq(Sent)
  BY <1>4
<1>6. \A i \in Slot : taps[i].pos # e.pos
  <2>1. e.pos # NoKey
    BY <1>3, HoldTapAssumption DEF KeyEvent
  <2> QED
    BY <1>1, <2>1 DEF LineInv, TapsIn
<1> QED
  BY <1>1, <1>5, <1>6, LineSeen

LEMMA RefusedLines ==
  ASSUME CallsInv, LineInv, PressRefused \/ ReleaseUnknown
  PROVE  LineInv'
<1>1. /\ agenda # <<>> /\ Head(agenda).do = "keymap" /\ agenda' = Tail(agenda)
      /\ seen' = IF Head(agenda).down THEN Seen(Head(agenda)) ELSE seen
      /\ UNCHANGED <<build, taps, undecided, captured, held, serial>>
      /\ ~Head(agenda).down => \A i \in Slot : taps[i].pos # Head(agenda).pos
  BY DEF PressRefused, ReleaseUnknown, Doing, settings, engine, input
<1>2. Tail(agenda) \in Seq(Call(Slot))
  BY <1>1, Ready
<1>3. <<>> \in Seq(Sent) /\ agenda' = <<>> \o Tail(agenda)
  BY <1>1, <1>2
<1> QED
  BY <1>1, <1>3, LineSeen

LEMMA PressedLines ==
  ASSUME CallsInv, SettingsInv, LineInv, Pressed
  PROVE  LineInv'
<1> DEFINE i == Head(agenda).i
           t == Tail(agenda)
           h == taps[i]
           due == h.at + timing[h.pos].term
           early == h.status = "undecided" /\ i = undecided /\ Config[h.pos].early
           c == Code(Hold(h.pos), TRUE, h.at)
           cs == IF early THEN <<c>> ELSE <<>>
<1>1. /\ agenda # <<>> /\ Head(agenda).do = "pressed"
      /\ UNCHANGED <<build, undecided, captured, held, serial, seen>>
      /\ taps' = [taps EXCEPT ![i].timer = IF @ # Off THEN @ ELSE IF due > now THEN due ELSE now]
      /\ agenda' = cs \o t
  BY DEF Pressed, Doing, settings, input
<1> HIDE DEF due
<1>2. Types /\ agenda \in Seq(Call(Slot))
  BY Ready
<1>3. i \in Slot
  BY <1>1, <1>2, Basics, CallFields
<1>4. c \in Sent
  <2>1. TapShape(h)
    BY <1>2, <1>3 DEF Types
  <2> QED
    BY <2>1, CodeIs DEF TapShape
<1> HIDE DEF c
<1>5. cs \in Seq(Sent)
  BY <1>4
<1> HIDE DEF early, cs
<1>6. (IF due > now THEN due ELSE now) # Off
  <2>1. now \in Nat
    BY DEF SettingsInv
  <2> QED
    BY <2>1 DEF Off
<1>7. /\ DOMAIN taps' = Slot /\ taps'[i].timer # Off
      /\ \A j \in Slot : /\ taps'[j].pos = taps[j].pos /\ taps'[j].status = taps[j].status
                         /\ taps'[j].timer # Off \/ taps'[j].timer = taps[j].timer
  BY <1>1, <1>2, <1>3, <1>6 DEF Types, TapShape
<1>8. ~Counts(Head(agenda)) /\ ~Closes(Head(agenda))
  BY <1>1 DEF Counts, Event, Closes
<1>9. Going(t, captured, undecided # None, Keys(taps), held, serial, seen)
  <2> DEFINE C == Call(Slot)
  <2>1. agenda \in Seq(C)
    BY <1>2
  <2> HIDE DEF C
  <2> QED
    BY <1>1, <1>8, <2>1, GoTail DEF LineInv
<1> QED
  BY <1>1, <1>5, <1>7, <1>9, LineLeft

\* Where two places are free, the first free one has another behind it.
LEMMA RoomBehind ==
  ASSUME NEW S, NEW t \in Seq(Call(S)), NEW cap, DOMAIN cap \subseteq Nat \ {0}, NEW f, FirstFree(f, cap),
         \A n \in DOMAIN t : Marked(t[n]) => TwoFreeUnder(cap, Mark(t[n]))
  PROVE  Roomy(t, cap, f)
<1> SUFFICES ASSUME NEW m \in DOMAIN t, t[m].do = "release"
             PROVE  t[m].i \in Nat /\ \E g \in DOMAIN cap : f < g /\ g < t[m].i /\ cap[g] = Free
  BY DEF Roomy
<1>1. t[m].i \in Nat
  <2>1. t[m] \in Call(S)
    OBVIOUS
  <2> QED
    BY <2>1, CallFields
<1>2. TwoFreeUnder(cap, t[m].i)
  BY DEF Marked, Mark
<1>3. PICK i, j \in DOMAIN cap : i < j /\ j < t[m].i /\ cap[i] = Free /\ cap[j] = Free
  BY <1>2 DEF TwoFreeUnder
<1>4. f <= i /\ f \in Nat /\ i \in Nat /\ j \in Nat
  BY <1>3 DEF FirstFree
<1>5. f < j
  BY <1>3, <1>4
<1> QED
  BY <1>1, <1>3, <1>5

LEMMA KeycodeLines ==
  ASSUME CallsInv, LineInv, Keycode, ~overflow'
  PROVE  LineInv'
<1> DEFINE e == Head(agenda)
           t == Tail(agenda)
           on == undecided # None
           k == [e EXCEPT !.from = None]
           C == Call(Slot)
<1>1. /\ agenda # <<>> /\ e.do = "code" /\ agenda' = t
      /\ UNCHANGED <<build, taps, undecided, held, serial, seen>>
  BY DEF Keycode, Doing, settings, input
<1>2. \/ UNCHANGED captured
      \/ IsMod(e.code) /\ Hot /\ Capture(e)
  BY DEF Keycode, Hot
<1>3. /\ Types /\ Owned(agenda, captured, on) /\ agenda \in Seq(C) /\ t \in Seq(C)
      /\ DOMAIN captured \subseteq Nat \ {0}
      /\ SendsMod(e) => NoKeymap(t)
  BY <1>1, Ready
<1>4. ~Counts(e) /\ ~Closes(e)
  BY <1>1 DEF Counts, Event, Closes
<1>5. /\ Going(t, captured', on, Keys(taps), held, serial, seen)
      /\ \A p : NoneOf(p, captured) => NoneOf(p, captured')
  <2>1. Going(agenda, captured, on, Keys(taps), held, serial, seen)
    BY DEF LineInv
  <2>2. CASE UNCHANGED captured
    <3> HIDE DEF C
    <3>1. Going(t, captured, on, Keys(taps), held, serial, seen)
      BY <1>1, <1>3, <1>4, <2>1, GoTail
    <3> QED
      BY <2>2, <3>1
  <2>3. CASE IsMod(e.code) /\ Hot /\ Capture(e)
    <3>1. on = TRUE /\ SendsMod(e) /\ e.do # "release" /\ e.do # "keymap"
      BY <1>1, <2>3 DEF Hot, SendsMod
    <3>2. PICK f : FirstFree(f, captured) /\ captured' = [captured EXCEPT ![f] = k]
      BY <1>3, <2>3, CaptureMakes
    <3>3. Same(k, e)
      <4>1. e \in Sent
        BY <1>1, <1>3, Basics, CallFields
      <4>2. k.do = "code"
        BY <4>1 DEF Sent
      <4> QED
        BY <1>1, <4>2 DEF Same, Counts, Event, Closes
    <3>4. Roomy(t, captured, f)
      <4>1. \A n \in DOMAIN t : Marked(t[n]) => TwoFreeUnder(captured, Mark(t[n]))
        <5>1. \A n \in DOMAIN t : InOrder(e, t[n], captured, Hot)
          BY <1>1, <1>3, TailCalls DEF CallsInv
        <5> QED
          BY <2>3, <3>1, <5>1 DEF InOrder
      <4> HIDE DEF t
      <4> QED
        BY <1>3, <3>2, <4>1, RoomBehind
    <3>5. Owned(t, captured, TRUE)
      <4> HIDE DEF C
      <4>1. Owned(t, captured, on)
        BY <1>1, <1>3, <3>1, OwnedTail
      <4> QED
        BY <3>1, <4>1
    <3>6. Going(agenda, captured, TRUE, Keys(taps), held, serial, seen)
      BY <2>1, <3>1
    <3> HIDE DEF C, k
    <3>7. /\ Going(t, [captured EXCEPT ![f] = k], TRUE, Keys(taps), held, serial, seen)
          /\ \A p : NoneOf(p, captured) /\ (Counts(k) => k.pos # p) => NoneOf(p, [captured EXCEPT ![f] = k])
      BY <1>1, <1>3, <1>4, <3>1, <3>2, <3>3, <3>4, <3>5, <3>6, GoCaptured
    <3>8. ~Counts(k)
      BY <1>4, <3>3 DEF Same
    <3> QED
      BY <3>1, <3>2, <3>7, <3>8
  <2> QED
    BY <1>2, <2>2, <2>3
<1>6. DOMAIN taps' = Slot /\ \A j \in Slot : /\ taps'[j].pos = taps[j].pos /\ taps'[j].status = taps[j].status
                                             /\ taps'[j].timer = taps[j].timer
  BY <1>1, <1>3 DEF Types
<1>7. <<>> \in Seq(Sent) /\ agenda' = <<>> \o t
  BY <1>1, <1>3
<1> HIDE DEF C, k
<1> QED
  BY <1>1, <1>5, <1>6, <1>7, LineLeft

\* Nothing that concerns the events.
LEMMA QuietLines ==
  ASSUME Types, LineInv, UNCHANGED <<build, taps, undecided, captured, agenda, held, serial, seen>>
  PROVE  LineInv'
<1>1. DOMAIN taps' = Slot /\ \A i \in Slot : taps'[i].pos = taps[i].pos
  BY DEF Types
<1>2. \A i : Ends(agenda', i) => Ends(agenda, i)
  OBVIOUS
<1>3. Going(agenda', captured', undecided' # None, Keys(taps), held', serial', seen')
  BY DEF LineInv
<1>4. Awaited(taps', undecided', agenda', captured')
  BY DEF LineInv
<1> QED
  BY <1>1, <1>2, <1>3, <1>4, StepLine

\* A key moves.
LEMMA KeyLines ==
  ASSUME CallsInv, SettingsInv, LineInv, Past, NEW p \in Position, KeyDown(p) \/ KeyUp(p)
  PROVE  LineInv'
<1> DEFINE E == Events(<<>>, captured)
           act == ActiveKeys(<<>>, Keys(taps))
           on == undecided # None
           n == IF KeyDown(p) THEN serial + 1 ELSE serial
           x == Key(p, KeyDown(p), now, n)
<1>1. /\ agenda = <<>> /\ UNCHANGED <<build, taps, undecided, captured, seen>>
      /\ agenda' = <<x>> /\ serial' = n
      /\ KeyDown(p) => p \notin held /\ held' = held \cup {p}
      /\ ~KeyDown(p) => p \in held /\ held' = held \ {p}
  BY DEF KeyDown, KeyUp, Idle, settings, engine
<1>2. /\ Types /\ \A j \in DOMAIN captured : ~Closes(captured[j]) /\ captured[j].do # "keymap"
      /\ DOMAIN Keys(taps) = Slot /\ \A i \in Slot : Keys(taps)[i] = taps[i].pos
  BY Ready
<1>3. Going(<<>>, captured, on, Keys(taps), held, serial, seen) /\ EventsInv(E, held, serial, seen, act)
  BY <1>1 DEF LineInv, Going
<1>4. /\ x.do = "pos" /\ x.pos = p /\ x.n = n /\ x.down = KeyDown(p) /\ (Counts(x) <=> p \notin Ignored)
      /\ x.at = now
  BY DEF Key, Counts, Event
<1>5. serial \in Nat /\ n \in Nat /\ serial <= n /\ n = (IF KeyDown(p) THEN serial + 1 ELSE serial)
  BY <1>2 DEF Types
<1>6. \A z \in E : z.n \in Nat /\ z.n <= serial
  BY <1>3 DEF EventsInv, Fresh
<1> HIDE DEF x, n
<1>7. Rec(x).pos = p /\ Rec(x).n = n /\ Rec(x).down = KeyDown(p)
  BY <1>4 DEF Rec
<1>8. \A z \in E : z.pos \notin Ignored
  <2>1. \A z \in E : \/ \E k \in DOMAIN <<>> : Counts(<<>>[k]) /\ z = Rec(<<>>[k])
                     \/ \E j \in DOMAIN captured : Counts(captured[j]) /\ z = Rec(captured[j])
    BY EventsAre
  <2> QED
    BY <2>1 DEF Counts, Rec
<1>9. act \subseteq HoldTaps
  <2>1. \A q \in act : \E i \in DOMAIN Keys(taps) : Keys(taps)[i] = q /\ Keys(taps)[i] # NoKey
    BY ActiveAre
  <2>2. \A i \in Slot : taps[i].pos \in HoldTaps \cup {NoKey}
    BY DEF LineInv, TapsIn
  <2> HIDE DEF act
  <2> QED
    BY <1>2, <2>1, <2>2
<1> HIDE DEF E, act, on
<1>10. /\ Counts(x) => \A z \in E : Sooner(z, x)
       /\ EventsInv(E \cup (IF Counts(x) THEN {Rec(x)} ELSE {}), held', n, seen, act)
  <2>1. CASE Counts(x) /\ KeyDown(p)
    <3>1. Rec(x).down /\ Rec(x).n = serial + 1 /\ Rec(x).pos \notin held /\ held' = held \cup {Rec(x).pos}
      BY <1>1, <1>5, <1>7, <2>1
    <3>2. EventsInv(E \cup {Rec(x)}, held', n, seen, act)
      BY <1>3, <1>5, <2>1, <3>1, DownComes
    <3>3. \A z \in E : Sooner(z, x)
      BY <1>4, <1>5, <1>6, <2>1 DEF Sooner
    <3> QED
      BY <2>1, <3>2, <3>3
  <2>2. CASE Counts(x) /\ ~KeyDown(p)
    <3>1. ~Rec(x).down /\ Rec(x).n = serial /\ Rec(x).pos \in held /\ held' = held \ {Rec(x).pos} /\ n = serial
      BY <1>1, <1>5, <1>7, <2>2
    <3>2. /\ EventsInv(E \cup {Rec(x)}, held', n, seen, act)
          /\ \A z \in E : z.pos = Rec(x).pos /\ ~z.down => z.n < Rec(x).n
      BY <1>3, <3>1, UpComes
    <3>3. \A z \in E : Sooner(z, x)
      BY <1>4, <1>5, <1>6, <1>7, <2>2, <3>2 DEF Sooner
    <3> QED
      BY <2>2, <3>2, <3>3
  <2>3. CASE ~Counts(x)
    <3>1. p \in Ignored /\ (\A z \in E : z.pos # p) /\ p \notin act
      BY <1>4, <1>8, <1>9, <2>3 DEF SettingsInv
    <3>2. held' \cup {p} = held \cup {p}
      BY <1>1
    <3>3. EventsInv(E, held', n, seen, act)
      BY <1>3, <1>5, <3>1, <3>2, IgnoredMoves
    <3> QED
      BY <2>3, <3>3
  <2> QED
    BY <2>1, <2>2, <2>3
<1>11. /\ Going(<<x>>, captured, on, Keys(taps), held', n, seen)
       /\ \A m : ~Ends(<<x>>, m)
  BY <1>2, <1>3, <1>4, <1>10, GoKey DEF E, act, Past
<1>12. Awaited(taps', undecided', agenda', captured')
  <2>1. DOMAIN <<x>> = {1} /\ <<x>>[1] = x
    OBVIOUS
  <2>2. ~Has(<<x>>, {"released"}, undecided)
    BY <1>4, <2>1 DEF Has
  <2>3. ~Has(<<>>, {"keyUp", "pressed"}, undecided)
    BY DEF Has
  <2> QED
    BY <1>1, <2>2, <2>3 DEF LineInv, Awaited
<1>13. DOMAIN taps' = Slot /\ \A i \in Slot : taps'[i].pos = taps[i].pos
  BY <1>1, <1>2 DEF Types
<1> QED
  BY <1>1, <1>2, <1>11, <1>12, <1>13, StepLine DEF on

\* The timer of a hold-tap decides it.
LEMMA TimerHandlerLines ==
  ASSUME CallsInv, SettingsInv, LineInv, NEW i \in Slot, TimerHandler(i)
  PROVE  LineInv'
<1> DEFINE tp == [taps EXCEPT ![i].timer = Off]
           on == undecided # None
<1>1. /\ agenda = <<>> /\ UNCHANGED <<build, captured, held, serial, seen>>
      /\ Decide(tp, i, "timer", <<>>)
  BY DEF TimerHandler, Idle, settings, input
<1>2. Types
  BY Ready
<1>3. /\ DOMAIN tp = Slot
      /\ \A j \in Slot : /\ TapShape(tp[j]) /\ tp[j].pos = taps[j].pos /\ tp[j].status = taps[j].status
                         /\ j # i => tp[j].timer = taps[j].timer
  BY <1>2 DEF Types, TapShape
<1> HIDE DEF tp
<1>4. <<>> \in Seq(Call(Slot)) /\ NoKeymap(<<>>) /\ DOMAIN captured \subseteq Nat \ {0}
  BY <1>2, Basics DEF NoKeymap
<1>5. Going(<<>>, captured, on, Keys(taps), held, serial, seen)
  BY <1>1 DEF LineInv
<1>6. /\ Going(agenda', captured, undecided' # None, Keys(taps), held, serial, seen)
      /\ DOMAIN taps' = Slot /\ \A j \in Slot : taps'[j].pos = taps[j].pos
      /\ \A m : Ends(agenda', m) <=> Ends(<<>>, m)
      /\ \/ undecided' = None /\ undecided # None
         \/ undecided' = undecided /\ agenda' = <<>> /\ taps' = tp
      /\ i = undecided /\ tp[i].status = "undecided" /\ Decision(tp[i], "timer") # "undecided" => undecided' = None
  <2> DEFINE rest == <<>>
  <2>1. /\ rest \in Seq(Call(Slot)) /\ NoKeymap(rest) /\ Decide(tp, i, "timer", rest)
        /\ Going(rest, captured, on, Keys(taps), held, serial, seen)
    BY <1>1, <1>4, <1>5
  <2> HIDE DEF rest
  <2>2. /\ Going(agenda', captured, undecided' # None, Keys(taps), held, serial, seen)
        /\ DOMAIN taps' = Slot /\ \A j \in Slot : taps'[j].pos = taps[j].pos
        /\ \A m : Ends(agenda', m) <=> Ends(rest, m)
        /\ \/ undecided' = None /\ undecided # None
           \/ undecided' = undecided /\ agenda' = rest /\ taps' = tp
        /\ i = undecided /\ tp[i].status = "undecided" /\ Decision(tp[i], "timer") # "undecided" => undecided' = None
    BY <1>1, <1>2, <1>3, <1>4, <2>1, DecideMoves
  <2> QED
    BY <2>2 DEF rest
<1>7. CASE i = undecided
  <2>1. i # None
    BY <1>2, Basics
  <2>2. tp[i].status = "undecided" /\ tp[i].pos \in HoldTaps
    BY <1>3, <1>7, <2>1 DEF LineInv, Awaited, TapsIn
  <2>3. Decision(tp[i], "timer") # "undecided"
    BY <2>2, Decides
  <2>4. Awaited(taps', undecided', agenda', captured')
    BY <1>6, <1>7, <2>2, <2>3 DEF Awaited
  <2> QED
    BY <1>1, <1>2, <1>6, <2>4, StepLine
<1>8. CASE i # undecided
  <2>1. CASE undecided' = None
    <3>1. Awaited(taps', undecided', agenda', captured')
      BY <2>1 DEF Awaited
    <3> QED
      BY <1>1, <1>2, <1>6, <3>1, StepLine
  <2>2. CASE undecided' = undecided /\ agenda' = <<>> /\ taps' = tp
    <3>1. undecided # None => undecided \in Slot
      BY <1>2 DEF Types
    <3>2. Awaited(taps', undecided', agenda', captured')
      BY <1>1, <1>3, <1>8, <2>2, <3>1 DEF LineInv, Awaited
    <3> QED
      BY <1>1, <1>2, <1>6, <3>2, StepLine
  <2> QED
    BY <1>6, <2>1, <2>2
<1> QED
  BY <1>7, <1>8

LEMMA NoKeymapCons ==
  ASSUME NEW S, NEW z \in S, z.do # "keymap", NEW t \in Seq(S), NoKeymap(t)
  PROVE  NoKeymap(<<z>> \o t)
<1> DEFINE u == <<z>> \o t
<1>1. u[1] = z /\ \A n \in DOMAIN u : n = 1 \/ (n - 1 \in DOMAIN t /\ u[n] = t[n - 1])
  BY Before1
<1> HIDE DEF u
<1>2. NoKeymap(u)
  BY <1>1 DEF NoKeymap
<1> QED
  BY <1>2 DEF u

\* The release of a hold-tap decides it.
LEMMA KeyUpDecisionLines ==
  ASSUME CallsInv, SettingsInv, LineInv, KeyUpDecision
  PROVE  LineInv'
<1> DEFINE e == Head(agenda)
           t == Tail(agenda)
           i == e.i
           z == [e EXCEPT !.do = "released"]
           rest == <<z>> \o t
           on == undecided # None
           C == Call(Slot)
<1>1. /\ agenda # <<>> /\ e.do = "keyUp" /\ UNCHANGED <<build, captured, held, serial, seen>>
      /\ Decide(taps, i, "keyUp", rest)
  BY DEF KeyUpDecision, Doing, settings, input
<1>2. /\ Types /\ agenda \in Seq(C) /\ t \in Seq(C) /\ e \in C /\ NoKeymap(t)
      /\ DOMAIN captured \subseteq Nat \ {0}
  BY <1>1, Ready DEF Handles
<1>3. i \in Slot
  BY <1>1, <1>2, CallFields
<1>4. e \in [do : {"keyUp", "released"}, i : Slot, at : Int, from : Nat]
  BY <1>1, <1>2 DEF Call, Sent, KeyEvent
<1>5. z \in C /\ z.do = "released" /\ z.i = i
  BY <1>4 DEF Call
<1>6. Same(z, e) /\ e.do # "keymap" /\ ~Counts(z)
  BY <1>1, <1>5 DEF Same, Counts, Event, Closes
<1> HIDE DEF C, z, t
<1>7. on /\ z.do = "keymap" /\ Counts(z) => ~z.down /\ NoneOf(z.pos, captured)
  BY <1>6
<1>8. Going(rest, captured, on, Keys(taps), held, serial, seen) /\ \A m : Ends(rest, m) <=> Ends(agenda, m)
  BY <1>1, <1>2, <1>5, <1>6, <1>7, GoOn DEF LineInv, t
<1>9. NoKeymap(rest) /\ rest \in Seq(C)
  BY <1>2, <1>5, NoKeymapCons, Before1
<1>10. \A D, m : Has(agenda, D, m) <=> (e.do \in D /\ e.i = m) \/ Has(t, D, m)
  BY <1>1, <1>2, HasHead DEF t
<1>11. \A D, m : Has(rest, D, m) <=> (z.do \in D /\ z.i = m) \/ Has(t, D, m)
  BY <1>2, <1>5, HasCons
<1>12. \A j \in Slot : TapShape(taps[j]) /\ taps[j].pos = taps[j].pos
  BY <1>2 DEF Types
<1> HIDE DEF rest, i, e
<1>13. /\ Going(agenda', captured, undecided' # None, Keys(taps), held, serial, seen)
       /\ DOMAIN taps' = Slot /\ \A j \in Slot : taps'[j].pos = taps[j].pos
       /\ \A m : Ends(agenda', m) <=> Ends(rest, m)
       /\ \/ undecided' = None /\ undecided # None
          \/ undecided' = undecided /\ agenda' = rest /\ taps' = taps
       /\ i = undecided /\ taps[i].status = "undecided" /\ Decision(taps[i], "keyUp") # "undecided" => undecided' = None
  <2>1. DOMAIN taps = Slot
    BY <1>2 DEF Types
  <2> QED
    BY <1>1, <1>2, <1>3, <1>8, <1>9, <1>12, <2>1, DecideMoves DEF C
<1>14. undecided' = None \/ (undecided' = undecided /\ undecided # i /\ agenda' = rest /\ taps' = taps)
  <2>1. CASE i = undecided
    <3>1. i # None
      BY <1>2, <1>3, Basics
    <3>2. taps[i].status = "undecided" /\ taps[i].pos \in HoldTaps
      BY <1>3, <2>1, <3>1 DEF LineInv, Awaited, TapsIn
    <3>3. Decision(taps[i], "keyUp") # "undecided"
      BY <3>2, Decides
    <3> QED
      BY <1>13, <2>1, <3>2, <3>3
  <2> QED
    BY <1>13, <2>1
<1>15. Awaited(taps', undecided', agenda', captured')
  BY <1>1, <1>5, <1>10, <1>11, <1>14, AwaitedStays DEF LineInv, Awaited, i
<1>16. \A m : Ends(agenda', m) => Ends(agenda, m)
  BY <1>8, <1>13
<1> QED
  BY <1>1, <1>2, <1>13, <1>15, <1>16, StepLine

\* A step that begins or ends a hold-tap.
LEMMA LineNext ==
  ASSUME Types, build' = build, DOMAIN taps' = Slot,
         Going(agenda', captured', undecided' # None, Keys(taps'), held', serial', seen'),
         TapsIn(taps', agenda'), Awaited(taps', undecided', agenda', captured')
  PROVE  LineInv'
<1>1. Slot' = Slot /\ HoldTaps' = HoldTaps /\ Ignored' = Ignored
  BY DEF Slot, MaxHeld, HoldTaps, Config, Ignored
<1> QED
  BY <1>1 DEF LineInv, TapsIn, Going, InLine, Line, InTime, Counts, KeymapClear, NoneOf, Events, Awaited

LEMMA BindingReleasedLines ==
  ASSUME CallsInv, SettingsInv, LineInv, BindingReleased
  PROVE  LineInv'
<1> DEFINE e == Head(agenda)
           t == Tail(agenda)
           mine == {j \in Slot : taps[j].pos = e.pos}
           i == Min(mine)
           tp == [taps EXCEPT ![i].timer = Off]
           k == [do |-> "keyUp", i |-> i, at |-> e.at, from |-> e.from]
           up == <<k>> \o t
           on == undecided # None
           ks == Keys(taps)
           C == Call(Slot)
<1>1. /\ agenda # <<>> /\ e.do = "keymap" /\ ~e.down /\ e.pos \in HoldTaps /\ mine # {}
      /\ UNCHANGED <<build, captured, held, serial, seen>>
  BY DEF BindingReleased, Doing, settings, input
<1>2. \/ Decide(tp, i, "timer", up)
      \/ taps' = tp /\ agenda' = up /\ UNCHANGED undecided
  BY DEF BindingReleased
<1>3. /\ Types /\ agenda \in Seq(C) /\ t \in Seq(C) /\ NoKeymap(t) /\ Owned(agenda, captured, on)
      /\ DOMAIN captured \subseteq Nat \ {0} /\ \A j \in DOMAIN captured : ~Closes(captured[j])
      /\ DOMAIN ks = Slot /\ \A j \in Slot : ks[j] = taps[j].pos
  BY <1>1, Ready DEF Handles
<1>4. e \in KeyEvent({"pos", "after", "keymap"})
  BY <1>1, <1>3, Basics, CallFields
<1>5. i \in Slot /\ taps[i].pos = e.pos
  <2>1. mine \subseteq Nat
    BY DEF Slot
  <2>2. \A j \in mine : j \in Slot /\ taps[j].pos = e.pos
    OBVIOUS
  <2> HIDE DEF mine
  <2> QED
    BY <1>1, <2>1, <2>2, MinIs
<1> HIDE DEF mine, i, ks
<1>6. Counts(e) /\ e.pos # NoKey
  <2>1. e.pos \notin Ignored
    BY <1>1 DEF SettingsInv
  <2> QED
    BY <1>4, <2>1, EventHas, HoldTapAssumption
<1>7. /\ DOMAIN tp = Slot
      /\ \A j \in Slot : TapShape(tp[j]) /\ tp[j].pos = taps[j].pos /\ tp[j].status = taps[j].status
                         /\ (j # i => tp[j].timer = taps[j].timer)
  BY <1>3, <1>5 DEF Types, TapShape
<1>8. k \in C /\ k.do = "keyUp" /\ k.i = i
  BY <1>4, <1>5 DEF KeyEvent, Call
<1> HIDE DEF C, k, tp
<1>9. i \in DOMAIN ks /\ ks[i] = e.pos /\ \A m \in DOMAIN ks : ks[m] = e.pos => m = i
  BY <1>3, <1>5, <1>6 DEF LineInv, TapsIn
<1>10. /\ Going(up, captured, on, ks, held, serial, seen)
       /\ \A m : Ends(up, m) <=> m = i \/ Ends(agenda, m)
  <2>1. Going(agenda, captured, on, ks, held, serial, seen)
    BY DEF LineInv, ks
  <2> QED
    BY <1>1, <1>3, <1>6, <1>8, <1>9, <2>1, GoEnding
<1>11. \A D, m : Has(agenda, D, m) <=> (e.do \in D /\ e.i = m) \/ Has(t, D, m)
  BY <1>1, <1>3, HasHead
<1>12. \A D, m : Has(up, D, m) <=> (k.do \in D /\ k.i = m) \/ Has(t, D, m)
  BY <1>3, <1>8, HasCons
<1>13. NoKeymap(up) /\ up \in Seq(C)
  <2>1. k.do # "keymap"
    BY <1>8
  <2> HIDE DEF t
  <2> QED
    BY <1>3, <1>8, <2>1, NoKeymapCons, Before1
<1> HIDE DEF up, e, t
<1>14. /\ Going(agenda', captured, undecided' # None, ks, held, serial, seen)
       /\ DOMAIN taps' = Slot /\ \A j \in Slot : taps'[j].pos = taps[j].pos
       /\ \A m : Ends(agenda', m) <=> Ends(up, m)
       /\ \/ undecided' = None
          \/ undecided' = undecided /\ agenda' = up /\ taps' = tp
  <2>1. CASE Decide(tp, i, "timer", up)
    BY <1>1, <1>3, <1>5, <1>7, <1>10, <1>13, <2>1, DecideMoves DEF C
  <2>2. CASE taps' = tp /\ agenda' = up /\ UNCHANGED undecided
    BY <1>7, <1>10, <2>2
  <2> QED
    BY <1>2, <2>1, <2>2
<1>15. TapsIn(taps', agenda')
  BY <1>5, <1>6, <1>10, <1>14 DEF LineInv, TapsIn
<1>16. Awaited(taps', undecided', agenda', captured')
  <2>1. CASE undecided' = None
    BY <2>1 DEF Awaited
  <2>2. CASE undecided' = undecided /\ agenda' = up /\ taps' = tp
    <3>1. undecided # None => undecided \in Slot
      BY <1>3 DEF Types
    <3>2. Awaited(taps, undecided, agenda, captured)
      BY DEF LineInv
    <3>3. \A m : Has(agenda, {"keyUp", "pressed"}, m) => Has(up, {"keyUp", "pressed"}, m)
      BY <1>1, <1>11, <1>12
    <3>4. \A m : Has(up, {"released"}, m) => Has(agenda, {"released"}, m)
      BY <1>8, <1>11, <1>12
    <3>5. Has(up, {"keyUp", "pressed"}, i)
      BY <1>8, <1>12
    <3> QED
      BY <1>1, <1>7, <2>2, <3>1, <3>2, <3>3, <3>4, <3>5 DEF Awaited
  <2> QED
    BY <1>14, <2>1, <2>2
<1>17. Keys(taps') = ks
  BY <1>3, <1>14 DEF Keys, ks, Types
<1> QED
  BY <1>1, <1>3, <1>14, <1>15, <1>16, <1>17, LineNext

LEMMA ReleasedLines ==
  ASSUME CallsInv, LineInv, Released
  PROVE  LineInv'
<1> DEFINE e == Head(agenda)
           i == Head(agenda).i
           t == Tail(agenda)
           h == taps[i]
           c == Config[h.pos]
           retro == c.retro /\ h.status = "holdTimer"
           s == IF retro THEN "tap" ELSE h.status
           A == IF retro THEN PressBinding(h, "tap") ELSE <<>>
           B == ReleaseBinding(h, s)
           up == Code(Hold(h.pos), FALSE, h.at)
           tup == Code(Tap(h.pos), FALSE, h.at)
           D == IF c.early /\ c.linger THEN <<up>> ELSE <<>>
           AB == A \o B
           cs == AB \o D
           C == Call(Slot)
           on == undecided # None
<1>1. /\ agenda # <<>> /\ Head(agenda).do = "released"
      /\ UNCHANGED <<build, undecided, captured, held, serial, seen>>
      /\ taps' = [taps EXCEPT ![i] = Unused]
      /\ agenda' = cs \o t
  BY DEF Released, Doing, settings, input
<1>2. /\ Types /\ agenda \in Seq(C) /\ t \in Seq(C) /\ Owned(agenda, captured, on)
      /\ \A j \in DOMAIN captured : ~Closes(captured[j])
      /\ \A n \in DOMAIN agenda : Closes(agenda[n]) => agenda[n].i \in Slot
  BY <1>1, Ready
<1>3. i \in Slot
  BY <1>1, <1>2, Basics, CallFields
<1>4. cs \in Seq(Sent)
  <2>1. h.pos \in Position \cup {NoKey} /\ h.at \in Int
    BY <1>2, <1>3 DEF Types, TapShape
  <2>2. up \in Sent /\ tup \in Sent
    BY <2>1, CodeIs
  <2>3. B = <<>> \/ B = <<tup>> \/ B = <<up>>
    BY DEF ReleaseBinding
  <2>4. PressBinding(h, "tap") \in Seq(Sent)
    BY <2>1, PressCodes DEF Codes
  <2> DEFINE P == PressBinding(h, "tap")
  <2>5. (A = P \/ A = <<>>) /\ (D = <<up>> \/ D = <<>>)
    OBVIOUS
  <2> HIDE DEF up, tup, A, B, D, P
  <2>7. A \in Seq(Sent) /\ B \in Seq(Sent) /\ D \in Seq(Sent)
    <3>1. <<>> \in Seq(Sent) /\ <<up>> \in Seq(Sent) /\ <<tup>> \in Seq(Sent) /\ P \in Seq(Sent)
      BY <2>2, <2>4 DEF P
    <3> QED
      BY <2>3, <2>5, <3>1
  <2>6. AB \in Seq(Sent)
    BY <2>7, JoinCodes
  <2> HIDE DEF AB
  <2> QED
    BY <2>6, <2>7, JoinCodes
<1> HIDE DEF cs
<1>5. /\ DOMAIN taps' = Slot /\ taps'[i].pos = NoKey
      /\ \A j \in Slot : j # i => taps'[j] = taps[j]
  BY <1>1, <1>2, <1>3 DEF Types, Unused
<1>6. /\ DOMAIN Keys(taps') = DOMAIN Keys(taps) /\ DOMAIN Keys(taps) = Slot
      /\ \A m \in DOMAIN Keys(taps) : IF m = i THEN Keys(taps')[m] = NoKey ELSE Keys(taps')[m] = Keys(taps)[m]
  BY <1>2, <1>5 DEF Keys, Types
<1>7. Closes(Head(agenda))
  BY <1>1 DEF Closes
<1> DEFINE ks == Keys(taps)
           ks2 == Keys(taps')
<1> HIDE DEF C, ks, ks2, i
<1>8. /\ Going(t, captured, on, ks2, held, serial, seen)
      /\ \A m : Ends(t, m) <=> Ends(agenda, m) /\ m # i
  <2>1. Going(agenda, captured, on, ks, held, serial, seen)
    BY DEF LineInv, ks
  <2>2. /\ DOMAIN ks2 = DOMAIN ks /\ DOMAIN ks = Slot
        /\ \A m \in DOMAIN ks : IF m = Head(agenda).i THEN ks2[m] = NoKey ELSE ks2[m] = ks[m]
    BY <1>6 DEF ks, ks2, i
  <2>3. \A n \in DOMAIN agenda : Closes(agenda[n]) => agenda[n].i \in DOMAIN ks
    BY <1>2, <2>2
  <2>4. /\ Going(Tail(agenda), captured, on, ks2, held, serial, seen)
        /\ \A m : Ends(Tail(agenda), m) <=> Ends(agenda, m) /\ m # Head(agenda).i
    BY <1>1, <1>2, <1>7, <2>1, <2>2, <2>3, GoEnded
  <2> QED
    BY <2>4 DEF i
<1>9. cs \in Seq(C) /\ \A n \in DOMAIN cs : Silent(cs[n])
  BY <1>4, SentIsCall, SilentCodes DEF C
<1>10. \A DD, m : Has(agenda, DD, m) <=> (e.do \in DD /\ e.i = m) \/ Has(t, DD, m)
  BY <1>1, <1>2, HasHead
<1> HIDE DEF t
<1>11. Going(cs \o t, captured, on, ks2, held, serial, seen)
  BY <1>2, <1>8, <1>9, GoCodes
<1>12. \A m : Ends(cs \o t, m) <=> Ends(t, m)
  BY <1>2, <1>9, CodesHave
<1>13. \A DD, m : "code" \notin DD => (Has(cs \o t, DD, m) <=> Has(t, DD, m))
  BY <1>2, <1>4, <1>9, HasCodes
<1>14. TapsIn(taps', agenda')
  BY <1>1, <1>3, <1>5, <1>8, <1>12 DEF LineInv, TapsIn
<1>15. Awaited(taps', undecided', agenda', captured')
  <2>1. undecided # None => undecided \in Slot
    BY <1>2 DEF Types
  <2>2. Awaited(taps, undecided, agenda, captured)
    BY DEF LineInv
  <2>3. undecided # None => undecided # i
    BY <1>1, <1>10, <2>2 DEF Awaited, i
  <2>4. \A m : Has(agenda, {"keyUp", "pressed"}, m) => Has(agenda', {"keyUp", "pressed"}, m)
    BY <1>1, <1>10, <1>13
  <2>5. \A m : Has(agenda', {"released"}, m) => Has(agenda, {"released"}, m)
    BY <1>1, <1>10, <1>13
  <2> QED
    BY <1>1, <1>5, <2>1, <2>2, <2>3, <2>4, <2>5 DEF Awaited
<1> QED
  BY <1>1, <1>2, <1>5, <1>11, <1>14, <1>15, LineNext DEF ks2

\* No hold-tap is active for a key whose press comes next.
LEMMA PressedFirst ==
  ASSUME CallsInv, LineInv, agenda # <<>>, Head(agenda).do \in {"pos", "after", "keymap"},
         Counts(Head(agenda)), Head(agenda).down,
         undecided # None => NoneOf(Head(agenda).pos, captured),
         NEW i \in Slot, taps[i].pos = Head(agenda).pos
  PROVE  FALSE
<1> DEFINE e == Head(agenda)
           t == Tail(agenda)
           ks == Keys(taps)
           C == Call(Slot)
<1>1. /\ Types /\ agenda \in Seq(C) /\ t \in Seq(C) /\ Owned(agenda, captured, undecided # None)
      /\ DOMAIN ks = Slot /\ \A j \in Slot : ks[j] = taps[j].pos
      /\ \A n \in DOMAIN agenda : Closes(agenda[n]) => agenda[n].i \in Slot
  BY Ready
<1>2. e \in KeyEvent({"pos", "after", "keymap"})
  BY <1>1, Basics, CallFields
<1>3. e.pos # NoKey
  BY <1>2, EventHas, HoldTapAssumption
<1> HIDE DEF C, ks
<1>4. /\ InLine(agenda, captured, undecided # None, ks)
      /\ EventsInv(Events(agenda, captured), held, serial, seen, ActiveKeys(agenda, ks))
  BY DEF LineInv, Going, ks
<1>5. CASE Ends(agenda, i)
  <2>1. PICK n \in DOMAIN agenda : Closes(agenda[n]) /\ agenda[n].i = i
    BY <1>5 DEF Ends
  <2>2. 1 \in DOMAIN agenda /\ agenda[1] = e /\ DOMAIN agenda \subseteq Nat \ {0}
    BY <1>1, Behind
  <2>3. n # 1
    BY <2>1, <2>2 DEF Closes
  <2>4. 1 < n
    BY <2>2, <2>3
  <2>5. Line(e, agenda[n], ks)
    BY <1>4, <2>2, <2>4 DEF InLine
  <2>6. e.pos # ks[i]
    BY <2>1, <2>5 DEF Line
  <2> QED
    BY <1>1, <2>6
<1>6. CASE ~Ends(agenda, i)
  <2>1. ks[i] = e.pos /\ i \in DOMAIN ks
    BY <1>1
  <2>2. Events(agenda, captured) = Events(t, captured) \cup {Rec(e)}
    BY <1>1, HeadHas
  <2> HIDE DEF e, t
  <2>3. e.pos \in ActiveKeys(agenda, ks)
    BY <1>3, <1>6, <2>1, ActiveAre
  <2>4. Follows(Events(agenda, captured), held, e.pos)
    BY <1>4, <2>3 DEF EventsInv
  <2>5. Rec(e).pos = e.pos /\ Rec(e).n = e.n /\ Rec(e).down = e.down /\ Rec(e) \in Events(agenda, captured)
    BY <2>2 DEF Rec
  <2>6. e.down
    BY DEF e
  <2>7. PICK z \in Events(agenda, captured) : z.pos = e.pos /\ ~z.down /\ z.n < e.n
    BY <2>4, <2>5, <2>6 DEF Follows
  <2>8. z \in Events(t, captured)
    BY <2>2, <2>5, <2>6, <2>7
  <2>9. Sooner(e, z)
    <3>1. \/ Sooner(Head(agenda), z)
          \/ undecided # None /\ \E j \in DOMAIN captured : Taken(captured, 1, j) /\ Counts(captured[j]) /\ z = Rec(captured[j])
      BY <1>1, <1>4, <2>8, HeadFirst DEF t
    <3>2. undecided # None => NoneOf(e.pos, captured)
      BY DEF e
    <3>3. ASSUME NEW j \in DOMAIN captured, Taken(captured, 1, j), Counts(captured[j]), z = Rec(captured[j]),
                 undecided # None
          PROVE  FALSE
      BY <2>7, <3>2, <3>3 DEF NoneOf, Rec
    <3> QED
      BY <3>1, <3>3 DEF e
  <2>10. e.n \in Nat /\ z.n \in Nat
    BY <1>2, <1>4, <2>7, EventSame DEF EventsInv, Fresh
  <2> QED
    BY <2>7, <2>9, <2>10 DEF Sooner
<1> QED
  BY <1>5, <1>6

\* When the keymap has an event while no hold-tap is undecided, nothing is captured in
\* the first places.
LEMMA FirstPlaceFree ==
  ASSUME CallsInv, agenda # <<>>, Handles(Head(agenda)), undecided = None, NEW j \in DOMAIN captured
  PROVE  ~Taken(captured, 1, j)
<1> SUFFICES ASSUME Taken(captured, 1, j) PROVE FALSE
  OBVIOUS
<1>1. /\ Types /\ agenda \in Seq(Call(Slot)) /\ Owned(agenda, captured, undecided # None)
      /\ DOMAIN captured \subseteq Nat \ {0}
  BY Ready
<1>2. captured[j] # Free
  <2>1. j \in 1 .. j
    BY <1>1
  <2> QED
    BY <2>1 DEF Taken
<1>3. PICK n \in DOMAIN agenda : Covers(agenda[n], captured, j)
  BY <1>1, <1>2 DEF Owned
<1>4. agenda[n].do = "release" /\ agenda[n].i \in Nat \ {0} /\ agenda[n].i <= j
  <2>1. agenda[n] \in Call(Slot)
    BY <1>1
  <2> QED
    BY <1>3, <2>1, CallFields DEF Covers
<1>5. n - 1 \in DOMAIN Tail(agenda) /\ agenda[n] = Tail(agenda)[n - 1]
  <2>1. n # 1
    BY <1>1, <1>4, Behind DEF Handles
  <2> QED
    BY <1>1, <2>1, Behind
<1>6. InOrder(Head(agenda), agenda[n], captured, Hot)
  BY <1>1, <1>5, TailCalls DEF CallsInv
<1> DEFINE m == agenda[n].i - 1
<1>7. m \in DOMAIN captured /\ captured[m] = Free
  BY <1>4, <1>6 DEF InOrder, FreeBefore
<1>8. m \in 1 .. j
  BY <1>1, <1>4, <1>7
<1> QED
  BY <1>7, <1>8 DEF Taken

LEMMA BindingPressedLines ==
  ASSUME CallsInv, SettingsInv, LineInv, BindingPressed
  PROVE  LineInv'
<1> DEFINE e == Head(agenda)
           t == Tail(agenda)
           free == {j \in Slot : taps[j].pos = NoKey}
           i == Min(free)
           h == [Unused EXCEPT !.pos = e.pos, !.at = e.at]
           quick == QuickTap(e.pos, e.at) /\ Outcome(timing[e.pos].flavor, "quickTap") = "tap"
           P == [do |-> "pressed", i |-> i]
           rest == <<P>> \o t
           cs == PressBinding(h, "tap")
           ks == Keys(taps)
           ks2 == Keys(taps')
           C == Call(Slot)
<1>1. /\ agenda # <<>> /\ e.do = "keymap" /\ undecided = None /\ free # {} /\ e.down /\ e.pos \in HoldTaps
      /\ UNCHANGED <<build, captured, held, serial>>
      /\ taps' = [taps EXCEPT ![i] = [h EXCEPT !.status = IF quick THEN "tap" ELSE "undecided"]]
      /\ undecided' = IF quick THEN None ELSE i
      /\ agenda' = (IF quick THEN cs \o <<Release(1)>> ELSE <<>>) \o rest
      /\ seen' = Seen(e)
  BY DEF BindingPressed, Doing, settings, input
<1> HIDE DEF quick
<1>2. /\ Types /\ agenda \in Seq(C) /\ t \in Seq(C) /\ Owned(agenda, captured, undecided # None) /\ NoKeymap(t)
      /\ DOMAIN captured \subseteq Nat \ {0} /\ \A j \in DOMAIN captured : ~Closes(captured[j])
      /\ DOMAIN ks = Slot /\ \A j \in Slot : ks[j] = taps[j].pos
      /\ \A n \in DOMAIN t : Closes(t[n]) => t[n].i \in Slot
  BY <1>1, Ready DEF Handles
<1>3. e \in KeyEvent({"pos", "after", "keymap"})
  BY <1>1, <1>2, Basics, CallFields
<1>4. Counts(e) /\ e.pos # NoKey /\ seen' = e.n /\ e.pos \in Position /\ e.at \in Int
  <2>1. e.pos \notin Ignored
    BY <1>1 DEF SettingsInv
  <2> QED
    BY <1>1, <1>3, <2>1, EventHas, HoldTapAssumption DEF Seen, KeyEvent
<1>5. i \in Slot /\ taps[i].pos = NoKey
  <2>1. free \subseteq Nat
    BY DEF Slot
  <2>2. \A j \in free : j \in Slot /\ taps[j].pos = NoKey
    OBVIOUS
  <2> HIDE DEF free
  <2> QED
    BY <1>1, <2>1, <2>2, MinIs
<1>6. \A j \in Slot : taps[j].pos # e.pos
  BY <1>1, <1>4, PressedFirst
<1>7. \A j \in DOMAIN captured : ~Taken(captured, 1, j)
  BY <1>1, FirstPlaceFree DEF Handles
<1> HIDE DEF free, i
<1>8. h.pos = e.pos /\ h.at = e.at /\ DOMAIN h = {"pos", "status", "at", "other", "timer"}
  BY DEF Unused
<1>9. cs \in Seq(Sent)
  BY <1>4, <1>8, PressCodes DEF Codes
<1>10. /\ DOMAIN taps' = Slot /\ taps'[i].pos = e.pos /\ (~quick => taps'[i].status = "undecided")
       /\ \A j \in Slot : j # i => taps'[j] = taps[j]
  BY <1>1, <1>2, <1>5, <1>8 DEF Types
<1> HIDE DEF h, cs
<1>11. DOMAIN ks2 = DOMAIN ks /\ \A m \in DOMAIN ks : ks2[m] = IF m = i THEN e.pos ELSE ks[m]
  BY <1>2, <1>10 DEF Keys, Types
<1>12. P \in C /\ P.do = "pressed" /\ P.i = i
  BY <1>5 DEF Call
<1>13. Silent(P) /\ P.do # "keymap"
  BY <1>12 DEF Silent, Counts, Event, Closes
<1> HIDE DEF P, C, ks, ks2
<1> DEFINE on == undecided # None
<1>14. /\ InLine(t, captured, on, ks)
       /\ \A m : Ends(agenda, m) <=> Ends(t, m)
       /\ EventsInv(Events(t, captured), held, serial, e.n, ActiveKeys(t, ks) \cup {e.pos})
  <2>1. Going(agenda, captured, undecided # None, ks, held, serial, seen)
    BY DEF LineInv, ks
  <2>3. /\ InLine(t, captured, on, ks)
        /\ \A m : Ends(agenda, m) <=> Ends(t, m)
        /\ EventsInv(Events(t, captured), held, serial, e.n, ActiveKeys(t, ks) \cup {e.pos})
    BY <1>1, <1>2, <1>4, <2>1, SeenFirst
  <2> QED
    BY <2>3
<1>15. ~Ends(t, i) /\ ~Ends(agenda, i)
  BY <1>5, <1>14 DEF LineInv, TapsIn
<1> DEFINE q == e.pos
<1>16. \A m \in DOMAIN ks : ks2[m] = IF m = i THEN q ELSE ks[m]
  BY <1>11
<1>17. EventsInv(Events(t, captured), held, serial, e.n, ActiveKeys(t, ks) \cup {q})
  BY <1>14
<1>18. i \in DOMAIN ks /\ \A n \in DOMAIN t : Closes(t[n]) => t[n].i \in DOMAIN ks
  BY <1>2, <1>5
<1> HIDE DEF q, t, e, on
<1>26. Vacant(captured) /\ ClosesIn(t, ks) /\ Begins(ks2, ks, i, q)
  BY <1>2, <1>7, <1>11, <1>16, <1>18 DEF Vacant, ClosesIn, Begins
<1>19. /\ Going(rest, captured, TRUE, ks2, held, serial, e.n)
       /\ \A m : Ends(rest, m) <=> Ends(t, m)
  BY <1>2, <1>12, <1>13, <1>14, <1>15, <1>17, <1>26, GoPressed
<1>20. rest \in Seq(C) /\ NoKeymap(rest)
  BY <1>2, <1>12, <1>13, NoKeymapCons, Before1
<1>21. \A D, m : Has(rest, D, m) <=> (P.do \in D /\ P.i = m) \/ Has(t, D, m)
  BY <1>2, <1>12, HasCons
<1> HIDE DEF rest
<1>22. /\ Going(agenda', captured, undecided' # None, ks2, held, serial, e.n)
       /\ \A m : Ends(agenda', m) <=> Ends(rest, m)
       /\ undecided' # None => undecided' = i /\ ~quick /\ agenda' = rest
  <2>1. CASE quick
    <3>1. agenda' = (cs \o <<Release(1)>>) \o rest /\ (undecided' # None) = FALSE
      BY <1>1, <2>1
    <3>2. cs \in Seq(C) /\ \A n \in DOMAIN cs : Silent(cs[n])
      BY <1>9, SentIsCall, SilentCodes DEF C
    <3>3. /\ Going((cs \o <<Release(1)>>) \o rest, captured, FALSE, ks2, held, serial, e.n)
          /\ \A m : Ends((cs \o <<Release(1)>>) \o rest, m) <=> Ends(rest, m)
      BY <1>2, <1>19, <1>20, <3>2, GoDecided DEF C
    <3> QED
      BY <3>1, <3>3
  <2>2. CASE ~quick
    <3>1. agenda' = <<>> \o rest /\ undecided' = i
      BY <1>1, <2>2
    <3>2. agenda' = rest
      BY <1>20, <3>1
    <3>3. (undecided' # None) = TRUE
      BY <1>2, <1>5, <3>1, Basics
    <3> QED
      BY <1>19, <2>2, <3>1, <3>2, <3>3
  <2> QED
    BY <2>1, <2>2
<1>23. TapsIn(taps', agenda')
  <2>1. e.pos \in HoldTaps
    BY <1>1 DEF e
  <2>2. \A m \in Slot : Ends(agenda', m) => m # i /\ Ends(agenda, m)
    BY <1>14, <1>15, <1>19, <1>22
  <2> QED
    BY <1>5, <1>6, <1>10, <2>1, <2>2 DEF LineInv, TapsIn
<1>24. Awaited(taps', undecided', agenda', captured')
  <2> SUFFICES ASSUME undecided' # None PROVE Awaited(taps', undecided', agenda', captured')
    BY DEF Awaited
  <2>1. undecided' = i /\ ~quick /\ agenda' = rest
    BY <1>22
  <2>2. Has(agenda', {"keyUp", "pressed"}, i)
    BY <1>12, <1>21, <2>1
  <2>3. ~Has(agenda', {"released"}, i)
    <3>1. \A m : Has(t, {"released"}, m) => Ends(t, m)
      BY DEF Has, Ends, Closes
    <3> QED
      BY <1>12, <1>15, <1>21, <2>1, <3>1
  <2>4. NoneOf(e.pos, captured')
    BY <1>1, <1>7 DEF NoneOf
  <2> QED
    BY <1>4, <1>10, <2>1, <2>2, <2>3, <2>4 DEF Awaited
<1>25. seen' = e.n
  BY <1>4 DEF e
<1> QED
  BY <1>1, <1>2, <1>10, <1>22, <1>23, <1>24, <1>25, LineNext DEF ks2

\* A release that passes the listener is that of a key of which nothing is captured.
LEMMA NoneCaptured ==
  ASSUME CallsInv, LineInv, agenda # <<>>, Head(agenda).do \in {"pos", "after"}, Counts(Head(agenda)),
         ~Head(agenda).down, undecided # None, ~HaveCapturedDown(Head(agenda).pos)
  PROVE  NoneOf(Head(agenda).pos, captured)
<1> DEFINE e == Head(agenda)
           t == Tail(agenda)
           ks == Keys(taps)
           C == Call(Slot)
<1>1. /\ Types /\ agenda \in Seq(C) /\ t \in Seq(C) /\ Owned(agenda, captured, undecided # None)
      /\ DOMAIN captured = Place /\ MaxCaptured \in Nat /\ Place = 1 .. MaxCaptured
      /\ \A j \in Place : captured[j] \in Kept
  BY Ready, Basics
<1>2. e \in KeyEvent({"pos", "after", "keymap"})
  BY <1>1, Basics, CallFields
<1>3. e.n \in Nat /\ ~e.down /\ e.do \in {"pos", "after"}
  BY <1>2, EventSame
<1>4. /\ InLine(agenda, captured, undecided # None, ks)
      /\ EventsInv(Events(agenda, captured), held, serial, seen, ActiveKeys(agenda, ks))
  BY DEF LineInv, Going
<1>5. 1 \in DOMAIN agenda /\ agenda[1] = e
  BY <1>1, Behind
<1>6. Events(agenda, captured) = Events(t, captured) \cup {Rec(e)}
  BY <1>1, HeadHas
<1> HIDE DEF C, ks
<1>7. ASSUME NEW j \in DOMAIN captured, Taken(captured, 1, j), Counts(captured[j]), captured[j].pos = e.pos,
             captured[j].down
      PROVE  FALSE
  <2>1. \A k \in 1 .. j : captured[k] # Free
    <3>1. \A k \in 1 .. j : k \in DOMAIN captured
      BY <1>1
    <3> QED
      BY <1>7, <3>1 DEF Taken
  <2>2. captured[j].do = "pos"
    <3>1. \A x \in Kept : x.do \in {"free", "code", "pos"}
      BY DEF Kept, Free, Sent, KeyEvent
    <3> QED
      BY <1>1, <1>7, <3>1 DEF Counts, Event
  <2> QED
    BY <1>1, <1>7, <2>1, <2>2 DEF HaveCapturedDown
<1> SUFFICES ASSUME NEW j \in DOMAIN captured, Taken(captured, 1, j), Counts(captured[j]), captured[j].pos = e.pos
             PROVE  FALSE
  BY DEF NoneOf
<1>8. ~captured[j].down
  BY <1>7
<1>9. Counts(e)
  OBVIOUS
<1> DEFINE y == captured[j]
           E == Events(agenda, captured)
<1>10. Line(y, e, ks)
  BY <1>3, <1>4, <1>5 DEF InLine
<1>11. Rec(y) \in E /\ Rec(e) \in E
  BY <1>6, EventsAre
<1>12. /\ Rec(y).pos = e.pos /\ Rec(y).n = y.n /\ ~Rec(y).down
       /\ Rec(e).pos = e.pos /\ Rec(e).n = e.n /\ ~Rec(e).down
  BY <1>3, <1>8 DEF Rec
<1> HIDE DEF e, t, E
<1>13. y.n < e.n
  BY <1>8, <1>9, <1>10 DEF Line, Sooner
<1>14. PICK z \in E : z.pos = e.pos /\ z.down /\ z.n <= e.n
  <2>1. Alternate(E, held)
    BY <1>4 DEF EventsInv, E
  <2> HIDE DEF y
  <2> QED
    BY <1>11, <1>12, <1>13, <2>1 DEF Alternate
<1>15. z \in Events(t, captured)
  BY <1>6, <1>12, <1>14 DEF E
<1>16. /\ z.n \in Nat
  BY <1>4, <1>14 DEF E, EventsInv, Fresh
<1>17. \/ Sooner(e, z)
       \/ \E m \in DOMAIN captured : Taken(captured, 1, m) /\ Counts(captured[m]) /\ z = Rec(captured[m])
  BY <1>1, <1>4, <1>9, <1>15, HeadFirst DEF e, t
<1>18. CASE Sooner(e, z)
  BY <1>3, <1>14, <1>16, <1>18 DEF Sooner
<1>19. ASSUME NEW m \in DOMAIN captured, Taken(captured, 1, m), Counts(captured[m]), z = Rec(captured[m])
       PROVE  FALSE
  <2>1. captured[m].pos = e.pos /\ captured[m].down
    BY <1>14, <1>19 DEF Rec
  <2> QED
    BY <1>7, <1>19, <2>1 DEF e
<1> QED
  BY <1>17, <1>18, <1>19

LEMMA CaptureOrBubbleLines ==
  ASSUME CallsInv, LineInv, ~overflow', agenda # <<>>, Head(agenda).do \in {"pos", "after"}, undecided # None,
         NEW tp, DOMAIN tp = Slot,
         \A j \in Slot : /\ TapShape(tp[j]) /\ tp[j].pos = taps[j].pos /\ tp[j].status = taps[j].status
                         /\ tp[j].timer = taps[j].timer,
         CaptureOrBubble(tp, Head(agenda), Tail(agenda)), UNCHANGED <<build, held, serial, seen>>,
         Counts(Head(agenda)) /\ (Head(agenda).down \/ HaveCapturedDown(Head(agenda).pos))
            => Head(agenda).pos # taps[undecided].pos
  PROVE  LineInv'
<1> DEFINE e == Head(agenda)
           t == Tail(agenda)
           k == [[e EXCEPT !.do = "pos"] EXCEPT !.from = None]
           C == Call(Slot)
           ks == Keys(taps)
<1>1. /\ Types /\ agenda \in Seq(C) /\ t \in Seq(C) /\ NoKeymap(t) /\ Owned(agenda, captured, undecided # None)
      /\ DOMAIN captured \subseteq Nat \ {0} /\ undecided \in Slot
  BY Ready DEF Handles, Types
<1>2. e \in KeyEvent({"pos", "after", "keymap"})
  BY <1>1, Basics, CallFields
<1>3. Same(k, e) /\ ~Closes(e)
  BY <1>2, EventSame
<1>4. CASE /\ ~e.down /\ ~HaveCapturedDown(e.pos)
           /\ taps' = tp /\ agenda' = <<Bubble(e)>> \o t /\ UNCHANGED <<undecided, captured>>
  <2>1. Counts(e) => ~e.down /\ NoneOf(e.pos, captured)
    BY <1>4, NoneCaptured
  <2> QED
    BY <1>4, <2>1, LineGoesOn
<1>5. ASSUME NEW moment, e.down \/ HaveCapturedDown(e.pos),
             Capture([e EXCEPT !.do = "pos"]), Decide(tp, undecided, moment, t)
      PROVE  LineInv'
  <2>1. PICK f : FirstFree(f, captured) /\ captured' = [captured EXCEPT ![f] = k]
    BY <1>1, <1>5, CaptureMakes
  <2>2. Roomy(t, captured, f)
    <3>1. \A n \in DOMAIN t : Marked(t[n]) => TwoFreeUnder(captured, Mark(t[n]))
      BY BehindHandled DEF Handles
    <3> HIDE DEF t
    <3> QED
      BY <1>1, <2>1, <3>1, RoomBehind
  <2>3. Counts(k) => k.pos # taps[undecided].pos
    BY <1>3, <1>5 DEF Same
  <2> HIDE DEF C, k, ks
  <2>4. Owned(t, captured, TRUE)
    <3>1. (undecided # None) = TRUE /\ e.do # "release"
      OBVIOUS
    <3>2. Owned(t, captured, undecided # None)
      BY <1>1, <3>1, OwnedTail
    <3> QED
      BY <3>1, <3>2
  <2>5. Going(agenda, captured, TRUE, ks, held, serial, seen)
    <3>1. (undecided # None) = TRUE
      OBVIOUS
    <3> QED
      BY <3>1 DEF LineInv, ks
  <2>6. /\ Going(t, [captured EXCEPT ![f] = k], TRUE, ks, held, serial, seen)
        /\ \A i : Ends(agenda, i) <=> Ends(t, i)
        /\ \A p : NoneOf(p, captured) /\ (Counts(k) => k.pos # p) => NoneOf(p, [captured EXCEPT ![f] = k])
    <3>1. e.do # "keymap"
      OBVIOUS
    <3> QED
      BY <1>1, <1>3, <2>1, <2>2, <2>4, <2>5, <3>1, GoCaptured
  <2>7. /\ Going(t, captured', undecided # None, ks, held, serial, seen)
        /\ \A p : NoneOf(p, captured) /\ (Counts(k) => k.pos # p) => NoneOf(p, captured')
        /\ DOMAIN captured' \subseteq Nat \ {0}
    <3>1. (undecided # None) = TRUE
      OBVIOUS
    <3> QED
      BY <1>1, <2>1, <2>6, <3>1
  <2>8. \A D, m : Has(agenda, D, m) <=> (e.do \in D /\ e.i = m) \/ Has(t, D, m)
    BY <1>1, HasHead
  <2>9. e.do \in {"pos", "after"}
    OBVIOUS
  <2> HIDE DEF t, e
  <2>10. /\ Going(agenda', captured', undecided' # None, ks, held, serial, seen)
         /\ DOMAIN taps' = Slot /\ \A j \in Slot : taps'[j].pos = taps[j].pos
         /\ \A m : Ends(agenda', m) <=> Ends(t, m)
         /\ \/ undecided' = None
            \/ undecided' = undecided /\ agenda' = t /\ taps' = tp
    BY <1>1, <1>5, <2>7, DecideMoves DEF C
  <2>11. Awaited(taps', undecided', agenda', captured')
    <3>1. CASE undecided' = None
      BY <3>1 DEF Awaited
    <3>2. CASE undecided' = undecided /\ agenda' = t /\ taps' = tp
      <4>1. Awaited(taps, undecided, agenda, captured)
        BY DEF LineInv
      <4>2. \A m : Has(agenda, {"keyUp", "pressed"}, m) => Has(t, {"keyUp", "pressed"}, m)
        BY <2>8, <2>9
      <4>3. \A m : Has(t, {"released"}, m) => Has(agenda, {"released"}, m)
        BY <2>8
      <4>4. NoneOf(taps[undecided].pos, captured')
        BY <2>3, <2>7, <4>1 DEF Awaited
      <4> QED
        BY <1>1, <3>2, <4>1, <4>2, <4>3, <4>4 DEF Awaited
    <3> QED
      BY <2>10, <3>1, <3>2
  <2> QED
    BY <1>1, <2>6, <2>10, <2>11, StepLine DEF ks
<1> QED
  BY <1>4, <1>5 DEF CaptureOrBubble

LEMMA WhileUndecidedLines ==
  ASSUME CallsInv, SettingsInv, LineInv, WhileUndecided, ~overflow'
  PROVE  LineInv'
<1> DEFINE e == Head(agenda)
           t == Tail(agenda)
           u == taps[undecided]
           c == Config[u.pos]
           tp == IF c.onRelease # e.down /\ u.other = NoKey
                 THEN [taps EXCEPT ![undecided].other = e.pos] ELSE taps
           z == [e EXCEPT !.do = "after"]
           C == Call(Slot)
           ks == Keys(taps)
           rest == <<z>> \o t
<1>1. /\ agenda # <<>> /\ e.do = "pos" /\ undecided # None
      /\ UNCHANGED <<build, held, serial, seen>>
  BY DEF WhileUndecided, Doing, settings, input
<1>2. \/ /\ e.pos = u.pos
         /\ taps' = tp /\ agenda' = <<Bubble(e)>> \o t /\ UNCHANGED <<undecided, captured>>
      \/ Decide(tp, undecided, "timer", rest) /\ UNCHANGED captured
      \/ e.pos # u.pos /\ CaptureOrBubble(tp, e, t)
  BY DEF WhileUndecided
<1>3. /\ Types /\ undecided \in Slot /\ agenda \in Seq(C) /\ t \in Seq(C) /\ NoKeymap(t)
      /\ Owned(agenda, captured, undecided # None) /\ DOMAIN captured \subseteq Nat \ {0}
  BY <1>1, Ready DEF Handles, Types
<1>4. DOMAIN tp = Slot /\ \A j \in Slot : /\ TapShape(tp[j]) /\ tp[j].pos = taps[j].pos
                                          /\ tp[j].status = taps[j].status /\ tp[j].timer = taps[j].timer
  BY <1>3 DEF Types, TapShape
<1> HIDE DEF tp
<1>5. e \in KeyEvent({"pos", "after", "keymap"})
  BY <1>1, <1>3, Basics, CallFields
<1>6. Awaited(taps, undecided, agenda, captured) /\ NoneOf(u.pos, captured)
  BY <1>1 DEF LineInv, Awaited
<1>7. CASE e.pos = u.pos /\ taps' = tp /\ agenda' = <<Bubble(e)>> \o t /\ UNCHANGED <<undecided, captured>>
  <2>1. Counts(e) => ~e.down
    BY <1>1, <1>3, <1>6, <1>7, PressedFirst
  <2> QED
    BY <1>1, <1>3, <1>4, <1>6, <1>7, <2>1, LineGoesOn
<1>8. CASE Decide(tp, undecided, "timer", rest) /\ UNCHANGED captured
  <2>1. Same(z, e) /\ z.do = "after" /\ z \in C
    BY <1>1, <1>5, EventSame, EventIs
  <2>2. e.do # "keymap" /\ ~(undecided # None /\ z.do = "keymap" /\ Counts(z))
    BY <1>1, <2>1
  <2> HIDE DEF z, C, ks
  <2>3. Going(agenda, captured, undecided # None, ks, held, serial, seen)
    BY DEF LineInv, ks
  <2>4. Going(rest, captured, undecided # None, ks, held, serial, seen) /\ \A m : Ends(rest, m) <=> Ends(agenda, m)
    BY <1>1, <1>3, <2>1, <2>2, <2>3, GoOn
  <2>5. NoKeymap(rest) /\ rest \in Seq(C)
    <3>1. z.do # "keymap"
      BY <2>1
    <3> HIDE DEF t
    <3> QED
      BY <1>3, <2>1, <3>1, NoKeymapCons, Before1
  <2> HIDE DEF rest, e, t
  <2>6. tp[undecided].status = "undecided" /\ tp[undecided].pos \in HoldTaps
    BY <1>1, <1>3, <1>4, <1>6 DEF LineInv, Awaited, TapsIn
  <2>7. Decision(tp[undecided], "timer") # "undecided"
    BY <2>6, Decides
  <2>8. /\ Going(agenda', captured, undecided' # None, ks, held, serial, seen)
        /\ DOMAIN taps' = Slot /\ \A j \in Slot : taps'[j].pos = taps[j].pos
        /\ \A m : Ends(agenda', m) <=> Ends(rest, m)
        /\ undecided' = None
    BY <1>1, <1>3, <1>4, <1>8, <2>4, <2>5, <2>6, <2>7, DecideMoves DEF C
  <2>9. Awaited(taps', undecided', agenda', captured')
    BY <2>8 DEF Awaited
  <2> QED
    BY <1>1, <1>3, <1>8, <2>4, <2>8, <2>9, StepLine DEF ks
<1>9. CASE e.pos # u.pos /\ CaptureOrBubble(tp, e, t)
  <2>1. e.do \in {"pos", "after"}
    BY <1>1
  <2> QED
    BY <1>1, <1>4, <1>9, <2>1, CaptureOrBubbleLines
<1> QED
  BY <1>2, <1>7, <1>8, <1>9

LEMMA AfterTimerLines ==
  ASSUME CallsInv, LineInv, AfterTimer, ~overflow'
  PROVE  LineInv'
<1> DEFINE e == Head(agenda)
           t == Tail(agenda)
<1>1. agenda # <<>> /\ e.do = "after" /\ UNCHANGED <<build, held, serial, seen>>
  BY DEF AfterTimer, Doing, settings, input
<1>2. \/ undecided = None /\ agenda' = <<Bubble(e)>> \o t /\ UNCHANGED <<taps, undecided, captured>>
      \/ undecided # None /\ CaptureOrBubble(taps, e, t)
  BY DEF AfterTimer, engine
<1>3. Types /\ DOMAIN taps = Slot /\ \A j \in Slot : TapShape(taps[j])
  BY Ready DEF Types
<1>4. e \in KeyEvent({"pos", "after", "keymap"})
  BY <1>1, <1>3, Basics, CallFields
<1>5. CASE undecided = None /\ agenda' = <<Bubble(e)>> \o t /\ UNCHANGED <<taps, undecided, captured>>
  <2>1. e.do \in {"pos", "after"}
    BY <1>1
  <2> QED
    BY <1>1, <1>3, <1>5, <2>1, LineGoesOn
<1>6. CASE undecided # None /\ CaptureOrBubble(taps, e, t)
  <2>1. undecided \in Slot /\ NoneOf(taps[undecided].pos, captured)
    BY <1>3, <1>6 DEF Types, LineInv, Awaited
  <2>2. ASSUME Counts(e), e.pos = taps[undecided].pos, e.down PROVE FALSE
    BY <1>1, <2>1, <2>2, PressedFirst
  <2>3. ASSUME Counts(e), e.pos = taps[undecided].pos, HaveCapturedDown(e.pos) PROVE FALSE
    <3> DEFINE p == e.pos
    <3>1. p = taps[undecided].pos /\ p \notin Ignored /\ HaveCapturedDown(p)
      BY <2>3 DEF Counts
    <3> HIDE DEF e, p
    <3>2. PICK j \in Place : (\A k \in 1 .. j : captured[k] # Free) /\ captured[j].do = "pos" /\ captured[j].pos = p
      BY <3>1 DEF HaveCapturedDown
    <3>3. j \in DOMAIN captured /\ Taken(captured, 1, j)
      BY <1>3, <3>2, Basics DEF Taken
    <3>4. Counts(captured[j])
      BY <3>1, <3>2 DEF Counts, Event
    <3> QED
      BY <2>1, <3>1, <3>2, <3>3, <3>4 DEF NoneOf
  <2>4. e.do \in {"pos", "after"}
    BY <1>1
  <2>5. Counts(e) /\ (e.down \/ HaveCapturedDown(e.pos)) => e.pos # taps[undecided].pos
    BY <2>2, <2>3
  <2> QED
    BY <1>1, <1>3, <1>6, <2>4, <2>5, CaptureOrBubbleLines
<1> QED
  BY <1>2, <1>5, <1>6

LEMMA HasJoin ==
  ASSUME NEW S, NEW a \in Seq(S), NEW b \in Seq(S)
  PROVE  \A D, i : Has(a \o b, D, i) <=> Has(a, D, i) \/ Has(b, D, i)
<1> DEFINE u == a \o b
<1>1. /\ \A n \in DOMAIN a : n \in DOMAIN u /\ u[n] = a[n]
      /\ \A n \in DOMAIN b : Len(a) + n \in DOMAIN u /\ u[Len(a) + n] = b[n]
      /\ \A n \in DOMAIN u :
            \/ n \in DOMAIN a /\ u[n] = a[n]
            \/ n > Len(a) /\ n - Len(a) \in DOMAIN b /\ u[n] = b[n - Len(a)]
  BY Joined
<1> HIDE DEF u
<1>2. \A D, i : Has(u, D, i) <=> Has(a, D, i) \/ Has(b, D, i)
  BY <1>1 DEF Has
<1> QED
  BY <1>2 DEF u

LEMMA ReleaseCapturedLines ==
  ASSUME CallsInv, LineInv, ReleaseCaptured
  PROVE  LineInv'
<1> DEFINE i == Head(agenda).i
           t == Tail(agenda)
           e == [captured[i] EXCEPT !.from = i]
           r == Release(i + 1)
           on == undecided # None
           C == Call(Slot)
           ks == Keys(taps)
<1>1. /\ agenda # <<>> /\ Head(agenda).do = "release"
      /\ UNCHANGED <<build, taps, undecided, held, serial, seen>>
  BY DEF ReleaseCaptured, Doing, settings
<1>2. IF i > MaxCaptured \/ captured[Min({i, MaxCaptured})] = Free
        THEN agenda' = t /\ UNCHANGED captured
        ELSE /\ captured' = [captured EXCEPT ![i] = Free]
             /\ agenda' = <<e, r>> \o t
  BY DEF ReleaseCaptured
<1>3. /\ Types /\ agenda \in Seq(C) /\ t \in Seq(C) /\ NoKeymap(t)
      /\ DOMAIN captured = Place /\ DOMAIN captured \subseteq Nat \ {0}
      /\ \A j \in DOMAIN captured : ~Closes(captured[j])
  BY <1>1, Ready
<1>4. /\ i \in Nat \ {0} /\ MaxCaptured \in Nat /\ Place = 1 .. MaxCaptured
      /\ \A j \in Place : captured[j] \in Kept
  BY <1>1, <1>3, Basics, CallFields
<1>5. i <= MaxCaptured => Min({i, MaxCaptured}) = i /\ i \in Place
  <2> HIDE DEF i
  <2>1. Min({i, MaxCaptured}) \in {i, MaxCaptured} /\ \A y \in {i, MaxCaptured} : Min({i, MaxCaptured}) <= y
    BY <1>4, MinIs
  <2> QED
    BY <1>4, <2>1
<1>6. DOMAIN taps' = Slot /\ \A j \in Slot : /\ taps'[j].pos = taps[j].pos /\ taps'[j].status = taps[j].status
                                             /\ taps'[j].timer = taps[j].timer
  BY <1>1, <1>3 DEF Types
<1>7. Going(agenda, captured, on, ks, held, serial, seen)
  BY DEF LineInv
<1>8. CASE i > MaxCaptured \/ captured[Min({i, MaxCaptured})] = Free
  <2>1. agenda' = t /\ UNCHANGED captured
    BY <1>2, <1>8
  <2>2. ~Counts(Head(agenda)) /\ ~Closes(Head(agenda))
    BY <1>1 DEF Counts, Event, Closes
  <2> HIDE DEF C, ks
  <2>3. Going(t, captured, on, ks, held, serial, seen)
    BY <1>1, <1>3, <1>7, <2>2, GoTail
  <2>4. <<>> \in Seq(Sent) /\ agenda' = <<>> \o t
    BY <1>3, <2>1
  <2>5. /\ Head(agenda).do \notin {"keyUp", "released"} /\ Head(agenda).do # "pressed"
        /\ \A p : NoneOf(p, captured) => NoneOf(p, captured')
        /\ Going(t, captured', on, ks, held', serial', seen')
    BY <1>1, <2>1, <2>3
  <2> QED
    BY <1>1, <1>6, <2>4, <2>5, LineLeft DEF ks
<1>9. CASE ~(i > MaxCaptured \/ captured[Min({i, MaxCaptured})] = Free)
  <2>1. captured' = [captured EXCEPT ![i] = Free] /\ agenda' = <<e, r>> \o t
    BY <1>2, <1>9
  <2>2. i \in DOMAIN captured /\ captured[i] # Free
    <3> HIDE DEF i
    <3> QED
      BY <1>3, <1>4, <1>5, <1>9
  <2>3. e \in C /\ e.do \in {"pos", "code"} /\ Same(e, captured[i])
    <3>1. captured[i] \in Sent \cup KeyEvent({"pos"})
      BY <1>3, <1>4, <2>2 DEF Kept
    <3> HIDE DEF i
    <3>2. CASE captured[i] \in Sent
      <4>1. e \in Sent /\ e.do = "code" /\ captured[i].do = "code"
        BY <1>4, <3>2 DEF Sent
      <4> QED
        BY <4>1 DEF Call, Same, Counts, Event, Closes
    <3>3. CASE captured[i] \in KeyEvent({"pos"})
      <4>1. /\ e \in KeyEvent({"pos", "after", "keymap"}) /\ e.do = "pos" /\ captured[i].do = "pos"
            /\ e.pos = captured[i].pos /\ e.n = captured[i].n /\ e.down = captured[i].down
        BY <1>4, <3>3 DEF KeyEvent
      <4> QED
        BY <4>1 DEF Call, Same, Counts, Event, Closes
    <3> QED
      BY <3>1, <3>2, <3>3
  <2>4. \A n \in DOMAIN t : t[n].do = "release" => t[n].i \in Nat /\ i < t[n].i
    <3> SUFFICES ASSUME NEW n \in DOMAIN t, t[n].do = "release" PROVE t[n].i \in Nat /\ i < t[n].i
      OBVIOUS
    <3>1. t[n] \in C
      BY <1>3
    <3>2. InOrder(Head(agenda), t[n], captured, Hot)
      BY <1>1, <1>3, TailCalls DEF CallsInv
    <3> QED
      BY <1>1, <3>1, <3>2, CallFields DEF InOrder, Marked, Mark, Handles
  <2>5. r \in C /\ r.do = "release"
    BY <1>4 DEF Call, Release
  <2>6. i = Head(agenda).i /\ ~Closes(captured[i]) /\ e.do # "keymap"
    BY <1>3, <2>2, <2>3
  <2>7. \A DD, m : Has(agenda, DD, m) <=> (Head(agenda).do \in DD /\ Head(agenda).i = m) \/ Has(t, DD, m)
    BY <1>1, <1>3, HasHead
  <2> HIDE DEF i, e, ks, on
  <2>8. /\ Going(<<e, Release(i + 1)>> \o t, [captured EXCEPT ![i] = Free], on, ks, held, serial, seen)
        /\ \A m : Ends(<<e, Release(i + 1)>> \o t, m) <=> Ends(agenda, m)
        /\ \A p : NoneOf(p, captured) => NoneOf(p, [captured EXCEPT ![i] = Free])
    BY <1>1, <1>3, <1>7, <2>2, <2>3, <2>4, <2>6, GoRaised
  <2>9. \A DD, m : DD \subseteq {"keyUp", "pressed", "released"} =>
           (Has(<<e, r>> \o t, DD, m) <=> Has(t, DD, m))
    <3> HIDE DEF C, r, t
    <3>1. <<e, r>> \in Seq(C) /\ DOMAIN <<e, r>> = {1, 2} /\ <<e, r>>[1] = e /\ <<e, r>>[2] = r
      BY <2>3, <2>5
    <3>2. \A DD, m : DD \subseteq {"keyUp", "pressed", "released"} => ~Has(<<e, r>>, DD, m)
      BY <2>3, <2>5, <3>1 DEF Has
    <3>3. \A DD, m : Has(<<e, r>> \o t, DD, m) <=> Has(<<e, r>>, DD, m) \/ Has(t, DD, m)
      BY <1>3, <3>1, HasJoin
    <3> QED
      BY <3>2, <3>3
  <2>10. Awaited(taps', undecided', agenda', captured')
    <3>1. undecided # None => undecided \in Slot
      BY <1>3 DEF Types
    <3>2. Awaited(taps, undecided, agenda, captured)
      BY DEF LineInv
    <3>3. \A m : Has(agenda, {"keyUp", "pressed"}, m) => Has(agenda', {"keyUp", "pressed"}, m)
      BY <1>1, <2>1, <2>7, <2>9
    <3>4. \A m : Has(agenda', {"released"}, m) => Has(agenda, {"released"}, m)
      BY <1>1, <2>1, <2>7, <2>9
    <3>5. \A p : NoneOf(p, captured) => NoneOf(p, captured')
      BY <2>1, <2>8
    <3> QED
      BY <1>1, <1>6, <3>1, <3>2, <3>3, <3>4, <3>5 DEF Awaited
  <2> QED
    BY <1>1, <1>3, <1>6, <2>1, <2>8, <2>10, StepLine DEF ks, on
<1> QED
  BY <1>8, <1>9

LEMMA SettingsKeep ==
  ASSUME Plain, Types, Types', SettingsInv, [Next]_vars
  PROVE  SettingsInv'
<1>1. CASE UNCHANGED <<build, timing>> /\ now' \in {now, now + 1}
  <2>1. HoldTaps' = HoldTaps /\ Ignored' = Ignored /\ timing' = timing
    BY <1>1 DEF HoldTaps, Ignored, Config
  <2>2. now' \in Nat
    BY <1>1 DEF SettingsInv
  <2> QED
    BY <2>1, <2>2 DEF SettingsInv
<1>2. ASSUME NEW p \in HoldTaps, NEW f \in DOMAIN Edits[p], NEW v \in Edits[p][f], CopyField(p, f, v)
      PROVE  SettingsInv'
  <2>1. build' = build /\ now' = now /\ timing' = [timing EXCEPT ![p][f] = v]
    BY <1>2 DEF CopyField, input
  <2>2. HoldTaps' = HoldTaps /\ Ignored' = Ignored
    BY <2>1 DEF HoldTaps, Ignored, Config
  <2>3. /\ f = "flavor" => v \in ToSet(Flavor)
        /\ f \in {"term", "quick", "idle"} => v \in Int
    BY HoldTapAssumption DEF Plain, Types, HoldTaps, Config, Edits
  <2>4. DOMAIN timing' = HoldTaps
    BY <2>1 DEF SettingsInv
  <2>5. ASSUME NEW q \in HoldTaps
        PROVE  /\ DOMAIN timing'[q] = {"term", "quick", "idle", "flavor"}
               /\ timing'[q].flavor \in ToSet(Flavor)
               /\ timing'[q].term \in Int /\ timing'[q].quick \in Int /\ timing'[q].idle \in Int
    <3>1. /\ DOMAIN timing[q] = {"term", "quick", "idle", "flavor"}
          /\ timing[q].flavor \in ToSet(Flavor) /\ q \in DOMAIN timing
          /\ timing[q].term \in Int /\ timing[q].quick \in Int /\ timing[q].idle \in Int
      BY DEF SettingsInv
    <3>2. CASE q = p
      <4>1. timing'[p] = [timing[p] EXCEPT ![f] = v]
        BY <2>1, <3>1, <3>2
      <4> HIDE DEF ToSet
      <4> QED
        BY <2>3, <3>1, <3>2, <4>1
    <3>3. CASE q # p
      BY <2>1, <3>1, <3>3
    <3> QED
      BY <3>2, <3>3
  <2> QED
    BY <2>1, <2>2, <2>4, <2>5 DEF SettingsInv
<1>3. CASE Work
  <2>1. UNCHANGED <<build, timing>> /\ now' \in {now, now + 1}
    BY <1>3 DEF Work, UpdateRetroTaps, Bubbling, WhileUndecided, AfterTimer, ReleaseCaptured, Keycode, PlainKey,
                PressRefused, BindingPressed, Pressed, ReleaseUnknown, BindingReleased, KeyUpDecision, Released,
                settings, input
  <2> QED
    BY <1>1, <2>1
<1>4. CASE \E i \in Slot : TimerHandler(i)
  BY <1>1, <1>4 DEF TimerHandler, settings, input
<1>5. CASE \E p \in Position : KeyDown(p) \/ KeyUp(p)
  BY <1>1, <1>5 DEF KeyDown, KeyUp, settings
<1>6. CASE Tick
  BY <1>1, <1>6 DEF Tick, settings
<1>7. CASE UNCHANGED vars
  BY <1>1, <1>7 DEF vars
<1> QED
  BY <1>2, <1>3, <1>4, <1>5, <1>6, <1>7 DEF Next

LEMMA OverflowStays ==
  ASSUME overflow, [Next]_vars
  PROVE  overflow'
<1>1. CASE Work
  BY <1>1 DEF Work, UpdateRetroTaps, Bubbling, WhileUndecided, AfterTimer, ReleaseCaptured, Keycode, PlainKey,
              PressRefused, BindingPressed, Pressed, ReleaseUnknown, BindingReleased, KeyUpDecision, Released,
              CaptureOrBubble, Capture
<1>2. CASE \E i \in Slot : TimerHandler(i)
  BY <1>2 DEF TimerHandler
<1>3. CASE \E p \in Position : KeyDown(p) \/ KeyUp(p)
  BY <1>3 DEF KeyDown, KeyUp
<1>4. CASE Tick
  BY <1>4 DEF Tick
<1>5. CASE \E p \in HoldTaps : \E f \in DOMAIN Edits[p] : \E v \in Edits[p][f] : CopyField(p, f, v)
  BY <1>5 DEF CopyField
<1>6. CASE UNCHANGED vars
  BY <1>6 DEF vars
<1> QED
  BY <1>1, <1>2, <1>3, <1>4, <1>5, <1>6 DEF Next

LEMMA LineKeeps ==
  ASSUME CallsInv, SettingsInv, LineInv, Past, [Next]_vars, ~overflow'
  PROVE  LineInv'
<1>0. Types
  BY DEF CallsInv, OwnedInv
<1>1. CASE Work
  <2>1. CASE UpdateRetroTaps
    BY <2>1, UpdateRetroTapsLines
  <2>2. CASE Bubbling
    BY <2>2, BubblingLines
  <2>3. CASE WhileUndecided
    BY <2>3, WhileUndecidedLines
  <2>4. CASE AfterTimer
    BY <2>4, AfterTimerLines
  <2>5. CASE ReleaseCaptured
    BY <2>5, ReleaseCapturedLines
  <2>6. CASE Keycode
    BY <2>6, KeycodeLines
  <2>7. CASE PlainKey
    BY <2>7, PlainKeyLines
  <2>8. CASE PressRefused \/ ReleaseUnknown
    BY <2>8, RefusedLines
  <2>9. CASE BindingPressed
    BY <2>9, BindingPressedLines
  <2>10. CASE Pressed
    BY <2>10, PressedLines
  <2>11. CASE BindingReleased
    BY <2>11, BindingReleasedLines
  <2>12. CASE KeyUpDecision
    BY <2>12, KeyUpDecisionLines
  <2>13. CASE Released
    BY <2>13, ReleasedLines
  <2> QED
    BY <1>1, <2>1, <2>2, <2>3, <2>4, <2>5, <2>6, <2>7, <2>8, <2>9, <2>10, <2>11, <2>12, <2>13 DEF Work
<1>2. CASE \E i \in Slot : TimerHandler(i)
  BY <1>2, TimerHandlerLines
<1>3. CASE \E p \in Position : KeyDown(p) \/ KeyUp(p)
  BY <1>3, KeyLines
<1>4. CASE Tick
  <2>1. UNCHANGED <<build, taps, undecided, captured, agenda, held, serial, seen>>
    BY <1>4 DEF Tick, settings, engine
  <2> QED
    BY <1>0, <2>1, QuietLines
<1>5. ASSUME NEW p \in HoldTaps, NEW f \in DOMAIN Edits[p], NEW v \in Edits[p][f], CopyField(p, f, v)
      PROVE  LineInv'
  <2>1. UNCHANGED <<build, taps, undecided, captured, agenda, held, serial, seen>>
    BY <1>5 DEF CopyField, engine, input
  <2> QED
    BY <1>0, <2>1, QuietLines
<1>6. CASE UNCHANGED vars
  <2>1. UNCHANGED <<build, taps, undecided, captured, agenda, held, serial, seen>>
    BY <1>6 DEF vars
  <2> QED
    BY <1>0, <2>1, QuietLines
<1> QED
  BY <1>1, <1>2, <1>3, <1>4, <1>5, <1>6 DEF Next

LEMMA InitLines ==
  ASSUME Plain, Init
  PROVE  SettingsInv /\ LineInv
<1>1. /\ build \in Builds /\ timing = DtTiming /\ taps = [i \in Slot |-> Unused] /\ undecided = None
      /\ captured = [j \in Place |-> Free] /\ agenda = <<>> /\ now = 1 /\ held = {} /\ serial = 0 /\ seen = 0
  BY DEF Init
<1>2. SettingsInv
  <2>1. DOMAIN timing = HoldTaps
    BY <1>1, HoldTapAssumption DEF DtTiming, HoldTaps, Config
  <2>2. HoldTaps \cap Ignored = {}
    BY <1>1 DEF Plain, HoldTaps, Config, Ignored
  <2>3. \A p \in HoldTaps : /\ DOMAIN timing[p] = {"term", "quick", "idle", "flavor"}
                             /\ timing[p].flavor \in ToSet(Flavor)
                             /\ timing[p].term \in Int /\ timing[p].quick \in Int /\ timing[p].idle \in Int
    BY <1>1, HoldTapAssumption DEF Plain, HoldTaps, Config, DtTiming
  <2>4. now \in Nat
    BY <1>1
  <2> QED
    BY <2>1, <2>2, <2>3, <2>4 DEF SettingsInv
<1>3. DOMAIN agenda = {} /\ (undecided # None) = FALSE
  BY <1>1
<1>4. ~Counts(Free) /\ ~Closes(Free) /\ ~Event(Free)
  BY DEF Counts, Event, Closes, Free
<1>5. \A x : Line(Free, x, Keys(taps)) /\ Line(x, Free, Keys(taps))
  BY <1>4 DEF Line
<1>6. InLine(agenda, captured, undecided # None, Keys(taps))
  BY <1>1, <1>3, <1>5 DEF InLine
<1>7. KeymapClear(agenda, captured, undecided # None)
  BY <1>3 DEF KeymapClear
<1>8. Events(agenda, captured) = {}
  <2>1. \A z : z \notin Events(agenda, captured)
    <3>1. \A j \in DOMAIN captured : captured[j] = Free
      BY <1>1
    <3> QED
      BY <1>3, <1>4, <3>1, EventsAre
  <2> QED
    BY <2>1
<1>9. ActiveKeys(agenda, Keys(taps)) = {}
  <2>1. \A i \in DOMAIN Keys(taps) : Keys(taps)[i] = NoKey
    BY <1>1 DEF Keys, Unused
  <2> QED
    BY <2>1 DEF ActiveKeys
<1>10. EventsInv(Events(agenda, captured), held, serial, seen, ActiveKeys(agenda, Keys(taps)))
  BY <1>1, <1>8, <1>9 DEF EventsInv, Alternate, Fresh
<1>11. TapsIn(taps, agenda)
  BY <1>1, <1>3 DEF TapsIn, Ends, Unused
<1>12. Awaited(taps, undecided, agenda, captured)
  BY <1>1 DEF Awaited
<1> QED
  BY <1>2, <1>6, <1>7, <1>10, <1>11, <1>12 DEF LineInv, Going

-----------------------------------------------------------------------------
(* Calls as sets. *)

\* Every event of Y is one of Z, maybe at another stage.
Comes(Y, Z) ==
    \A y \in Y : Event(y) => \E z \in Z : Event(z) /\ z.pos = y.pos /\ z.down = y.down /\ z.at = y.at

LEMMA SetJoin ==
  ASSUME NEW S, NEW a \in Seq(S), NEW b \in Seq(S)
  PROVE  ToSet(a \o b) = ToSet(a) \cup ToSet(b)
<1> DEFINE u == a \o b
<1>1. /\ \A n \in DOMAIN a : n \in DOMAIN u /\ u[n] = a[n]
      /\ \A n \in DOMAIN b : Len(a) + n \in DOMAIN u /\ u[Len(a) + n] = b[n]
      /\ \A n \in DOMAIN u :
            \/ n \in DOMAIN a /\ u[n] = a[n]
            \/ n > Len(a) /\ n - Len(a) \in DOMAIN b /\ u[n] = b[n - Len(a)]
  BY Joined
<1> HIDE DEF u
<1>2. ToSet(u) = ToSet(a) \cup ToSet(b)
  BY <1>1 DEF ToSet
<1> QED
  BY <1>2 DEF u

LEMMA SetCons ==
  ASSUME NEW S, NEW x \in S, NEW t \in Seq(S)
  PROVE  ToSet(<<x>> \o t) = {x} \cup ToSet(t)
<1> DEFINE u == <<x>> \o t
<1>1. /\ 1 \in DOMAIN u /\ u[1] = x
      /\ \A n \in DOMAIN t : n + 1 \in DOMAIN u /\ u[n + 1] = t[n]
      /\ \A n \in DOMAIN u : n = 1 \/ (n - 1 \in DOMAIN t /\ u[n] = t[n - 1])
  BY Before1
<1> HIDE DEF u
<1>2. ToSet(u) = {x} \cup ToSet(t)
  BY <1>1 DEF ToSet
<1> QED
  BY <1>2 DEF u

LEMMA SetHead ==
  ASSUME NEW S, NEW s \in Seq(S), s # <<>>
  PROVE  ToSet(s) = {Head(s)} \cup ToSet(Tail(s)) /\ ToSet(s) \subseteq S /\ ToSet(Tail(s)) \subseteq S
<1>1. s = <<Head(s)>> \o Tail(s) /\ Head(s) \in S /\ Tail(s) \in Seq(S)
  BY Behind
<1> DEFINE x == Head(s)
           t == Tail(s)
<1>2. x \in S /\ t \in Seq(S) /\ s = <<x>> \o t
  BY <1>1
<1> HIDE DEF x, t
<1>3. ToSet(s) = {x} \cup ToSet(t)
  BY <1>2, SetCons
<1>4. ToSet(s) \subseteq S /\ ToSet(t) \subseteq S
  BY <1>2 DEF ToSet
<1> QED
  BY <1>3, <1>4 DEF x, t

\* The hold-tap that is being told its key is up.
Ending(ag) == IF ag # <<>> /\ Head(ag).do = "keyUp" THEN Head(ag).i ELSE None

LEMMA EndingCons ==
  ASSUME NEW S, NEW x \in S, NEW t \in Seq(S), x.do # "keyUp"
  PROVE  Ending(<<x>> \o t) = None
<1>1. <<x>> \o t # <<>> /\ Head(<<x>> \o t) = x
  OBVIOUS
<1> QED
  BY <1>1 DEF Ending

LEMMA EndingCodes ==
  ASSUME NEW S, NEW cs \in Seq(Sent), cs \in Seq(S), NEW t \in Seq(S)
  PROVE  Ending(cs \o t) = None \/ cs \o t = t
<1>1. CASE cs = <<>>
  BY <1>1
<1>2. CASE cs # <<>>
  <2>1. 1 \in DOMAIN cs /\ cs[1] \in Sent
    BY <1>2
  <2> DEFINE u == cs \o t
  <2>2. 1 \in DOMAIN u /\ u[1] = cs[1] /\ u \in Seq(S)
    BY <2>1, Joined
  <2> HIDE DEF u
  <2>3. u # <<>> /\ Head(u) = u[1]
    BY <2>2
  <2>4. Head(u).do = "code"
    BY <2>1, <2>2, <2>3 DEF Sent
  <2>5. Ending(u) = None
    BY <2>4 DEF Ending
  <2> QED
    BY <2>5 DEF u
<1> QED
  BY <1>1, <1>2

\* press_binding and release_binding send with the time of the press.
LEMMA PressAt ==
  ASSUME NEW h, h.pos \in Position \cup {NoKey}, h.at \in Int, NEW s
  PROVE  /\ PressBinding(h, s) \in Seq(Sent)
         /\ \A x \in ToSet(PressBinding(h, s)) : x \in Sent /\ x.at = h.at
<1> DEFINE cs == PressBinding(h, s)
           down == Code(Hold(h.pos), TRUE, h.at)
           up == Code(Hold(h.pos), FALSE, h.at)
           tap == Code(Tap(h.pos), TRUE, h.at)
           A == {x \in Sent : x.at = h.at}
<1>1. up \in Sent /\ down \in Sent /\ tap \in Sent
  BY CodeIs
<1>2. up.at = h.at /\ down.at = h.at /\ tap.at = h.at
  BY DEF Code
<1>3. cs \in {<<>>, <<down>>, <<>> \o <<tap>>, <<up>> \o <<tap>>}
  BY DEF PressBinding
<1>4. up \in A /\ down \in A /\ tap \in A
  BY <1>1, <1>2
<1>5. A \subseteq Sent
  OBVIOUS
<1> HIDE DEF up, down, tap, cs, A
<1>6. cs \in Seq(A)
  <2>1. <<>> \in Seq(A) /\ <<down>> \in Seq(A) /\ <<tap>> \in Seq(A) /\ <<up>> \in Seq(A)
    BY <1>4
  <2>2. <<>> \o <<tap>> \in Seq(A) /\ <<up>> \o <<tap>> \in Seq(A)
    BY <2>1, Joined
  <2> QED
    BY <1>3, <2>1, <2>2
<1>7. cs \in Seq(Sent) /\ \A x \in ToSet(cs) : x \in A
  BY <1>5, <1>6 DEF ToSet
<1> QED
  BY <1>7 DEF cs, A

-----------------------------------------------------------------------------
(* What the parts of the engine do to the calls. *)

\* decide_hold_tap: nothing, or its keycodes and release_captured_events come first.
LEMMA DecideMakes ==
  ASSUME Types, NEW tp, NEW i \in Slot, TapShape(tp[i]), NEW moment, NEW rest \in Seq(Call(Slot)),
         Decide(tp, i, moment, rest)
  PROVE  \/ /\ taps' = tp /\ agenda' = rest /\ UNCHANGED <<undecided, lastTapped>>
            /\ tp[i].status # "undecided" \/ i # undecided \/ Decision(tp[i], moment) = "undecided"
         \/ /\ tp[i].status = "undecided" /\ i = undecided /\ Decision(tp[i], moment) # "undecided"
            /\ taps' = [tp EXCEPT ![i].status = Decision(tp[i], moment)]
            /\ undecided' = None
            /\ lastTapped' = [pos |-> tp[i].pos, at |-> tp[i].at] \/ lastTapped' = lastTapped
            /\ Ending(agenda') = None
            /\ \E CS \in SUBSET Sent :
                  (\A x \in CS : x.at = tp[i].at) /\ ToSet(agenda') = CS \cup {Release(1)} \cup ToSet(rest)
<1> DEFINE d == Decision(tp[i], moment)
           cs == PressBinding(tp[i], d)
           r == Release(1)
           C == Call(Slot)
<1>1. CASE tp[i].status # "undecided" \/ i # undecided \/ d = "undecided"
  BY <1>1 DEF Decide
<1>2. CASE ~(tp[i].status # "undecided" \/ i # undecided \/ d = "undecided")
  <2>1. /\ taps' = [tp EXCEPT ![i].status = d]
        /\ undecided' = None
        /\ lastTapped' = IF d = "tap" THEN [pos |-> tp[i].pos, at |-> tp[i].at] ELSE lastTapped
        /\ agenda' = cs \o <<r>> \o rest
    BY <1>2 DEF Decide
  <2>2. cs \in Seq(Sent) /\ \A x \in ToSet(cs) : x \in Sent /\ x.at = tp[i].at
    BY PressAt DEF TapShape
  <2>3. r \in C /\ r.do = "release"
    BY DEF Release, Call
  <2> HIDE DEF cs, r, d
  <2>4. cs \in Seq(C)
    BY <2>2, SentIsCall
  <2> HIDE DEF C
  <2>5. <<r>> \in Seq(C) /\ <<r>> \o rest \in Seq(C) /\ rest \in Seq(C)
    BY <2>3, Before1 DEF C
  <2>6. agenda' = cs \o (<<r>> \o rest)
    BY <2>1, <2>4, <2>5, ConcatAssociative
  <2>7. ToSet(agenda') = ToSet(cs) \cup {r} \cup ToSet(rest)
    <3>1. ToSet(<<r>> \o rest) = {r} \cup ToSet(rest)
      BY <2>3, <2>5, SetCons
    <3> DEFINE q == <<r>> \o rest
    <3>2. q \in Seq(C) /\ cs \in Seq(C) /\ agenda' = cs \o q /\ ToSet(q) = {r} \cup ToSet(rest)
      BY <2>4, <2>5, <2>6, <3>1
    <3> HIDE DEF q
    <3>3. ToSet(cs \o q) = ToSet(cs) \cup ToSet(q)
      BY <3>2, SetJoin
    <3> QED
      BY <3>2, <3>3
  <2>8. Ending(agenda') = None
    <3>1. Ending(<<r>> \o rest) = None
      BY <2>3, <2>5, EndingCons
    <3>2. Ending(cs \o (<<r>> \o rest)) = None \/ cs \o (<<r>> \o rest) = <<r>> \o rest
      BY <2>2, <2>4, <2>5, EndingCodes
    <3> QED
      BY <2>6, <3>1, <3>2
  <2>9. ToSet(cs) \in SUBSET Sent
    BY <2>2
  <2> QED
    BY <1>2, <2>1, <2>2, <2>7, <2>8, <2>9 DEF r, d
<1> QED
  BY <1>1, <1>2

\* capture_event adds the event at most.
LEMMA CaptureAdds ==
  ASSUME NEW e, Capture(e)
  PROVE  ToSet(captured') \subseteq ToSet(captured) \cup {[e EXCEPT !.from = None]}
<1> DEFINE k == [e EXCEPT !.from = None]
<1>1. captured' = captured \/ \E f : captured' = [captured EXCEPT ![f] = k]
  BY DEF Capture
<1> HIDE DEF k
<1>2. \A n \in DOMAIN captured' : n \in DOMAIN captured /\ (captured'[n] = captured[n] \/ captured'[n] = k)
  BY <1>1
<1>3. ToSet(captured') \subseteq ToSet(captured) \cup {k}
  BY <1>2 DEF ToSet
<1> QED
  BY <1>3 DEF k

\* An event at another stage of the listeners, captured, or raised again.
LEMMA Staged ==
  ASSUME NEW e \in KeyEvent({"pos", "after", "keymap"})
  PROVE  /\ \A w \in {"pos", "after", "keymap"} :
               LET z == [e EXCEPT !.do = w] IN
               Event(z) /\ z.do = w /\ z.pos = e.pos /\ z.down = e.down /\ z.at = e.at
         /\ LET z == [[e EXCEPT !.do = "pos"] EXCEPT !.from = None] IN
            Event(z) /\ z.pos = e.pos /\ z.down = e.down /\ z.at = e.at
         /\ Event(e) /\ ~Closes(e)
  BY DEF KeyEvent, Event, Closes

LEMMA CodesAreNoEvents ==
  ASSUME NEW x \in Sent
  PROVE  ~Event(x) /\ ~Closes(x) /\ x.do = "code"
  BY DEF Sent, Event, Closes

LEMMA NoEvents ==
  ASSUME NEW x, x.do \in {"free", "code", "release", "pressed", "keyUp", "released"}
  PROVE  ~Event(x)
  BY DEF Event

\* A decision brings no event.
LEMMA DecideBrings ==
  ASSUME Types, NEW tp, NEW i \in Slot, TapShape(tp[i]), NEW moment, NEW rest \in Seq(Call(Slot)),
         Decide(tp, i, moment, rest)
  PROVE  /\ \A x : Event(x) => (x \in ToSet(agenda') <=> x \in ToSet(rest))
         /\ \A x : Closes(x) => (x \in ToSet(agenda') <=> x \in ToSet(rest))
<1>1. CASE agenda' = rest
  BY <1>1
<1>2. CASE \E CS \in SUBSET Sent : ToSet(agenda') = CS \cup {Release(1)} \cup ToSet(rest)
  <2>1. PICK CS \in SUBSET Sent : ToSet(agenda') = CS \cup {Release(1)} \cup ToSet(rest)
    BY <1>2
  <2>2. \A x \in CS : ~Event(x) /\ ~Closes(x)
    BY CodesAreNoEvents
  <2>3. ~Event(Release(1)) /\ ~Closes(Release(1))
    BY DEF Release, Event, Closes
  <2> QED
    BY <2>1, <2>2, <2>3
<1> QED
  BY <1>1, <1>2, DecideMakes

\* What the last part of the listener does.
Bubbles(tp, e, rest) ==
    /\ taps' = tp /\ UNCHANGED <<undecided, lastTapped, captured>>
    /\ ToSet(agenda') = {Bubble(e)} \cup ToSet(rest)
Captures(tp, e, rest) ==
    /\ ToSet(captured') \subseteq ToSet(captured) \cup {[[e EXCEPT !.do = "pos"] EXCEPT !.from = None]}
    /\ \E moment \in {"otherDown", "otherUp"} : Decide(tp, undecided, moment, rest)

LEMMA CaptureOrBubbleMakes ==
  ASSUME Types, undecided \in Slot, NEW tp, TapShape(tp[undecided]), NEW e \in KeyEvent({"pos", "after", "keymap"}),
         NEW rest \in Seq(Call(Slot)), CaptureOrBubble(tp, e, rest)
  PROVE  Bubbles(tp, e, rest) \/ Captures(tp, e, rest)
<1>1. CASE ~e.down /\ ~HaveCapturedDown(e.pos)
  <2> DEFINE z == Bubble(e)
  <2>1. taps' = tp /\ agenda' = <<z>> \o rest /\ UNCHANGED <<undecided, lastTapped, captured>>
    BY <1>1 DEF CaptureOrBubble
  <2>2. z \in Call(Slot)
    BY EventIs DEF Bubble
  <2> HIDE DEF z
  <2>3. ToSet(<<z>> \o rest) = {z} \cup ToSet(rest)
    BY <2>2, SetCons
  <2> QED
    BY <2>1, <2>3 DEF z, Bubbles
<1>2. CASE ~(~e.down /\ ~HaveCapturedDown(e.pos))
  <2> DEFINE m == IF e.down THEN "otherDown" ELSE "otherUp"
             q == [e EXCEPT !.do = "pos"]
  <2>1. Capture(q) /\ Decide(tp, undecided, m, rest)
    BY <1>2 DEF CaptureOrBubble
  <2>2. m \in {"otherDown", "otherUp"}
    OBVIOUS
  <2> HIDE DEF m, q
  <2>3. ToSet(captured') \subseteq ToSet(captured) \cup {[q EXCEPT !.from = None]}
    BY <2>1, CaptureAdds
  <2> QED
    BY <2>1, <2>2, <2>3 DEF q, Captures
<1> QED
  BY <1>1, <1>2

LEMMA CaptureOrBubbleBrings ==
  ASSUME Types, undecided \in Slot, NEW tp, TapShape(tp[undecided]), NEW e \in KeyEvent({"pos", "after", "keymap"}),
         NEW rest \in Seq(Call(Slot)), CaptureOrBubble(tp, e, rest), NEW Z, ToSet(rest) \cup ToSet(captured) \cup {e} \subseteq Z
  PROVE  Comes(ToSet(agenda') \cup ToSet(captured'), Z)
<1> DEFINE k == [[e EXCEPT !.do = "pos"] EXCEPT !.from = None]
           z == Bubble(e)
<1>1. /\ Event(k) /\ k.pos = e.pos /\ k.down = e.down /\ k.at = e.at
      /\ Event(z) /\ z.pos = e.pos /\ z.down = e.down /\ z.at = e.at
      /\ Event(e)
  BY Staged DEF Bubble
<1>2. CASE Bubbles(tp, e, rest)
  <2>1. captured' = captured /\ ToSet(agenda') = {z} \cup ToSet(rest)
    BY <1>2 DEF Bubbles
  <2> HIDE DEF k, z
  <2>2. \A x \in ToSet(agenda') \cup ToSet(captured') : x = z \/ x \in Z
    BY <2>1
  <2> QED
    BY <1>1, <2>2 DEF Comes
<1>3. CASE Captures(tp, e, rest)
  <2>1. /\ ToSet(captured') \subseteq ToSet(captured) \cup {k}
        /\ \E moment : Decide(tp, undecided, moment, rest)
    BY <1>3 DEF Captures
  <2> HIDE DEF z, k
  <2>2. \A x : Event(x) => (x \in ToSet(agenda') <=> x \in ToSet(rest))
    BY <2>1, DecideBrings
  <2>3. \A x \in ToSet(agenda') \cup ToSet(captured') : Event(x) => x = k \/ x \in Z
    BY <2>1, <2>2
  <2> QED
    BY <1>1, <2>3 DEF Comes
<1> QED
  BY <1>2, <1>3, CaptureOrBubbleMakes

\* The call at the head and those behind it.
LEMMA FirstCall ==
  ASSUME Types, agenda # <<>>
  PROVE  /\ ToSet(agenda) = {Head(agenda)} \cup ToSet(Tail(agenda))
         /\ ToSet(agenda) \subseteq Call(Slot) /\ Tail(agenda) \in Seq(Call(Slot)) /\ Head(agenda) \in Call(Slot)
<1>1. agenda \in Seq(Call(Slot))
  BY DEF Types
<1> QED
  BY <1>1, SetHead, Behind

\* release_captured_events raises the event in place j.
Raises(j) ==
    /\ captured[j] # Free
    /\ captured' = [captured EXCEPT ![j] = Free]
    /\ agenda' = <<[captured[j] EXCEPT !.from = j], Release(j + 1)>> \o Tail(agenda)
    /\ now' \in {now, now + 1}

LEMMA ReleaseCapturedTakes ==
  ASSUME Types, ReleaseCaptured
  PROVE  \/ agenda' = Tail(agenda) /\ UNCHANGED <<captured, now>>
         \/ \E j \in Place : Raises(j)
<1> DEFINE i == Head(agenda).i
<1>1. agenda # <<>> /\ Head(agenda).do = "release"
  BY DEF ReleaseCaptured, Doing
<1>2. IF i > MaxCaptured \/ captured[Min({i, MaxCaptured})] = Free
        THEN agenda' = Tail(agenda) /\ UNCHANGED <<captured, now>>
        ELSE /\ captured' = [captured EXCEPT ![i] = Free]
             /\ agenda' = <<[captured[i] EXCEPT !.from = i], Release(i + 1)>> \o Tail(agenda)
             /\ now' \in {now, now + 1}
  BY DEF ReleaseCaptured
<1>3. i \in Nat \ {0} /\ MaxCaptured \in Nat /\ Place = 1 .. MaxCaptured
  BY <1>1, Basics, CallFields
<1>4. i <= MaxCaptured => Min({i, MaxCaptured}) = i /\ i \in Place
  <2> HIDE DEF i
  <2>1. Min({i, MaxCaptured}) \in {i, MaxCaptured} /\ \A y \in {i, MaxCaptured} : Min({i, MaxCaptured}) <= y
    BY <1>3, MinIs
  <2> QED
    BY <1>3, <2>1
<1>5. CASE ~(i > MaxCaptured \/ captured[Min({i, MaxCaptured})] = Free)
  <2>1. i \in Place /\ captured[i] # Free
    <3> HIDE DEF i
    <3> QED
      BY <1>3, <1>4, <1>5
  <2>2. Raises(i)
    BY <1>2, <1>5, <2>1 DEF Raises
  <2> QED
    BY <2>1, <2>2
<1> QED
  BY <1>2, <1>5

RaisedAs(x, z, j) ==
             /\ x \in ToSet(captured) /\ x \in Sent \cup KeyEvent({"pos"})
             /\ z \in Call(Slot) /\ z.do = x.do /\ z.at = x.at /\ ~Closes(z) /\ z.do # "keyUp"
             /\ Event(z) => Event(x) /\ z.pos = x.pos /\ z.down = x.down /\ z.at = x.at
             /\ z.do = "code" => z.code = x.code /\ z.down = x.down
             /\ ToSet(agenda') = {z} \cup {Release(j + 1)} \cup ToSet(Tail(agenda))
             /\ ToSet(captured') \subseteq ToSet(captured) \cup {Free}
             /\ Ending(agenda') = None

LEMMA RaisedIs ==
  ASSUME Types, agenda # <<>>, NEW j \in Place, Raises(j)
  PROVE  RaisedAs(captured[j], [captured[j] EXCEPT !.from = j], j)
<1> DEFINE x == captured[j]
           z == [x EXCEPT !.from = j]
           r == Release(j + 1)
           t == Tail(agenda)
           C == Call(Slot)
<1>1. DOMAIN captured = Place /\ x \in Kept /\ x # Free /\ j \in Nat /\ t \in Seq(C)
  BY Basics DEF Raises
<1>2. x \in ToSet(captured)
  BY <1>1 DEF ToSet
<1>3. x \in Sent \cup KeyEvent({"pos"})
  BY <1>1 DEF Kept
<1>4. /\ z \in Sent \cup KeyEvent({"pos"}) /\ z.do = x.do /\ z.at = x.at
      /\ z.do # "code" => z.pos = x.pos /\ z.down = x.down
      /\ z.do = "code" => z.code = x.code /\ z.down = x.down
  <2>1. CASE x \in Sent
    BY <1>1, <2>1 DEF Sent
  <2>2. CASE x \in KeyEvent({"pos"})
    BY <1>1, <2>2 DEF KeyEvent
  <2> QED
    BY <1>3, <2>1, <2>2
<1>5. z \in C /\ z.do \in {"code", "pos"}
  BY <1>4 DEF Sent, KeyEvent, Call
<1>6. r \in C
  BY <1>1 DEF Release, Call
<1>7. captured' = [captured EXCEPT ![j] = Free] /\ agenda' = <<z, r>> \o t
  BY DEF Raises
<1> HIDE DEF x, z, r, t, C
<1> DEFINE pre == <<z, r>>
<1>8. pre \in Seq(C) /\ ToSet(pre) = {z, r} /\ 1 \in DOMAIN pre /\ pre[1] = z
  <2>1. pre \in Seq(C) /\ DOMAIN pre = {1, 2} /\ pre[1] = z /\ pre[2] = r
    BY <1>5, <1>6
  <2> HIDE DEF pre
  <2> QED
    BY <2>1 DEF ToSet
<1>9. agenda' = pre \o t
  BY <1>7
<1> HIDE DEF pre
<1>10. ToSet(agenda') = {z} \cup {r} \cup ToSet(t)
  BY <1>1, <1>8, <1>9, SetJoin
<1>11. Ending(agenda') = None
  <2>1. agenda' \in Seq(C) /\ 1 \in DOMAIN agenda' /\ agenda'[1] = z
    BY <1>1, <1>8, <1>9, Joined
  <2>2. agenda' # <<>> /\ Head(agenda') = z
    BY <2>1
  <2> QED
    BY <1>5, <2>2 DEF Ending
<1>12. ToSet(captured') \subseteq ToSet(captured) \cup {Free}
  <2>1. \A n \in DOMAIN captured' : n \in DOMAIN captured /\ (captured'[n] = captured[n] \/ captured'[n] = Free)
    BY <1>7
  <2> QED
    BY <2>1 DEF ToSet
<1>13. Event(z) <=> Event(x)
  BY <1>4 DEF Event
<1>14. ~Closes(z)
  BY <1>5 DEF Closes
<1> QED
  BY <1>2, <1>3, <1>4, <1>5, <1>10, <1>11, <1>12, <1>13, <1>14 DEF RaisedAs, x, z, r, t, C, Event

\* A press takes place i of active_hold_taps.
New(e) == [Unused EXCEPT !.pos = e.pos, !.at = e.at]
Quick(e) == QuickTap(e.pos, e.at) /\ Outcome(timing[e.pos].flavor, "quickTap") = "tap"
Seats(e, i) ==
    /\ taps[i].pos = NoKey
    /\ \/ /\ Quick(e) /\ taps' = [taps EXCEPT ![i] = [New(e) EXCEPT !.status = "tap"]]
          /\ undecided' = None /\ lastTapped' = [pos |-> e.pos, at |-> e.at]
       \/ /\ ~Quick(e) /\ taps' = [taps EXCEPT ![i] = New(e)]
          /\ undecided' = i /\ lastTapped' = lastTapped
    /\ \A x \in ToSet(agenda') :
          x \in ToSet(Tail(agenda)) \/ x.do \in {"release", "pressed"} \/ (x \in Sent /\ x.at = e.at)
    /\ ToSet(Tail(agenda)) \subseteq ToSet(agenda')

LEMMA BindingPressedMakes ==
  ASSUME Types, BindingPressed
  PROVE  /\ agenda # <<>> /\ Head(agenda).do = "keymap" /\ Head(agenda).down /\ Head(agenda).pos \in HoldTaps
         /\ undecided = None /\ UNCHANGED <<build, timing, captured, now>>
         /\ \E i \in Slot : Seats(Head(agenda), i)
<1> DEFINE e == Head(agenda)
           t == Tail(agenda)
           free == {j \in Slot : taps[j].pos = NoKey}
           i == Min(free)
           h == New(e)
           quick == Quick(e)
           P == [do |-> "pressed", i |-> i]
           r == Release(1)
           rest == <<P>> \o t
           cs == PressBinding(h, "tap")
           C == Call(Slot)
<1>1. /\ agenda # <<>> /\ e.do = "keymap" /\ e.down /\ e.pos \in HoldTaps
      /\ undecided = None /\ UNCHANGED <<build, timing, captured, now>> /\ free # {}
      /\ taps' = [taps EXCEPT ![i] = [h EXCEPT !.status = IF quick THEN "tap" ELSE "undecided"]]
      /\ undecided' = IF quick THEN None ELSE i
      /\ lastTapped' = IF quick THEN [pos |-> e.pos, at |-> e.at] ELSE lastTapped
      /\ agenda' = (IF quick THEN cs \o <<r>> ELSE <<>>) \o rest
  BY DEF BindingPressed, Doing, settings, input, New, Quick
<1>2. i \in Slot /\ taps[i].pos = NoKey
  <2>1. free \subseteq Nat /\ \A j \in free : j \in Slot /\ taps[j].pos = NoKey
    BY DEF Slot
  <2> HIDE DEF free
  <2> QED
    BY <1>1, <2>1, MinIs
<1> HIDE DEF free, i
<1>3. t \in Seq(C) /\ e \in KeyEvent({"pos", "after", "keymap"})
  BY <1>1, Basics, CallFields
<1>4. h.pos \in Position \cup {NoKey} /\ h.at = e.at /\ h.at \in Int
  BY <1>3 DEF KeyEvent, New, Unused
<1>5. [h EXCEPT !.status = "undecided"] = h
  <2>1. h.status = "undecided" /\ "status" \in DOMAIN h /\ h = [x \in DOMAIN h |-> h[x]]
    BY DEF New, Unused
  <2> HIDE DEF h, e
  <2> QED
    BY <2>1
<1>6. cs \in Seq(Sent) /\ \A x \in ToSet(cs) : x \in Sent /\ x.at = e.at
  BY <1>4, PressAt
<1>7. P \in C /\ P.do = "pressed" /\ r \in C /\ r.do = "release"
  BY <1>2 DEF Call, Release
<1> HIDE DEF h, cs, P, r, e, t, quick
<1>8. cs \in Seq(C)
  BY <1>6, SentIsCall
<1> HIDE DEF C
<1>9. rest \in Seq(C) /\ ToSet(rest) = {P} \cup ToSet(t)
  BY <1>3, <1>7, SetCons, Before1
<1> HIDE DEF rest
<1>10. CASE quick
  <2>1. agenda' = (cs \o <<r>>) \o rest
    BY <1>1, <1>10
  <2>2. <<r>> \in Seq(C) /\ cs \o <<r>> \in Seq(C)
    BY <1>7, <1>8, Joined
  <2>3. ToSet(cs \o <<r>>) = ToSet(cs) \cup ToSet(<<r>>)
    BY <1>8, <2>2, SetJoin
  <2>4. ToSet(<<r>>) = {r}
    BY DEF ToSet
  <2> DEFINE q == cs \o <<r>>
  <2>5. q \in Seq(C) /\ agenda' = q \o rest /\ ToSet(q) = ToSet(cs) \cup {r}
    BY <2>1, <2>2, <2>3, <2>4
  <2> HIDE DEF q
  <2>6. ToSet(agenda') = ToSet(q) \cup ToSet(rest)
    BY <1>9, <2>5, SetJoin
  <2>7. \A x \in ToSet(agenda') : x \in ToSet(t) \/ x.do \in {"release", "pressed"} \/ (x \in Sent /\ x.at = e.at)
    BY <1>6, <1>7, <1>9, <2>5, <2>6
  <2>8. ToSet(t) \subseteq ToSet(agenda')
    BY <1>9, <2>6
  <2>9. Seats(e, i)
    BY <1>1, <1>2, <1>10, <2>7, <2>8 DEF Seats, h, t, quick
  <2> QED
    BY <1>1, <1>2, <2>9 DEF e
<1>11. CASE ~quick
  <2>1. agenda' = rest
    BY <1>1, <1>9, <1>11
  <2>2. \A x \in ToSet(agenda') : x \in ToSet(t) \/ x.do \in {"release", "pressed"} \/ (x \in Sent /\ x.at = e.at)
    BY <1>7, <1>9, <2>1
  <2>3. ToSet(t) \subseteq ToSet(agenda')
    BY <1>9, <2>1
  <2>4. taps' = [taps EXCEPT ![i] = h] /\ undecided' = i /\ lastTapped' = lastTapped
    BY <1>1, <1>5, <1>11
  <2>5. Seats(e, i)
    BY <1>2, <1>11, <2>2, <2>3, <2>4 DEF Seats, h, t, quick
  <2> QED
    BY <1>1, <1>2, <2>5 DEF e
<1> QED
  BY <1>10, <1>11

LEMMA PressedMakes ==
  ASSUME Types, Pressed
  PROVE  /\ agenda # <<>> /\ Head(agenda).do = "pressed" /\ Head(agenda).i \in Slot
         /\ UNCHANGED <<build, timing, undecided, captured, lastTapped, now>>
         /\ LET h == taps[Head(agenda).i]
                due == h.at + timing[h.pos].term
            IN  taps' = [taps EXCEPT ![Head(agenda).i].timer = IF @ # Off THEN @ ELSE IF due > now THEN due ELSE now]
         /\ \E cs \in Seq(Sent) : /\ agenda' = cs \o Tail(agenda)
                                  /\ \A x \in ToSet(cs) : x.at = taps[Head(agenda).i].at
<1> DEFINE i == Head(agenda).i
           h == taps[i]
           due == h.at + timing[h.pos].term
           x == Code(Hold(h.pos), TRUE, h.at)
<1>1. /\ agenda # <<>> /\ Head(agenda).do = "pressed"
      /\ UNCHANGED <<build, timing, undecided, captured, lastTapped, now>>
      /\ taps' = [taps EXCEPT ![i].timer = IF @ # Off THEN @ ELSE IF due > now THEN due ELSE now]
      /\ agenda' = <<x>> \o Tail(agenda) \/ agenda' = <<>> \o Tail(agenda)
  BY DEF Pressed, Doing, settings, input
<1>2. i \in Slot
  BY <1>1, Basics, CallFields
<1>3. x \in Sent /\ x.at = h.at
  <2>1. h.pos \in Position \cup {NoKey} /\ h.at \in Int
    BY <1>2 DEF Types, TapShape
  <2>2. x \in Sent
    BY <2>1, CodeIs
  <2> QED
    BY <2>2 DEF Code
<1>4. \E cs \in Seq(Sent) : agenda' = cs \o Tail(agenda) /\ \A y \in ToSet(cs) : y.at = h.at
  <2> HIDE DEF x, h, i
  <2>1. <<x>> \in Seq(Sent) /\ <<>> \in Seq(Sent) /\ (\A y \in ToSet(<<x>>) : y.at = h.at) /\ \A y \in ToSet(<<>>) : y.at = h.at
    BY <1>3 DEF ToSet
  <2> QED
    BY <1>1, <2>1
<1> QED
  BY <1>1, <1>2, <1>4

\* on_hold_tap_binding_released finds hold-tap i.
Up(e, i) == [do |-> "keyUp", i |-> i, at |-> e.at, from |-> e.from]

LEMMA BindingReleasedFinds ==
  ASSUME Types, BindingReleased
  PROVE  /\ agenda # <<>> /\ Head(agenda).do = "keymap" /\ ~Head(agenda).down /\ Head(agenda).pos \in HoldTaps
         /\ UNCHANGED <<build, timing, captured, now>>
         /\ \E i \in Slot :
              LET e == Head(agenda)
                  tp == [taps EXCEPT ![i].timer = Off]
                  rest == <<Up(e, i)>> \o Tail(agenda)
              IN  /\ taps[i].pos = e.pos
                  /\ rest \in Seq(Call(Slot)) /\ ToSet(rest) = {Up(e, i)} \cup ToSet(Tail(agenda)) /\ Ending(rest) = i
                  /\ IF e.at > taps[i].at + timing[e.pos].term
                       THEN Decide(tp, i, "timer", rest)
                       ELSE taps' = tp /\ agenda' = rest /\ UNCHANGED <<undecided, lastTapped>>
<1> DEFINE e == Head(agenda)
           t == Tail(agenda)
           mine == {j \in Slot : taps[j].pos = e.pos}
           i == Min(mine)
           tp == [taps EXCEPT ![i].timer = Off]
           z == Up(e, i)
           rest == <<z>> \o t
           C == Call(Slot)
<1>1. /\ agenda # <<>> /\ e.do = "keymap" /\ ~e.down /\ e.pos \in HoldTaps /\ mine # {}
      /\ UNCHANGED <<build, timing, captured, now>>
      /\ IF e.at > taps[i].at + timing[e.pos].term
           THEN Decide(tp, i, "timer", rest)
           ELSE taps' = tp /\ agenda' = rest /\ UNCHANGED <<undecided, lastTapped>>
  BY DEF BindingReleased, Doing, settings, input, Up
<1>2. i \in Slot /\ taps[i].pos = e.pos
  <2>1. mine \subseteq Nat /\ \A j \in mine : j \in Slot /\ taps[j].pos = e.pos
    BY DEF Slot
  <2> HIDE DEF mine
  <2> QED
    BY <1>1, <2>1, MinIs
<1> HIDE DEF mine, i
<1>3. t \in Seq(C) /\ e \in KeyEvent({"pos", "after", "keymap"})
  BY <1>1, Basics, CallFields
<1>4. z \in C /\ z.do = "keyUp" /\ z.i = i
  BY <1>2, <1>3 DEF KeyEvent, Call, Up
<1> HIDE DEF z, C
<1>5. rest \in Seq(C) /\ ToSet(rest) = {z} \cup ToSet(t)
  BY <1>3, <1>4, SetCons, Before1
<1>6. Ending(rest) = i
  <2>1. rest # <<>> /\ Head(rest) = z
    OBVIOUS
  <2> QED
    BY <1>4, <2>1 DEF Ending
<1> QED
  BY <1>1, <1>2, <1>5, <1>6 DEF z, C

LEMMA BindingReleasedMakes ==
  ASSUME Types, BindingReleased
  PROVE  UNCHANGED captured /\ \A x \in ToSet(agenda') : Event(x) => x \in ToSet(Tail(agenda))
<1> DEFINE e == Head(agenda)
           t == Tail(agenda)
<1>1. PICK i \in Slot :
         LET tp == [taps EXCEPT ![i].timer = Off]
             rest == <<Up(e, i)>> \o t
         IN  /\ rest \in Seq(Call(Slot)) /\ ToSet(rest) = {Up(e, i)} \cup ToSet(t)
             /\ Decide(tp, i, "timer", rest) \/ agenda' = rest
  BY BindingReleasedFinds
<1>2. UNCHANGED captured
  BY BindingReleasedFinds
<1> DEFINE tp == [taps EXCEPT ![i].timer = Off]
           rest == <<Up(e, i)>> \o t
<1>3. TapShape(tp[i])
  BY DEF Types, TapShape
<1>4. ~Event(Up(e, i))
  BY DEF Event, Up
<1>5. rest \in Seq(Call(Slot)) /\ (Decide(tp, i, "timer", rest) \/ agenda' = rest) /\ ToSet(rest) = {Up(e, i)} \cup ToSet(t)
  BY <1>1
<1> HIDE DEF tp, rest
<1>6. \A x : Event(x) /\ x \in ToSet(agenda') => x \in ToSet(rest)
  BY <1>3, <1>5, DecideBrings
<1> QED
  BY <1>2, <1>4, <1>5, <1>6

LEMMA KeyUpMakes ==
  ASSUME Types, KeyUpDecision
  PROVE  /\ agenda # <<>> /\ Head(agenda).do = "keyUp" /\ Head(agenda).i \in Slot
         /\ UNCHANGED <<build, timing, captured, now>>
         /\ LET e == Head(agenda)
                z == [e EXCEPT !.do = "released"]
                rest == <<z>> \o Tail(agenda)
            IN  /\ z.do = "released" /\ z.i = e.i /\ z.at = e.at /\ e.at \in Int
                /\ rest \in Seq(Call(Slot)) /\ ToSet(rest) = {z} \cup ToSet(Tail(agenda)) /\ Ending(rest) = None
                /\ Decide(taps, e.i, "keyUp", rest)
         /\ \A x \in ToSet(agenda') : Event(x) => x \in ToSet(Tail(agenda))
<1> DEFINE e == Head(agenda)
           t == Tail(agenda)
           z == [e EXCEPT !.do = "released"]
           rest == <<z>> \o t
           C == Call(Slot)
<1>1. /\ agenda # <<>> /\ e.do = "keyUp" /\ UNCHANGED <<build, timing, captured, now>>
      /\ Decide(taps, e.i, "keyUp", rest)
  BY DEF KeyUpDecision, Doing, settings, input
<1>2. e \in C /\ t \in Seq(C) /\ e.i \in Slot /\ e.at \in Int
  BY <1>1, Basics, CallFields
<1>3. e \in [do : {"keyUp", "released"}, i : Slot, at : Int, from : Nat]
  BY <1>1, <1>2 DEF Call, Sent, KeyEvent
<1>4. z \in [do : {"keyUp", "released"}, i : Slot, at : Int, from : Nat] /\ z.do = "released" /\ z.i = e.i /\ z.at = e.at
  BY <1>3
<1>5. z \in C
  BY <1>4 DEF Call
<1> HIDE DEF z
<1>6. rest \in Seq(C) /\ ToSet(rest) = {z} \cup ToSet(t) /\ Ending(rest) = None
  <2> HIDE DEF C, t
  <2> QED
    BY <1>2, <1>4, <1>5, SetCons, Before1, EndingCons
<1>7. TapShape(taps[e.i])
  BY <1>2 DEF Types
<1>8. \A x : Event(x) /\ x \in ToSet(agenda') => x \in ToSet(rest)
  <2> HIDE DEF rest, e
  <2> QED
    BY <1>1, <1>2, <1>6, <1>7, DecideBrings
<1>9. ~Event(z)
  BY <1>4 DEF Event
<1>10. \A x \in ToSet(agenda') : Event(x) => x \in ToSet(t)
  BY <1>6, <1>8, <1>9
<1> QED
  BY <1>1, <1>2, <1>4, <1>6, <1>10 DEF z

LEMMA ReleasedMakes ==
  ASSUME Types, Released
  PROVE  /\ agenda # <<>> /\ Head(agenda).do = "released" /\ Head(agenda).i \in Slot
         /\ UNCHANGED <<build, timing, undecided, captured, now>>
         /\ taps' = [taps EXCEPT ![Head(agenda).i] = Unused]
         /\ LET h == taps[Head(agenda).i] IN
              /\ lastTapped' = lastTapped \/ lastTapped' = [pos |-> h.pos, at |-> h.at]
              /\ \E cs \in Seq(Sent) : agenda' = cs \o Tail(agenda) /\ \A x \in ToSet(cs) : x.at = h.at
<1> DEFINE i == Head(agenda).i
           h == taps[i]
           c == Config[h.pos]
           retro == c.retro /\ h.status = "holdTimer"
           s == IF retro THEN "tap" ELSE h.status
           A == IF retro THEN PressBinding(h, "tap") ELSE <<>>
           B == ReleaseBinding(h, s)
           up == Code(Hold(h.pos), FALSE, h.at)
           tup == Code(Tap(h.pos), FALSE, h.at)
           D == IF c.early /\ c.linger THEN <<up>> ELSE <<>>
           AB == A \o B
           cs == AB \o D
           R == {x \in Sent : x.at = h.at}
<1>1. /\ agenda # <<>> /\ Head(agenda).do = "released"
      /\ UNCHANGED <<build, timing, undecided, captured, now>>
      /\ taps' = [taps EXCEPT ![i] = Unused]
      /\ agenda' = cs \o Tail(agenda)
      /\ lastTapped' = lastTapped \/ lastTapped' = [pos |-> h.pos, at |-> h.at]
  BY DEF Released, Doing, settings, input
<1>2. i \in Slot
  BY <1>1, Basics, CallFields
<1>3. h.pos \in Position \cup {NoKey} /\ h.at \in Int
  BY <1>2 DEF Types, TapShape
<1>4. up \in R /\ tup \in R
  <2>1. up \in Sent /\ tup \in Sent
    BY <1>3, CodeIs
  <2>2. up.at = h.at /\ tup.at = h.at
    BY DEF Code
  <2> QED
    BY <2>1, <2>2
<1>5. B \in {<<>>, <<tup>>, <<up>>} /\ D \in {<<>>, <<up>>}
  BY DEF ReleaseBinding
<1>6. A \in Seq(R)
  <2> DEFINE p == PressBinding(h, "tap")
  <2>1. p \in Seq(Sent) /\ \A x \in ToSet(p) : x \in R
    BY <1>3, PressAt
  <2> HIDE DEF p, R
  <2>2. \A n \in DOMAIN p : p[n] \in R
    BY <2>1 DEF ToSet
  <2>3. p \in Seq(R)
    BY <2>1, <2>2
  <2>4. A = p \/ A = <<>>
    BY DEF p
  <2>5. <<>> \in Seq(R)
    OBVIOUS
  <2> HIDE DEF A
  <2> QED
    BY <2>3, <2>4, <2>5
<1>7. R \subseteq Sent /\ \A x \in R : x.at = h.at
  OBVIOUS
<1> HIDE DEF A, B, D, R, up, tup
<1>8. B \in Seq(R) /\ D \in Seq(R)
  <2>1. <<>> \in Seq(R) /\ <<up>> \in Seq(R) /\ <<tup>> \in Seq(R)
    BY <1>4
  <2> QED
    BY <1>5, <2>1
<1>9. AB \in Seq(R)
  BY <1>6, <1>8, Joined
<1> HIDE DEF AB
<1>10. cs \in Seq(R)
  BY <1>8, <1>9, Joined
<1> HIDE DEF cs
<1>11. cs \in Seq(Sent) /\ \A x \in ToSet(cs) : x.at = h.at
  <2> HIDE DEF h
  <2> QED
    BY <1>7, <1>10 DEF ToSet
<1> QED
  BY <1>1, <1>2, <1>11

\* The events a turn of the work queue leaves are events there were.
LEMMA WorkBrings ==
  ASSUME Types, Types', Work
  PROVE  Comes(ToSet(agenda') \cup ToSet(captured'), ToSet(agenda) \cup ToSet(captured))
<1> DEFINE e == Head(agenda)
           t == Tail(agenda)
           C == Call(Slot)
           Z == ToSet(agenda) \cup ToSet(captured)
           Y == ToSet(agenda') \cup ToSet(captured')
<1>1. agenda # <<>>
  BY DEF Work, UpdateRetroTaps, Bubbling, WhileUndecided, AfterTimer, ReleaseCaptured, Keycode, PlainKey,
         PressRefused, BindingPressed, Pressed, ReleaseUnknown, BindingReleased, KeyUpDecision, Released, Doing
<1>2. ToSet(agenda) = {e} \cup ToSet(t) /\ t \in Seq(C) /\ e \in C
  BY <1>1, FirstCall
<1>3. e.do \in {"pos", "after", "keymap"} => e \in KeyEvent({"pos", "after", "keymap"})
  BY <1>2, CallFields
<1>4. e.do \in {"pos", "after", "keymap"} => /\ Event(e)
                                             /\ \A w \in {"pos", "after", "keymap"} :
                                                   LET z == [e EXCEPT !.do = w] IN
                                                   Event(z) /\ z.pos = e.pos /\ z.down = e.down /\ z.at = e.at
  BY <1>3, Staged
<1>5. ASSUME NEW cs \in Seq(Sent), NEW s \in Seq(C), ToSet(s) \subseteq ToSet(agenda), agenda' = cs \o s,
             UNCHANGED captured
      PROVE  Comes(Y, Z)
  <2>1. cs \in Seq(C)
    BY SentIsCall
  <2> HIDE DEF C
  <2>2. ToSet(agenda') = ToSet(cs) \cup ToSet(s)
    BY <1>5, <2>1, SetJoin
  <2>3. \A x \in ToSet(cs) : x \in Sent
    BY DEF ToSet
  <2>4. \A x \in Y : Event(x) => x \in Z
    BY <1>5, <2>2, <2>3, CodesAreNoEvents
  <2> QED
    BY <2>4 DEF Comes
<1>6. ASSUME NEW x \in C, NEW s \in Seq(C), ToSet(s) \subseteq ToSet(agenda), agenda' = <<x>> \o s,
             Event(x) => Event(e) /\ x.pos = e.pos /\ x.down = e.down /\ x.at = e.at,
             UNCHANGED captured
      PROVE  Comes(Y, Z)
  <2> HIDE DEF C
  <2>1. ToSet(agenda') = {x} \cup ToSet(s)
    BY <1>6, SetCons
  <2>2. \A y \in Y : y = x \/ y \in Z
    BY <1>6, <2>1
  <2>3. e \in Z
    BY <1>2
  <2> HIDE DEF Y, Z, e
  <2> QED
    BY <1>6, <2>2, <2>3 DEF Comes
<1> DEFINE q == taps[undecided]
<1>7. CASE UpdateRetroTaps
  <2> DEFINE i == Min(RetroWaiting(e.pos))
             cs == PressBinding(taps[i], "holdInterrupt")
  <2>1. agenda' = cs \o agenda /\ UNCHANGED captured /\ RetroWaiting(e.pos) # {}
    BY <1>7 DEF UpdateRetroTaps
  <2>2. i \in Slot
    <3>1. RetroWaiting(e.pos) \subseteq Slot /\ Slot \subseteq Nat
      BY DEF RetroWaiting, Slot
    <3> QED
      BY <2>1, <3>1, MinIs
  <2>3. TapShape(taps[i])
    BY <2>2 DEF Types
  <2> HIDE DEF i
  <2>4. cs \in Seq(Sent)
    BY <2>3, PressAt DEF TapShape
  <2> HIDE DEF cs
  <2>5. agenda \in Seq(C)
    BY DEF Types
  <2> QED
    BY <1>5, <2>1, <2>4, <2>5
<1>8. ASSUME NEW w \in {"pos", "after", "keymap"}, NEW s \in Seq(C), ToSet(s) \subseteq ToSet(agenda),
             e.do \in {"pos", "after", "keymap"}, agenda' = <<[e EXCEPT !.do = w]>> \o s, UNCHANGED captured
      PROVE  Comes(Y, Z)
  <2> DEFINE z == [e EXCEPT !.do = w]
  <2>1. z \in C
    BY <1>3, <1>8, EventIs
  <2>2. Event(e) /\ z.pos = e.pos /\ z.down = e.down /\ z.at = e.at
    BY <1>4, <1>8
  <2>3. agenda' = <<z>> \o s
    BY <1>8
  <2> HIDE DEF z
  <2> QED
    BY <1>6, <1>8, <2>1, <2>2, <2>3
<1>9. CASE Bubbling
  <2>1. e.do = "pos" /\ agenda' = <<[e EXCEPT !.do = "keymap"]>> \o t /\ UNCHANGED captured
    BY <1>9 DEF Bubbling, Doing, Bubble, engine
  <2> QED
    BY <1>2, <1>8, <2>1
<1>10. CASE WhileUndecided
  <2> DEFINE tp == IF Config[q.pos].onRelease # e.down /\ q.other = NoKey
                   THEN [taps EXCEPT ![undecided].other = e.pos] ELSE taps
             z == [e EXCEPT !.do = "after"]
             s == <<z>> \o t
  <2>1. /\ e.do = "pos" /\ undecided # None
        /\ \/ agenda' = <<[e EXCEPT !.do = "keymap"]>> \o t /\ UNCHANGED captured
           \/ Decide(tp, undecided, "timer", s) /\ UNCHANGED captured
           \/ CaptureOrBubble(tp, e, t)
    BY <1>10 DEF WhileUndecided, Doing, Bubble
  <2>2. undecided \in Slot /\ TapShape(tp[undecided])
    BY <2>1 DEF Types, TapShape
  <2> HIDE DEF tp
  <2>3. CASE agenda' = <<[e EXCEPT !.do = "keymap"]>> \o t /\ UNCHANGED captured
    BY <1>2, <1>8, <2>1, <2>3
  <2>4. CASE Decide(tp, undecided, "timer", s) /\ UNCHANGED captured
    <3>1. z \in C
      BY <1>3, <2>1, EventIs
    <3>2. Event(z) /\ z.pos = e.pos /\ z.down = e.down /\ z.at = e.at /\ Event(e)
      BY <1>4, <2>1
    <3> HIDE DEF z, t, C
    <3>3. s \in Seq(C) /\ ToSet(s) = {z} \cup ToSet(t)
      BY <1>2, <3>1, SetCons, Before1
    <3> USE DEF C
    <3> HIDE DEF s
    <3>4. \A x : Event(x) => (x \in ToSet(agenda') <=> x \in ToSet(s))
      BY <2>2, <2>4, <3>3, DecideBrings
    <3>5. \A x \in Y : Event(x) => x = z \/ x \in Z
      BY <1>2, <2>4, <3>3, <3>4
    <3>6. e \in Z
      BY <1>2
    <3> HIDE DEF Y, Z, e
    <3>7. Comes(Y, Z)
      BY <3>2, <3>5, <3>6 DEF Comes
    <3> QED
      BY <3>7 DEF Y, Z
  <2>5. CASE CaptureOrBubble(tp, e, t)
    <3>1. ToSet(t) \cup ToSet(captured) \cup {e} \subseteq Z
      BY <1>2
    <3>2. e \in KeyEvent({"pos", "after", "keymap"})
      BY <1>3, <2>1
    <3> HIDE DEF Z, e, t
    <3>3. Comes(Y, Z)
      BY <1>2, <2>2, <2>5, <3>1, <3>2, CaptureOrBubbleBrings
    <3> QED
      BY <3>3 DEF Z
  <2> QED
    BY <2>1, <2>3, <2>4, <2>5
<1>11. CASE AfterTimer
  <2>1. /\ e.do = "after"
        /\ \/ agenda' = <<[e EXCEPT !.do = "keymap"]>> \o t /\ UNCHANGED captured
           \/ undecided # None /\ CaptureOrBubble(taps, e, t)
    BY <1>11 DEF AfterTimer, Doing, Bubble, engine
  <2>2. CASE undecided # None /\ CaptureOrBubble(taps, e, t)
    <3>1. ToSet(t) \cup ToSet(captured) \cup {e} \subseteq Z
      BY <1>2
    <3>2. e \in KeyEvent({"pos", "after", "keymap"}) /\ undecided \in Slot /\ TapShape(taps[undecided])
      BY <1>3, <2>1, <2>2 DEF Types
    <3> HIDE DEF Z, e, t
    <3>3. Comes(Y, Z)
      BY <1>2, <2>2, <3>1, <3>2, CaptureOrBubbleBrings
    <3> QED
      BY <3>3 DEF Z
  <2> QED
    BY <1>2, <1>8, <2>1, <2>2
<1>12. CASE ReleaseCaptured
  <2>1. CASE agenda' = t /\ UNCHANGED captured
    <3>1. Y \subseteq Z
      BY <1>2, <2>1
    <3> HIDE DEF Y, Z
    <3>2. Comes(Y, Z)
      BY <3>1 DEF Comes
    <3> QED
      BY <3>2 DEF Y, Z
  <2>2. CASE \E j \in Place : Raises(j)
    <3>1. PICK j \in Place : Raises(j)
      BY <2>2
    <3> DEFINE x == captured[j]
               z == [x EXCEPT !.from = j]
    <3>2. /\ x \in ToSet(captured) /\ (Event(z) => Event(x) /\ z.pos = x.pos /\ z.down = x.down /\ z.at = x.at)
          /\ ToSet(agenda') = {z} \cup {Release(j + 1)} \cup ToSet(t)
          /\ ToSet(captured') \subseteq ToSet(captured) \cup {Free}
      BY <1>12, <3>1, RaisedIs DEF RaisedAs, ReleaseCaptured, Doing
    <3> HIDE DEF x, z
    <3>3. ~Event(Free) /\ ~Event(Release(j + 1))
      BY DEF Event, Free, Release
    <3>4. \A y \in Y : Event(y) => y = z \/ y \in Z
      BY <1>2, <3>2, <3>3
    <3>5. x \in Z
      BY <3>2
    <3> HIDE DEF Y, Z
    <3>6. Comes(Y, Z)
      BY <3>2, <3>4, <3>5 DEF Comes
    <3> QED
      BY <3>6 DEF Y, Z
  <2> QED
    BY <1>12, <2>1, <2>2, ReleaseCapturedTakes
<1>13. ASSUME agenda' = t, \A x \in ToSet(captured') : Event(x) => x \in ToSet(captured)
       PROVE  Comes(Y, Z)
  <2>1. \A x \in Y : Event(x) => x \in Z
    BY <1>2, <1>13
  <2> HIDE DEF Y, Z
  <2> QED
    BY <2>1 DEF Comes
<1>14. CASE Keycode
  <2> DEFINE k == [e EXCEPT !.from = None]
  <2>1. e.do = "code" /\ agenda' = t /\ (Capture(e) \/ UNCHANGED captured)
    BY <1>14 DEF Keycode, Doing
  <2>2. ~Event(k)
    <3>1. e \in Sent
      BY <1>2, <2>1, CallFields
    <3>2. k.do = "code"
      BY <3>1 DEF Sent
    <3> QED
      BY <3>2 DEF Event
  <2>3. ToSet(captured') \subseteq ToSet(captured) \cup {k}
    BY <2>1, CaptureAdds
  <2> HIDE DEF k
  <2> QED
    BY <1>13, <2>1, <2>2, <2>3
<1>15. CASE PlainKey
  <2> DEFINE z == Code([of |-> e.pos, as |-> "key"], e.down, e.at)
  <2>1. e.do = "keymap" /\ agenda' = <<z>> \o t /\ UNCHANGED captured
    BY <1>15 DEF PlainKey, Doing, engine
  <2>2. z \in Sent
    BY <1>3, <2>1 DEF KeyEvent, Sent, Code, AnyBinding, None
  <2> HIDE DEF z
  <2>3. <<z>> \in Seq(Sent) /\ ToSet(t) \subseteq ToSet(agenda)
    BY <1>2, <2>2
  <2> QED
    BY <1>2, <1>5, <2>1, <2>3
<1>16. CASE PressRefused \/ ReleaseUnknown
  <2>1. agenda' = t /\ UNCHANGED captured
    BY <1>16 DEF PressRefused, ReleaseUnknown, engine
  <2> QED
    BY <1>13, <2>1
<1>17. CASE BindingPressed
  <2>1. UNCHANGED captured /\ \A x \in ToSet(agenda') : Event(x) => x \in ToSet(t)
    <3>1. UNCHANGED captured /\ \E i \in Slot : Seats(e, i)
      BY <1>17, BindingPressedMakes
    <3>2. ASSUME NEW x \in Sent PROVE ~Event(x)
      BY CodesAreNoEvents
    <3> QED
      BY <3>1, <3>2, NoEvents DEF Seats
  <2>2. \A x \in Y : Event(x) => x \in Z
    BY <1>2, <2>1
  <2> HIDE DEF Y, Z
  <2>3. Comes(Y, Z)
    BY <2>2 DEF Comes
  <2> QED
    BY <2>3 DEF Y, Z
<1>18. CASE Pressed
  <2>1. UNCHANGED captured /\ \E cs \in Seq(Sent) : agenda' = cs \o t
    BY <1>18, PressedMakes
  <2>2. ToSet(t) \subseteq ToSet(agenda)
    BY <1>2
  <2> QED
    BY <1>2, <1>5, <2>1, <2>2
<1>19. CASE BindingReleased
  <2>1. UNCHANGED captured /\ \A x \in ToSet(agenda') : Event(x) => x \in ToSet(t)
    BY <1>19, BindingReleasedMakes
  <2>2. \A x \in Y : Event(x) => x \in Z
    BY <1>2, <2>1
  <2> HIDE DEF Y, Z
  <2>3. Comes(Y, Z)
    BY <2>2 DEF Comes
  <2> QED
    BY <2>3 DEF Y, Z
<1>20. CASE KeyUpDecision
  <2>1. UNCHANGED captured /\ \A x \in ToSet(agenda') : Event(x) => x \in ToSet(t)
    BY <1>20, KeyUpMakes
  <2>2. \A x \in Y : Event(x) => x \in Z
    BY <1>2, <2>1
  <2> HIDE DEF Y, Z
  <2>3. Comes(Y, Z)
    BY <2>2 DEF Comes
  <2> QED
    BY <2>3 DEF Y, Z
<1>21. CASE Released
  <2>1. UNCHANGED captured /\ \E cs \in Seq(Sent) : agenda' = cs \o t
    BY <1>21, ReleasedMakes
  <2>2. ToSet(t) \subseteq ToSet(agenda)
    BY <1>2
  <2> QED
    BY <1>2, <1>5, <2>1, <2>2
<1> QED
  BY <1>7, <1>9, <1>10, <1>11, <1>12, <1>14, <1>15, <1>16, <1>17, <1>18, <1>19, <1>20, <1>21 DEF Work

LEMMA PastIs == Past <=> \A x \in ToSet(agenda) \cup ToSet(captured) : Event(x) => x.at <= now
<1>1. (\A x \in ToSet(agenda) : Event(x) => x.at <= now) <=> \A k \in DOMAIN agenda : Event(agenda[k]) => agenda[k].at <= now
  BY DEF ToSet
<1>2. (\A x \in ToSet(captured) : Event(x) => x.at <= now)
         <=> \A k \in DOMAIN captured : Event(captured[k]) => captured[k].at <= now
  BY DEF ToSet
<1> QED
  BY <1>1, <1>2 DEF Past

\* Every event is one of a call or a place.
LEMMA EventTyped ==
  ASSUME Types
  PROVE  \A x \in ToSet(agenda) \cup ToSet(captured) : Event(x) => x \in KeyEvent({"pos", "after", "keymap"})
<1>1. ASSUME NEW x \in ToSet(agenda), Event(x) PROVE x \in KeyEvent({"pos", "after", "keymap"})
  <2>1. x \in Call(Slot)
    BY DEF ToSet, Types
  <2> QED
    BY <1>1, <2>1, CallFields DEF Event
<1>2. ASSUME NEW x \in ToSet(captured), Event(x) PROVE x \in KeyEvent({"pos", "after", "keymap"})
  <2>1. x \in Kept
    BY Basics DEF ToSet
  <2> QED
    BY <1>2, <2>1 DEF Event, Kept, Free, Sent, KeyEvent
<1> QED
  BY <1>1, <1>2

\* How the clock moves.
LEMMA ClockGoes ==
  ASSUME SettingsInv, [Next]_vars
  PROVE  now \in Nat /\ now' \in {now, now + 1}
<1>1. CASE Work
  BY <1>1 DEF SettingsInv, Work, UpdateRetroTaps, Bubbling, WhileUndecided, AfterTimer, ReleaseCaptured, Keycode, PlainKey,
              PressRefused, BindingPressed, Pressed, ReleaseUnknown, BindingReleased, KeyUpDecision, Released, input
<1>2. CASE \E i \in Slot : TimerHandler(i)
  BY <1>2 DEF SettingsInv, TimerHandler, input
<1>3. CASE \E p \in Position : KeyDown(p) \/ KeyUp(p)
  BY <1>3 DEF SettingsInv, KeyDown, KeyUp
<1>4. CASE Tick
  BY <1>4 DEF SettingsInv, Tick
<1>5. CASE \E p \in HoldTaps : \E f \in DOMAIN Edits[p] : \E v \in Edits[p][f] : CopyField(p, f, v)
  BY <1>5 DEF SettingsInv, CopyField, input
<1>6. CASE UNCHANGED vars
  BY <1>6 DEF SettingsInv, vars
<1> QED
  BY <1>1, <1>2, <1>3, <1>4, <1>5, <1>6 DEF Next

\* A key event the kernel brings.
LEMMA KeyMakes ==
  ASSUME NEW p \in Position, KeyDown(p) \/ KeyUp(p)
  PROVE  /\ Idle /\ UNCHANGED <<build, timing, taps, undecided, captured, lastTapped, now>>
         /\ \E x : /\ ToSet(agenda') = {x} /\ Event(x) /\ ~Closes(x) /\ x.at = now
                   /\ x.do = "pos" /\ x.pos = p /\ Ending(agenda') = None
<1>1. \E d, n : agenda' = <<Key(p, d, now, n)>>
  BY DEF KeyDown, KeyUp
<1>2. PICK d, n : agenda' = <<Key(p, d, now, n)>>
  BY <1>1
<1> DEFINE x == Key(p, d, now, n)
<1>3. Event(x) /\ ~Closes(x) /\ x.at = now /\ x.do = "pos" /\ x.pos = p
  BY DEF Event, Closes, Key
<1> HIDE DEF x
<1>4. ToSet(<<x>>) = {x}
  BY DEF ToSet
<1>5. <<x>> # <<>> /\ Head(<<x>>) = x
  OBVIOUS
<1>6. Ending(<<x>>) = None
  BY <1>3, <1>5 DEF Ending
<1>7. Idle /\ UNCHANGED <<build, timing, taps, undecided, captured, lastTapped, now>>
  BY DEF KeyDown, KeyUp, settings, engine
<1>8. agenda' = <<x>>
  BY <1>2 DEF x
<1> QED
  BY <1>3, <1>4, <1>6, <1>7, <1>8

LEMMA PastKeeps ==
  ASSUME Types, Types', SettingsInv, Past, [Next]_vars
  PROVE  Past'
<1> DEFINE Z == ToSet(agenda) \cup ToSet(captured)
           Y == ToSet(agenda') \cup ToSet(captured')
<1>1. now \in Nat /\ now' \in {now, now + 1}
  BY ClockGoes
<1>2. \A x \in Z : Event(x) => x.at <= now /\ x.at \in Int
  BY PastIs, EventTyped DEF KeyEvent
<1>3. SUFFICES \A x \in Y : Event(x) => x.at <= now'
  <2>1. \A x : Event(x)' <=> Event(x)
    BY DEF Event
  <2>2. (\A x \in ToSet(agenda') : Event(x) => x.at <= now') => \A k \in DOMAIN agenda' : Event(agenda'[k]) => agenda'[k].at <= now'
    BY DEF ToSet
  <2>3. (\A x \in ToSet(captured') : Event(x) => x.at <= now')
           => \A k \in DOMAIN captured' : Event(captured'[k]) => captured'[k].at <= now'
    BY DEF ToSet
  <2> QED
    BY <2>2, <2>3 DEF Past, Event
<1>4. ASSUME Comes(Y, Z) PROVE \A x \in Y : Event(x) => x.at <= now'
  <2> HIDE DEF Y, Z
  <2> QED
    BY <1>1, <1>2, <1>4 DEF Comes
<1>5. ASSUME UNCHANGED <<agenda, captured>> PROVE \A x \in Y : Event(x) => x.at <= now'
  <2>1. Y = Z
    BY <1>5
  <2> HIDE DEF Y, Z
  <2> QED
    BY <1>1, <1>2, <2>1
<1>6. CASE Work
  BY <1>4, <1>6, WorkBrings
<1>7. CASE \E i \in Slot : TimerHandler(i)
  <2>1. PICK i \in Slot : TimerHandler(i)
    BY <1>7
  <2> DEFINE tp == [taps EXCEPT ![i].timer = Off]
  <2>2. agenda = <<>> /\ Decide(tp, i, "timer", <<>>) /\ UNCHANGED captured
    BY <2>1 DEF TimerHandler, Idle
  <2>3. TapShape(tp[i]) /\ <<>> \in Seq(Call(Slot))
    BY DEF Types, TapShape
  <2> HIDE DEF tp
  <2>4. \A x : Event(x) => (x \in ToSet(agenda') <=> x \in ToSet(agenda))
    BY <2>2, <2>3, DecideBrings
  <2>5. \A x \in Y : Event(x) => x \in Z
    BY <2>2, <2>4
  <2> HIDE DEF Y, Z
  <2> QED
    BY <1>1, <1>2, <2>5
<1>8. CASE \E p \in Position : KeyDown(p) \/ KeyUp(p)
  <2>1. UNCHANGED <<captured, now>> /\ \E x : ToSet(agenda') = {x} /\ x.at = now
    BY <1>8, KeyMakes
  <2> QED
    BY <1>1, <1>2, <2>1
<1>9. CASE Tick
  BY <1>5, <1>9 DEF Tick, engine
<1>10. CASE \E p \in HoldTaps : \E f \in DOMAIN Edits[p] : \E v \in Edits[p][f] : CopyField(p, f, v)
  BY <1>5, <1>10 DEF CopyField, engine
<1>11. CASE UNCHANGED vars
  BY <1>5, <1>11 DEF vars
<1> QED
  BY <1>6, <1>7, <1>8, <1>9, <1>10, <1>11 DEF Next

LEMMA InitPast == Init => Past
<1> SUFFICES ASSUME Init PROVE Past
  OBVIOUS
<1>1. captured = [j \in Place |-> Free] /\ agenda = <<>>
  BY DEF Init
<1>2. ~Event(Free) /\ DOMAIN agenda = {}
  BY <1>1 DEF Event, Free
<1> QED
  BY <1>1, <1>2 DEF Past

-----------------------------------------------------------------------------
(* Every step keeps it all. *)

LinesInv == CallsInv /\ SettingsInv /\ Past /\ (overflow \/ LineInv)

LEMMA LinesKeep ==
  ASSUME Calm, Plain, LinesInv, [Next]_vars
  PROVE  LinesInv'
<1>1. CallsInv'
  BY StepKeeps DEF LinesInv, CallsInv
<1>2. Types /\ Types'
  BY <1>1 DEF LinesInv, CallsInv, OwnedInv
<1>3. SettingsInv'
  BY <1>1, SettingsKeep DEF LinesInv, CallsInv, OwnedInv
<1>4. Past'
  BY <1>2, PastKeeps DEF LinesInv
<1>5. overflow' \/ LineInv'
  <2>1. CASE overflow
    BY <2>1, OverflowStays
  <2>2. CASE LineInv
    BY <2>2, LineKeeps DEF LinesInv
  <2> QED
    BY <2>1, <2>2 DEF LinesInv
<1> QED
  BY <1>1, <1>3, <1>4, <1>5 DEF LinesInv

LEMMA LinesHold ==
  ASSUME Calm, Plain
  PROVE  Spec => []LinesInv
<1>1. Init => LinesInv
  BY InitCalls, InitLines, InitPast DEF LinesInv
<1>2. LinesInv /\ [Next]_vars => LinesInv'
  BY LinesKeep
<1> QED
  BY <1>1, <1>2, PTL DEF Spec

\* The keymap sees the presses in the order the keys went down, on any calm and plain
\* keyboard, until an event is lost to a full array: whatever was captured and raised
\* again, however often, no press overtakes an earlier one.
THEOREM PressesComeInOrder ==
  ASSUME Calm, Plain
  PROVE  Spec => []PressesInOrder
<1>1. LinesInv => PressesInOrder
  <2> SUFFICES ASSUME LinesInv, Doing("keymap"), Head(agenda).down, Head(agenda).pos \notin Ignored, ~overflow
               PROVE  Head(agenda).n > seen
    BY DEF PressesInOrder
  <2>1. agenda # <<>> /\ Counts(Head(agenda)) /\ agenda \in Seq(Call(Slot))
    BY DEF Doing, Counts, Event, LinesInv, CallsInv, OwnedInv, Types
  <2>2. Rec(Head(agenda)) \in Events(agenda, captured)
    BY <2>1, HeadHas
  <2>3. Fresh(Events(agenda, captured), serial, seen)
    BY DEF LinesInv, LineInv, Going, EventsInv
  <2> QED
    BY <2>2, <2>3 DEF Fresh, Rec
<1>2. Spec => []LinesInv
  BY LinesHold
<1> QED
  BY <1>1, <1>2, PTL

\* An undecided hold-tap always waits for something that will happen: between two events
\* its key is down and its timer runs, until an event is lost to a full array.
THEOREM UndecidedEnds ==
  ASSUME Calm, Plain
  PROVE  Spec => []UndecidedIsTimed
<1>1. LinesInv => UndecidedIsTimed
  <2> SUFFICES ASSUME LinesInv, Idle, undecided # None, ~overflow
               PROVE  taps[undecided].pos \in held /\ taps[undecided].timer # Off
    BY DEF UndecidedIsTimed
  <2> DEFINE p == taps[undecided].pos
             ks == Keys(taps)
  <2>1. /\ Types /\ Owned(agenda, captured, TRUE) /\ undecided \in Slot /\ DOMAIN agenda = {}
        /\ DOMAIN ks = Slot /\ \A i \in Slot : ks[i] = taps[i].pos
    <3>1. (undecided # None) = TRUE
      OBVIOUS
    <3>2. Types /\ Owned(agenda, captured, TRUE)
      BY <3>1, Ready DEF LinesInv
    <3>3. undecided \in Slot /\ DOMAIN taps = Slot
      BY <3>2 DEF Types
    <3>4. DOMAIN agenda = {}
      BY DEF Idle
    <3>5. DOMAIN ks = Slot /\ \A i \in Slot : ks[i] = taps[i].pos
      BY <3>3 DEF Keys
    <3> QED
      BY <3>2, <3>3, <3>4, <3>5
  <2>2. Awaited(taps, undecided, agenda, captured)
    BY DEF LinesInv, LineInv
  <2>3. taps[undecided].timer # Off
    BY <2>1, <2>2 DEF Awaited, Has
  <2>4. Follows(Events(agenda, captured), held, p)
    <3>1. EventsInv(Events(agenda, captured), held, serial, seen, ActiveKeys(agenda, ks))
      BY DEF LinesInv, LineInv, Going
    <3>2. undecided \in DOMAIN ks /\ ks[undecided] = p /\ p # NoKey /\ ~Ends(agenda, undecided)
      BY <2>1, <2>2 DEF Awaited, Ends
    <3> HIDE DEF p, ks
    <3>3. p \in ActiveKeys(agenda, ks)
      BY <3>2, ActiveAre
    <3> QED
      BY <3>1, <3>3 DEF EventsInv
  <2>5. ASSUME NEW z \in Events(agenda, captured), z.pos = p PROVE FALSE
    <3>1. PICK j \in DOMAIN captured : Counts(captured[j]) /\ z = Rec(captured[j])
      BY <2>1, EventsAre
    <3>2. captured[j] # Free
      BY <3>1 DEF Counts, Event, Free
    <3>3. Taken(captured, 1, j)
      BY <2>1, <3>2 DEF Owned
    <3> QED
      BY <2>2, <2>5, <3>1, <3>3 DEF Awaited, NoneOf, Rec
  <2> QED
    BY <2>3, <2>4, <2>5 DEF Follows
<1>2. Spec => []LinesInv
  BY LinesHold
<1> QED
  BY <1>1, <1>2, PTL

=============================================================================
