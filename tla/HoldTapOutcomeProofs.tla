------------------------ MODULE HoldTapOutcomeProofs -------------------------
(***************************************************************************)
(* Proofs about what becomes of a hold-tap, for any number of keys, slots   *)
(* and places, any settings and any edits to them: it is decided as its     *)
(* term says, what it presses is what was decided, and once its key is up   *)
(* nothing is left of it.                                                   *)
(***************************************************************************)
EXTENDS HoldTapProofs, FiniteSetTheorems

-----------------------------------------------------------------------------
(* The times.  "X" stands for the calls under way, "Z" for these and what   *)
(* is captured, "en" for the hold-tap that is being told its key is up.     *)

\* The press of a key that is no modifier.
PlainPress(x) == x.do = "code" /\ x.down /\ ~IsMod(x.code) /\ ~IsLayer(x.code)

\* There is a time no mark of the past is later than, and no press to come earlier.
Floor(f, Z, tp, last, nw) ==
    /\ f \in Int /\ f <= nw
    /\ last.at \in Int /\ last.at <= f
    /\ \A i \in Slot : tp[i].pos # NoKey => tp[i].at <= f
    /\ \A x \in Z : PlainPress(x) => x.at <= f
    /\ \A x \in Z : Counts(x) /\ x.down => f <= x.at

\* The times alone decide a hold-tap on key p.
ByTime(p) ==
    /\ timing[p].flavor = "tap-preferred" /\ timing[p].idle = -1 /\ timing[p].quick = -1
    /\ \A f \in DOMAIN Edits[p] : Edits[p][f] = {}
Due(h) == h.at + timing[h.pos].term
Open(h) == h.status = "undecided" \/ h.status = "tap"
Unforced(h) == Config[h.pos].triggers = {} \/ h.other \in {NoKey, h.pos}
Closing(X, i) == {x \in X : Closes(x) /\ x.i = i}

\* Hold-tap i, that the times decide, becomes a hold at the end of its term and not
\* before, if its key did not come up earlier.
InTerm(i, h, X, Z, nw) ==
    /\ h.timer \in Int /\ Due(h) \in Int
    /\ h.timer # Off => Due(h) <= h.timer
    /\ Unforced(h) =>
          /\ \A x \in Closing(X, i) : IF Open(h) THEN x.at <= Due(h) ELSE Due(h) <= x.at
          /\ h.status = "tap" => Closing(X, i) # {}
          /\ ~Open(h) => Due(h) <= nw /\ \A x \in Z : Counts(x) /\ x.pos = h.pos /\ ~x.down => Due(h) <= x.at

\* Hold-tap i with all of its state.
SlotOK(i, h, u, en, X, Z, nw) ==
    /\ h.pos = NoKey => h = Unused
    /\ h.pos # NoKey =>
          /\ h.status = "undecided" => i = u /\ (Closing(X, i) # {} => i = en)
          /\ h.other = h.pos => Config[h.pos].triggers = {} \/ h.pos \in Config[h.pos].triggers
          /\ ByTime(h.pos) => InTerm(i, h, X, Z, nw)

SlotsOK(tp, u, ag, cap, nw) ==
    \A i \in Slot : SlotOK(i, tp[i], u, Ending(ag), ToSet(ag), ToSet(ag) \cup ToSet(cap), nw)

Timed(tp, u, last, ag, cap, nw) ==
    /\ \E f \in Int : Floor(f, ToSet(ag) \cup ToSet(cap), tp, last, nw)
    /\ SlotsOK(tp, u, ag, cap, nw)

TimeInv == Timed(taps, undecided, lastTapped, agenda, captured, now)

\* Only modifiers are ignored, and a hold-tap that looks at the releases of other keys
\* counts its own key among the triggers.
Punctual ==
    \A b \in Builds :
        /\ UNION {b.config[p].ignore : p \in DOMAIN b.config} \subseteq ModKeys
        /\ \A p \in DOMAIN b.config :
              b.config[p].onRelease => b.config[p].triggers = {} \/ p \in b.config[p].triggers

LEMMA CountsComes ==
  ASSUME NEW Y, NEW Z, Comes(Y, Z), NEW y \in Y, Counts(y)
  PROVE  \E z \in Z : Counts(z) /\ z.pos = y.pos /\ z.down = y.down /\ z.at = y.at
  BY DEF Comes, Counts

\* The floor stays where it is.
LEMMA FloorStays ==
  ASSUME NEW f, NEW Z, NEW tp, NEW last, NEW nw \in Int, Floor(f, Z, tp, last, nw),
         NEW Z2, NEW tp2, NEW last2, NEW nw2 \in Int, nw <= nw2, Comes(Z2, Z),
         last2.at \in Int /\ last2.at <= f,
         \A i \in Slot : tp2[i].pos # NoKey => tp2[i].at <= f,
         \A x \in Z2 : PlainPress(x) => x.at <= f
  PROVE  Floor(f, Z2, tp2, last2, nw2)
<1>1. \A x \in Z2 : Counts(x) /\ x.down => f <= x.at
  BY CountsComes DEF Floor
<1>2. f \in Int /\ f <= nw2
  BY DEF Floor
<1> QED
  BY <1>1, <1>2 DEF Floor

\* A hold-tap stays as it is, but for its timer that may be off, or is one kind of hold
\* after the other.
Stays(i, h, h2, X, X2, u, u2, en, en2) ==
    /\ h.pos = NoKey => h2 = h
    /\ h2.pos = h.pos /\ h2.at = h.at /\ h2.other = h.other /\ h2.timer \in {h.timer, Off}
    /\ h2.status = h.status \/ (~Open(h) /\ ~Open(h2))
    /\ h.pos # NoKey => Closing(X2, i) = Closing(X, i)
    /\ h.status = "undecided" /\ h.pos # NoKey => u2 = u /\ (en2 = en \/ en # i)

LEMMA SlotStays ==
  ASSUME NEW i, NEW h, NEW u, NEW en, NEW X, NEW Z, NEW nw \in Int, SlotOK(i, h, u, en, X, Z, nw),
         NEW h2, NEW u2, NEW en2, NEW X2, NEW Z2, NEW nw2 \in Int, nw <= nw2, Comes(Z2, Z),
         Stays(i, h, h2, X, X2, u, u2, en, en2)
  PROVE  SlotOK(i, h2, u2, en2, X2, Z2, nw2)
<1>0. /\ h.pos = NoKey => h2 = h
      /\ h2.pos = h.pos /\ h2.at = h.at /\ h2.other = h.other /\ h2.timer \in {h.timer, Off}
      /\ h2.status = h.status \/ (~Open(h) /\ ~Open(h2))
      /\ h.pos # NoKey => Closing(X2, i) = Closing(X, i)
      /\ h.status = "undecided" /\ h.pos # NoKey => u2 = u /\ (en2 = en \/ en # i)
  BY DEF Stays
<1>1. CASE h.pos = NoKey
  BY <1>0, <1>1 DEF SlotOK
<1>2. CASE h.pos # NoKey
  <2>1. Due(h2) = Due(h) /\ (Unforced(h2) <=> Unforced(h)) /\ (Open(h2) <=> Open(h))
    BY <1>0 DEF Due, Unforced, Open
  <2>2. h2.status = "undecided" => i = u2 /\ (Closing(X2, i) # {} => i = en2)
    BY <1>0, <1>2 DEF SlotOK, Open
  <2>3. ByTime(h.pos) => InTerm(i, h2, X2, Z2, nw2)
    <3> SUFFICES ASSUME ByTime(h.pos) PROVE InTerm(i, h2, X2, Z2, nw2)
      OBVIOUS
    <3>1. InTerm(i, h, X, Z, nw)
      BY <1>2 DEF SlotOK
    <3>2. h2.status = "tap" <=> h.status = "tap"
      BY <1>0 DEF Open
    <3>3. h2.timer \in Int /\ Due(h2) \in Int /\ (h2.timer # Off => Due(h2) <= h2.timer)
      BY <1>0, <2>1, <3>1 DEF InTerm, Off
    <3>4. ASSUME Unforced(h), ~Open(h), NEW x \in Z2, Counts(x), x.pos = h.pos, ~x.down PROVE Due(h) <= x.at
      BY <3>1, <3>4, CountsComes DEF InTerm
    <3>5. Unforced(h) /\ ~Open(h) => Due(h) <= nw2
      BY <3>1 DEF InTerm
    <3> QED
      BY <1>0, <1>2, <2>1, <3>1, <3>2, <3>3, <3>4, <3>5 DEF InTerm
  <2> QED
    BY <1>0, <1>2, <2>2, <2>3 DEF SlotOK
<1> QED
  BY <1>1, <1>2

\* An undecided hold-tap is decided because its term is over.
LEMMA SlotDecided ==
  ASSUME NEW i, NEW h, h.status = "undecided", h.pos # NoKey, NEW u, NEW en, NEW X, NEW Z, NEW nw \in Int,
         SlotOK(i, h, u, en, X, Z, nw), DOMAIN h = {"pos", "status", "at", "other", "timer"},
         NEW d, d # "undecided", NEW u2, NEW en2, NEW X2, NEW Z2, NEW nw2 \in Int,
         ByTime(h.pos) /\ Unforced(h) =>
            \/ /\ d = "tap" /\ Closing(X2, i) # {}
               /\ \A x \in Closing(X2, i) : x.at <= Due(h)
            \/ /\ d # "tap" /\ Due(h) <= nw2
               /\ \A x \in Closing(X2, i) : Due(h) <= x.at
               /\ \A x \in Z2 : Counts(x) /\ x.pos = h.pos /\ ~x.down => Due(h) <= x.at
  PROVE  SlotOK(i, [h EXCEPT !.status = d], u2, en2, X2, Z2, nw2)
<1> DEFINE h2 == [h EXCEPT !.status = d]
<1>1. h2.pos = h.pos /\ h2.at = h.at /\ h2.other = h.other /\ h2.timer = h.timer /\ h2.status = d
  OBVIOUS
<1> HIDE DEF h2
<1>2. Due(h2) = Due(h) /\ (Unforced(h2) <=> Unforced(h)) /\ (Open(h2) <=> d = "tap")
  BY <1>1 DEF Due, Unforced, Open
<1>3. ByTime(h.pos) => InTerm(i, h2, X2, Z2, nw2)
  <2> SUFFICES ASSUME ByTime(h.pos) PROVE InTerm(i, h2, X2, Z2, nw2)
    OBVIOUS
  <2>1. InTerm(i, h, X, Z, nw)
    BY DEF SlotOK
  <2> QED
    BY <1>1, <1>2, <2>1 DEF InTerm
<1>4. SlotOK(i, h2, u2, en2, X2, Z2, nw2)
  BY <1>1, <1>3 DEF SlotOK
<1> QED
  BY <1>4 DEF h2

\* The same invariant after a step that changes no setting.
LEMMA TimeStep ==
  ASSUME UNCHANGED <<build, timing>>, NEW f \in Int,
         Floor(f, ToSet(agenda') \cup ToSet(captured'), taps', lastTapped', now'),
         SlotsOK(taps', undecided', agenda', captured', now')
  PROVE  TimeInv'
<1>1. Timed(taps', undecided', lastTapped', agenda', captured', now')
  BY DEF Timed
<1>2. Slot' = Slot /\ HoldTaps' = HoldTaps /\ Ignored' = Ignored /\ Config' = Config /\ Edits' = Edits
  BY DEF Slot, MaxHeld, HoldTaps, Config, Ignored, Edits
<1> QED
  BY <1>1, <1>2 DEF TimeInv, Timed, SlotsOK, Floor, SlotOK, InTerm, ByTime, Due, Unforced, Counts, Event, Ending, Closing, Closes

\* The same in the terms of the moves of each hold-tap.
LEMMA TimeMoves ==
  ASSUME UNCHANGED <<build, timing>>, now \in Int, now' \in {now, now + 1},
         NEW tp, SlotsOK(tp, undecided, agenda, captured, now),
         NEW f \in Int, Floor(f, ToSet(agenda) \cup ToSet(captured), tp, lastTapped, now),
         Comes(ToSet(agenda') \cup ToSet(captured'), ToSet(agenda) \cup ToSet(captured)),
         lastTapped'.at \in Int /\ lastTapped'.at <= f,
         \A i \in Slot : taps'[i].pos # NoKey => taps'[i].at <= f,
         \A x \in ToSet(agenda') \cup ToSet(captured') : PlainPress(x) => x.at <= f,
         \A i \in Slot :
            \/ Stays(i, tp[i], taps'[i], ToSet(agenda), ToSet(agenda'), undecided, undecided', Ending(agenda), Ending(agenda'))
            \/ SlotOK(i, taps'[i], undecided', Ending(agenda'), ToSet(agenda'), ToSet(agenda') \cup ToSet(captured'), now')
  PROVE  TimeInv'
<1> DEFINE Z == ToSet(agenda) \cup ToSet(captured)
           Y == ToSet(agenda') \cup ToSet(captured')
<1>1. now' \in Int /\ now <= now'
  OBVIOUS
<1>2. Floor(f, Y, taps', lastTapped', now')
  <2>1. Floor(f, Z, tp, lastTapped, now) /\ Comes(Y, Z) /\ \A x \in Y : PlainPress(x) => x.at <= f
    OBVIOUS
  <2> HIDE DEF Y, Z
  <2> QED
    BY <1>1, <2>1, FloorStays
<1>3. SlotsOK(taps', undecided', agenda', captured', now')
  <2> SUFFICES ASSUME NEW i \in Slot
               PROVE  SlotOK(i, taps'[i], undecided', Ending(agenda'), ToSet(agenda'), Y, now')
    BY DEF SlotsOK
  <2>1. CASE Stays(i, tp[i], taps'[i], ToSet(agenda), ToSet(agenda'), undecided, undecided', Ending(agenda), Ending(agenda'))
    <3>1. SlotOK(i, tp[i], undecided, Ending(agenda), ToSet(agenda), Z, now)
      BY DEF SlotsOK
    <3>2. Comes(Y, Z)
      OBVIOUS
    <3> HIDE DEF Y, Z
    <3> QED
      BY <1>1, <2>1, <3>1, <3>2, SlotStays
  <2> QED
    BY <2>1
<1> QED
  BY <1>2, <1>3, TimeStep

\* What may lie behind the event at the head: later events, and what an undecided
\* hold-tap has captured.
LEMMA EventsBehind ==
  ASSUME CallsInv, LineInv, agenda # <<>>, Event(Head(agenda)),
         NEW x \in ToSet(agenda) \cup ToSet(captured), Event(x)
  PROVE  \/ x = Head(agenda)
         \/ InTime(Head(agenda), x)
         \/ undecided # None /\ \E j \in DOMAIN captured : Taken(captured, 1, j) /\ captured[j] = x
<1> DEFINE e == Head(agenda)
           on == undecided # None
<1>1. /\ agenda \in Seq(Call(Slot)) /\ Owned(agenda, captured, on)
      /\ DOMAIN captured \subseteq Nat \ {0} /\ InLine(agenda, captured, on, Keys(taps))
  BY Ready DEF LineInv, Going
<1>2. 1 \in DOMAIN agenda /\ agenda[1] = e /\ DOMAIN agenda \subseteq Nat \ {0}
  BY <1>1, Behind
<1>3. CASE x \in ToSet(agenda)
  <2>1. PICK n \in DOMAIN agenda : agenda[n] = x
    BY <1>3 DEF ToSet
  <2>2. n = 1 \/ 1 < n
    BY <1>2
  <2>3. 1 < n => Line(e, x, Keys(taps))
    BY <1>1, <1>2, <2>1 DEF InLine
  <2> QED
    BY <1>2, <2>1, <2>2, <2>3 DEF Line
<1>4. CASE x \in ToSet(captured)
  <2>1. PICK j \in DOMAIN captured : captured[j] = x
    BY <1>4 DEF ToSet
  <2>2. captured[j] # Free
    BY <2>1 DEF Event, Free
  <2>3. CASE on /\ Taken(captured, 1, j)
    BY <2>1, <2>3
  <2>4. CASE \E n \in DOMAIN agenda : Covers(agenda[n], captured, j)
    <3>1. PICK n \in DOMAIN agenda : Covers(agenda[n], captured, j)
      BY <2>4
    <3>2. n # 1
      BY <1>2, <3>1 DEF Covers, Event
    <3>3. 1 < n
      BY <1>2, <3>2
    <3>4. Line(e, x, Keys(taps))
      BY <1>1, <1>2, <2>1, <3>1, <3>3 DEF InLine
    <3> QED
      BY <3>4 DEF Line
  <2> QED
    BY <1>1, <2>2, <2>3, <2>4 DEF Owned
<1> QED
  BY <1>3, <1>4

\* A decision, with the calls "rest" behind it.
LEMMA TimeDecides ==
  ASSUME Types, UNCHANGED <<build, timing, now>>,
         NEW tp, DOMAIN tp = Slot, \A j \in Slot : TapShape(tp[j]),
         SlotsOK(tp, undecided, agenda, captured, now),
         NEW f \in Int, Floor(f, ToSet(agenda) \cup ToSet(captured), tp, lastTapped, now),
         NEW i \in Slot, tp[i].pos # NoKey, NEW moment, NEW rest \in Seq(Call(Slot)), Decide(tp, i, moment, rest),
         Comes(ToSet(agenda') \cup ToSet(captured'), ToSet(agenda) \cup ToSet(captured)),
         \A x \in ToSet(rest) \cup ToSet(captured') : PlainPress(x) => x.at <= f,
         \A j \in Slot : j # i => Closing(ToSet(rest), j) = Closing(ToSet(agenda), j) /\ Ending(agenda) # j,
         tp[i].status = "undecided" /\ i = undecided /\ Decision(tp[i], moment) # "undecided"
               /\ ByTime(tp[i].pos) /\ Unforced(tp[i]) =>
            \/ /\ Decision(tp[i], moment) = "tap" /\ Closing(ToSet(rest), i) # {}
               /\ \A x \in Closing(ToSet(rest), i) : x.at <= Due(tp[i])
            \/ /\ Decision(tp[i], moment) # "tap" /\ Due(tp[i]) <= now
               /\ \A x \in Closing(ToSet(rest), i) : Due(tp[i]) <= x.at
               /\ \A x \in ToSet(agenda) \cup ToSet(captured) : Counts(x) /\ x.pos = tp[i].pos /\ ~x.down => Due(tp[i]) <= x.at,
         agenda' = rest /\ (tp[i].status # "undecided" \/ i # undecided \/ Decision(tp[i], moment) = "undecided") =>
            \A j \in Slot :
               \/ Stays(j, tp[j], tp[j], ToSet(agenda), ToSet(agenda'), undecided, undecided, Ending(agenda), Ending(agenda'))
               \/ SlotOK(j, tp[j], undecided, Ending(agenda'), ToSet(agenda'), ToSet(agenda') \cup ToSet(captured'), now)
  PROVE  TimeInv'
<1> DEFINE Z == ToSet(agenda) \cup ToSet(captured)
           Y == ToSet(agenda') \cup ToSet(captured')
           h == tp[i]
           d == Decision(h, moment)
<1>1. now \in Int /\ lastTapped.at \in Int /\ lastTapped.at <= f /\ \A j \in Slot : tp[j].pos # NoKey => tp[j].at <= f
  BY DEF Types, Floor
<1>2. CASE /\ taps' = tp /\ agenda' = rest /\ UNCHANGED <<undecided, lastTapped>>
           /\ h.status # "undecided" \/ i # undecided \/ d = "undecided"
  <2>1. \A j \in Slot :
            \/ Stays(j, tp[j], taps'[j], ToSet(agenda), ToSet(agenda'), undecided, undecided', Ending(agenda), Ending(agenda'))
            \/ SlotOK(j, taps'[j], undecided', Ending(agenda'), ToSet(agenda'), ToSet(agenda') \cup ToSet(captured'), now')
    BY <1>2
  <2>2. \A x \in ToSet(agenda') \cup ToSet(captured') : PlainPress(x) => x.at <= f
    BY <1>2
  <2>3. \A j \in Slot : taps'[j].pos # NoKey => taps'[j].at <= f
    BY <1>1, <1>2
  <2>4. lastTapped'.at \in Int /\ lastTapped'.at <= f
    BY <1>1, <1>2
  <2> QED
    BY <1>1, <2>1, <2>2, <2>3, <2>4, TimeMoves
<1>3. CASE /\ h.status = "undecided" /\ i = undecided /\ d # "undecided"
           /\ taps' = [tp EXCEPT ![i].status = d]
           /\ undecided' = None
           /\ lastTapped' = [pos |-> h.pos, at |-> h.at] \/ lastTapped' = lastTapped
           /\ Ending(agenda') = None
           /\ \E CS \in SUBSET Sent :
                 (\A x \in CS : x.at = h.at) /\ ToSet(agenda') = CS \cup {Release(1)} \cup ToSet(rest)
  <2>1. PICK CS \in SUBSET Sent : (\A x \in CS : x.at = h.at) /\ ToSet(agenda') = CS \cup {Release(1)} \cup ToSet(rest)
    BY <1>3
  <2>2. h.at \in Int /\ h.at <= f /\ DOMAIN h = {"pos", "status", "at", "other", "timer"}
    BY <1>1 DEF TapShape
  <2>3. lastTapped'.at \in Int /\ lastTapped'.at <= f
    BY <1>1, <1>3, <2>2
  <2>4. ~Closes(Release(1)) /\ ~PlainPress(Release(1)) /\ \A x \in CS : ~Closes(x)
    BY CodesAreNoEvents DEF Release, Closes, PlainPress
  <2>5. \A x \in Y : PlainPress(x) => x.at <= f
    BY <2>1, <2>2, <2>4
  <2>6. \A j : Closing(ToSet(agenda'), j) = Closing(ToSet(rest), j)
    BY <2>1, <2>4 DEF Closing
  <2>7. taps'[i] = [h EXCEPT !.status = d] /\ \A j \in Slot : j # i => taps'[j] = tp[j]
    BY <1>3
  <2>8. \A j \in Slot : taps'[j].pos # NoKey => taps'[j].at <= f
    <3>1. taps'[i].at = h.at
      BY <2>2, <2>7
    <3> QED
      BY <1>1, <2>2, <2>7, <3>1
  <2>9. ASSUME NEW j \in Slot, j # i
        PROVE  Stays(j, tp[j], taps'[j], ToSet(agenda), ToSet(agenda'), undecided, undecided', Ending(agenda), Ending(agenda'))
    <3>1. tp[j].pos # NoKey => tp[j].status # "undecided"
      BY <1>3, <2>9 DEF SlotsOK, SlotOK
    <3>2. Closing(ToSet(agenda'), j) = Closing(ToSet(agenda), j)
      BY <2>6, <2>9
    <3> QED
      BY <2>7, <2>9, <3>1, <3>2 DEF Stays
  <2>10. SlotOK(i, taps'[i], undecided', Ending(agenda'), ToSet(agenda'), Y, now')
    <3>1. SlotOK(i, h, undecided, Ending(agenda), ToSet(agenda), Z, now)
      BY DEF SlotsOK
    <3>2. ByTime(h.pos) /\ Unforced(h) =>
            \/ /\ d = "tap" /\ Closing(ToSet(agenda'), i) # {}
               /\ \A x \in Closing(ToSet(agenda'), i) : x.at <= Due(h)
            \/ /\ d # "tap" /\ Due(h) <= now'
               /\ \A x \in Closing(ToSet(agenda'), i) : Due(h) <= x.at
               /\ \A x \in Z : Counts(x) /\ x.pos = h.pos /\ ~x.down => Due(h) <= x.at
      BY <1>3, <2>6
    <3>3. Comes(Y, Z)
      OBVIOUS
    <3>4. h.status = "undecided" /\ h.pos # NoKey /\ d # "undecided"
      BY <1>3
    <3> HIDE DEF Y, Z, h, d
    <3>5. (\A x \in Z : Counts(x) /\ x.pos = h.pos /\ ~x.down => Due(h) <= x.at)
             => \A x \in Y : Counts(x) /\ x.pos = h.pos /\ ~x.down => Due(h) <= x.at
      BY <3>3, CountsComes
    <3>6. ByTime(h.pos) /\ Unforced(h) =>
            \/ /\ d = "tap" /\ Closing(ToSet(agenda'), i) # {}
               /\ \A x \in Closing(ToSet(agenda'), i) : x.at <= Due(h)
            \/ /\ d # "tap" /\ Due(h) <= now'
               /\ \A x \in Closing(ToSet(agenda'), i) : Due(h) <= x.at
               /\ \A x \in Y : Counts(x) /\ x.pos = h.pos /\ ~x.down => Due(h) <= x.at
      BY <3>2, <3>5
    <3>7. now' \in Int
      BY <1>1
    <3>8. SlotOK(i, [h EXCEPT !.status = d], undecided', Ending(agenda'), ToSet(agenda'), Y, now')
      BY <1>1, <2>2, <3>1, <3>4, <3>6, <3>7, SlotDecided
    <3> QED
      BY <2>7, <3>8
  <2>11. \A j \in Slot :
            \/ Stays(j, tp[j], taps'[j], ToSet(agenda), ToSet(agenda'), undecided, undecided', Ending(agenda), Ending(agenda'))
            \/ SlotOK(j, taps'[j], undecided', Ending(agenda'), ToSet(agenda'), ToSet(agenda') \cup ToSet(captured'), now')
    BY <2>9, <2>10
  <2>12. now' \in {now, now + 1}
    OBVIOUS
  <2> HIDE DEF h, d
  <2> QED
    BY <1>1, <2>3, <2>5, <2>8, <2>11, <2>12, TimeMoves
<1>4. TapShape(tp[i])
  OBVIOUS
<1>5. \/ /\ taps' = tp /\ agenda' = rest /\ UNCHANGED <<undecided, lastTapped>>
         /\ h.status # "undecided" \/ i # undecided \/ d = "undecided"
      \/ /\ h.status = "undecided" /\ i = undecided /\ d # "undecided"
         /\ taps' = [tp EXCEPT ![i].status = d]
         /\ undecided' = None
         /\ lastTapped' = [pos |-> h.pos, at |-> h.at] \/ lastTapped' = lastTapped
         /\ Ending(agenda') = None
         /\ \E CS \in SUBSET Sent :
               (\A x \in CS : x.at = h.at) /\ ToSet(agenda') = CS \cup {Release(1)} \cup ToSet(rest)
  BY <1>4, DecideMakes
<1> HIDE DEF h, d
<1> QED
  BY <1>2, <1>3, <1>5

LEMMA TimeReady ==
  ASSUME CallsInv, TimeInv
  PROVE  /\ Types /\ now \in Int /\ DOMAIN taps = Slot /\ \A i \in Slot : TapShape(taps[i])
         /\ None \notin Slot
         /\ SlotsOK(taps, undecided, agenda, captured, now)
         /\ \E f \in Int : Floor(f, ToSet(agenda) \cup ToSet(captured), taps, lastTapped, now)
<1>1. Types
  BY DEF CallsInv, OwnedInv
<1> QED
  BY <1>1, Basics DEF Types, TimeInv, Timed

\* A step that moves calls and captured events only, and maybe marks a plain press.
LEMMA TimeCalls ==
  ASSUME CallsInv, TimeInv, UNCHANGED <<build, timing, taps, undecided>>, now' \in {now, now + 1},
         Comes(ToSet(agenda') \cup ToSet(captured'), ToSet(agenda) \cup ToSet(captured)),
         \/ lastTapped' = lastTapped
         \/ lastTapped'.at \in Int /\ \E z \in ToSet(agenda) : PlainPress(z) /\ lastTapped'.at = z.at,
         \A x \in ToSet(agenda') \cup ToSet(captured') : PlainPress(x) =>
            \E z \in ToSet(agenda) \cup ToSet(captured) : PlainPress(z) /\ x.at = z.at,
         \A x : Closes(x) => (x \in ToSet(agenda') <=> x \in ToSet(agenda)),
         Ending(agenda) = None
  PROVE  TimeInv'
<1> DEFINE Z == ToSet(agenda) \cup ToSet(captured)
<1>1. /\ Types /\ now \in Int /\ None \notin Slot /\ SlotsOK(taps, undecided, agenda, captured, now)
      /\ \E f \in Int : Floor(f, Z, taps, lastTapped, now)
  BY TimeReady
<1>2. PICK f \in Int : Floor(f, Z, taps, lastTapped, now)
  BY <1>1
<1>3. lastTapped'.at \in Int /\ lastTapped'.at <= f
  BY <1>2 DEF Floor
<1>4. \A i \in Slot : taps'[i].pos # NoKey => taps'[i].at <= f
  BY <1>2 DEF Floor
<1>5. \A x \in ToSet(agenda') \cup ToSet(captured') : PlainPress(x) => x.at <= f
  BY <1>2 DEF Floor
<1>6. ASSUME NEW i \in Slot
      PROVE  Stays(i, taps[i], taps'[i], ToSet(agenda), ToSet(agenda'), undecided, undecided', Ending(agenda), Ending(agenda'))
  <2>1. Closing(ToSet(agenda'), i) = Closing(ToSet(agenda), i)
    BY DEF Closing
  <2>2. Ending(agenda) # i
    BY <1>1
  <2> QED
    BY <2>1, <2>2 DEF Stays
<1> HIDE DEF Z
<1>7. Comes(ToSet(agenda') \cup ToSet(captured'), Z)
  BY DEF Z
<1> QED
  BY <1>1, <1>2, <1>3, <1>4, <1>5, <1>6, TimeMoves DEF Z

LEMMA BubblingTime ==
  ASSUME CallsInv, TimeInv, Types', Bubbling
  PROVE  TimeInv'
<1> DEFINE e == Head(agenda)
           t == Tail(agenda)
           z == Bubble(e)
<1>1. agenda # <<>> /\ e.do = "pos" /\ agenda' = <<z>> \o t /\ UNCHANGED <<build, timing, taps, undecided, lastTapped, captured, now>>
  BY DEF Bubbling, Doing, settings, engine, input
<1>2. Types /\ ToSet(agenda) = {e} \cup ToSet(t) /\ t \in Seq(Call(Slot)) /\ e \in KeyEvent({"pos", "after", "keymap"})
  BY <1>1, TimeReady, FirstCall, CallFields
<1>3. Event(z) /\ z.do = "keymap" /\ ~Closes(e) /\ z \in Call(Slot)
  BY <1>2, Staged, EventIs DEF Bubble
<1> HIDE DEF e, z, t
<1>4. ToSet(agenda') = {z} \cup ToSet(t)
  BY <1>1, <1>2, <1>3, SetCons
<1>5. ~PlainPress(z) /\ ~Closes(z)
  BY <1>3 DEF PlainPress, Closes
<1>6. Ending(agenda) = None
  BY <1>1 DEF Ending, e
<1>7. Comes(ToSet(agenda') \cup ToSet(captured'), ToSet(agenda) \cup ToSet(captured))
  BY <1>2, WorkBrings DEF Work
<1>8. \A x : Closes(x) => (x \in ToSet(agenda') <=> x \in ToSet(agenda))
  BY <1>2, <1>3, <1>4, <1>5
<1>9. \A x \in ToSet(agenda') \cup ToSet(captured') : PlainPress(x) => x \in ToSet(agenda) \cup ToSet(captured)
  BY <1>1, <1>2, <1>4, <1>5
<1>10. now' \in {now, now + 1}
  BY <1>1
<1> QED
  BY <1>1, <1>6, <1>7, <1>8, <1>9, <1>10, TimeCalls

LEMMA RefusedTime ==
  ASSUME CallsInv, TimeInv, Types', PressRefused \/ ReleaseUnknown
  PROVE  TimeInv'
<1> DEFINE e == Head(agenda)
           t == Tail(agenda)
<1>1. agenda # <<>> /\ e.do = "keymap" /\ agenda' = t /\ UNCHANGED <<build, timing, taps, undecided, lastTapped, captured, now>>
  BY DEF PressRefused, ReleaseUnknown, Doing, settings, engine, input
<1>2. Types /\ ToSet(agenda) = {e} \cup ToSet(t)
  BY <1>1, TimeReady, FirstCall
<1>3. ~Closes(e) /\ Ending(agenda) = None
  BY <1>1 DEF Closes, Ending
<1> HIDE DEF e, t
<1>4. Comes(ToSet(agenda') \cup ToSet(captured'), ToSet(agenda) \cup ToSet(captured))
  BY <1>2, WorkBrings DEF Work
<1>5. \A x : Closes(x) => (x \in ToSet(agenda') <=> x \in ToSet(agenda))
  BY <1>1, <1>2, <1>3
<1>6. \A x \in ToSet(agenda') \cup ToSet(captured') : PlainPress(x) => x \in ToSet(agenda) \cup ToSet(captured)
  BY <1>1, <1>2
<1>7. now' \in {now, now + 1}
  BY <1>1
<1> QED
  BY <1>1, <1>3, <1>4, <1>5, <1>6, <1>7, TimeCalls

LEMMA ReleaseCapturedTime ==
  ASSUME CallsInv, TimeInv, Types', ReleaseCaptured
  PROVE  TimeInv'
<1> DEFINE e == Head(agenda)
           t == Tail(agenda)
<1>1. agenda # <<>> /\ e.do = "release" /\ UNCHANGED <<build, timing, taps, undecided, lastTapped>>
  BY DEF ReleaseCaptured, Doing, settings
<1>2. Types /\ ToSet(agenda) = {e} \cup ToSet(t)
  BY <1>1, TimeReady, FirstCall
<1>3. ~Closes(e) /\ Ending(agenda) = None
  BY <1>1 DEF Closes, Ending
<1>4. Comes(ToSet(agenda') \cup ToSet(captured'), ToSet(agenda) \cup ToSet(captured))
  BY <1>2, WorkBrings DEF Work
<1>5. CASE agenda' = t /\ UNCHANGED <<captured, now>>
  <2> HIDE DEF e, t
  <2>1. \A x : Closes(x) => (x \in ToSet(agenda') <=> x \in ToSet(agenda))
    BY <1>2, <1>3, <1>5
  <2>2. \A x \in ToSet(agenda') \cup ToSet(captured') : PlainPress(x) => x \in ToSet(agenda) \cup ToSet(captured)
    BY <1>2, <1>5
  <2>3. now' \in {now, now + 1}
    BY <1>5
  <2> QED
    BY <1>1, <1>3, <1>4, <2>1, <2>2, <2>3, TimeCalls
<1>6. CASE \E j \in Place : Raises(j)
  <2>1. PICK j \in Place : Raises(j)
    BY <1>6
  <2> DEFINE x == captured[j]
             z == [x EXCEPT !.from = j]
             r == Release(j + 1)
  <2>2. /\ x \in ToSet(captured) /\ z.do = x.do /\ z.at = x.at /\ ~Closes(z)
        /\ z.do = "code" => z.code = x.code /\ z.down = x.down
        /\ ToSet(agenda') = {z} \cup {r} \cup ToSet(t)
        /\ ToSet(captured') \subseteq ToSet(captured) \cup {Free}
    BY <1>1, <1>2, <2>1, RaisedIs DEF RaisedAs
  <2>3. ~Closes(r) /\ ~PlainPress(r) /\ ~PlainPress(Free)
    BY DEF Release, Closes, PlainPress, Free
  <2>4. now' \in {now, now + 1}
    BY <2>1 DEF Raises
  <2> HIDE DEF e, t, x, z, r
  <2>5. \A y : Closes(y) => (y \in ToSet(agenda') <=> y \in ToSet(agenda))
    BY <1>2, <1>3, <2>2, <2>3
  <2>6. PlainPress(z) => PlainPress(x) /\ z.at = x.at
    BY <2>2 DEF PlainPress
  <2>7. \A y \in ToSet(agenda') \cup ToSet(captured') : PlainPress(y) =>
           \E w \in ToSet(agenda) \cup ToSet(captured) : PlainPress(w) /\ y.at = w.at
    <3>1. \A y \in ToSet(agenda') \cup ToSet(captured') : PlainPress(y) => y = z \/ y \in ToSet(agenda) \cup ToSet(captured)
      BY <1>2, <2>2, <2>3
    <3>2. x \in ToSet(agenda) \cup ToSet(captured)
      BY <2>2
    <3> QED
      BY <2>6, <3>1, <3>2
  <2> QED
    BY <1>1, <1>3, <1>4, <2>4, <2>5, <2>7, TimeCalls
<1> QED
  BY <1>2, <1>5, <1>6, ReleaseCapturedTakes

LEMMA KeycodeTime ==
  ASSUME CallsInv, TimeInv, Types', Keycode
  PROVE  TimeInv'
<1> DEFINE e == Head(agenda)
           t == Tail(agenda)
           k == [e EXCEPT !.from = None]
<1>1. /\ agenda # <<>> /\ e.do = "code" /\ agenda' = t /\ UNCHANGED <<build, timing, taps, undecided, now>>
      /\ Capture(e) \/ UNCHANGED captured
      /\ \/ lastTapped' = lastTapped
         \/ PlainPress(e) /\ lastTapped' = [pos |-> NoKey, at |-> e.at]
  BY DEF Keycode, Doing, settings, input, PlainPress
<1>2. Types /\ ToSet(agenda) = {e} \cup ToSet(t) /\ e \in Sent
  BY <1>1, TimeReady, FirstCall, CallFields
<1>3. ~Closes(e) /\ Ending(agenda) = None
  BY <1>1 DEF Closes, Ending
<1>4. Comes(ToSet(agenda') \cup ToSet(captured'), ToSet(agenda) \cup ToSet(captured))
  BY <1>2, WorkBrings DEF Work
<1>5. k.at = e.at /\ (PlainPress(k) => PlainPress(e)) /\ e.at \in Int
  BY <1>2 DEF Sent, PlainPress
<1>6. ToSet(captured') \subseteq ToSet(captured) \cup {k}
  BY <1>1, CaptureAdds
<1> HIDE DEF e, t, k
<1>7. \A x : Closes(x) => (x \in ToSet(agenda') <=> x \in ToSet(agenda))
  BY <1>1, <1>2, <1>3
<1>8. \A x \in ToSet(agenda') \cup ToSet(captured') : PlainPress(x) =>
         \E z \in ToSet(agenda) \cup ToSet(captured) : PlainPress(z) /\ x.at = z.at
  BY <1>1, <1>2, <1>5, <1>6
<1>9. \/ lastTapped' = lastTapped
      \/ lastTapped'.at \in Int /\ \E z \in ToSet(agenda) : PlainPress(z) /\ lastTapped'.at = z.at
  BY <1>1, <1>2, <1>5
<1>10. now' \in {now, now + 1}
  BY <1>1
<1> QED
  BY <1>1, <1>3, <1>4, <1>7, <1>8, <1>9, <1>10, TimeCalls

\* A plain key sends what it is bound to, with the time it moved.
LEMMA PlainKeyTime ==
  ASSUME Punctual, CallsInv, LineInv, Past, TimeInv, Types', PlainKey
  PROVE  TimeInv'
<1> DEFINE e == Head(agenda)
           t == Tail(agenda)
           b == [of |-> e.pos, as |-> "key"]
           z == Code(b, e.down, e.at)
           Z == ToSet(agenda) \cup ToSet(captured)
           Y == ToSet(agenda') \cup ToSet(captured')
<1>1. /\ agenda # <<>> /\ e.do = "keymap" /\ agenda' = <<z>> \o t
      /\ UNCHANGED <<build, timing, taps, undecided, lastTapped, captured, now>>
  BY DEF PlainKey, Doing, settings, engine, input
<1>2. /\ Types /\ ToSet(agenda) = {e} \cup ToSet(t) /\ t \in Seq(Call(Slot))
      /\ e \in KeyEvent({"pos", "after", "keymap"}) /\ e \in Call(Slot)
  BY <1>1, TimeReady, FirstCall, CallFields
<1>3. /\ z \in Call(Slot) /\ z.do = "code" /\ z.at = e.at /\ z.down = e.down /\ z.code = b
      /\ Event(e) /\ ~Closes(e) /\ e.at \in Int
  <2>1. z \in Sent
    BY <1>2 DEF KeyEvent, Sent, Code, AnyBinding, None
  <2>2. z \in Call(Slot)
    BY <2>1 DEF Call
  <2> QED
    BY <1>2, <2>2 DEF Code, KeyEvent, Event, Closes
<1>4. PlainPress(z) => e.down /\ Counts(e)
  <2> SUFFICES ASSUME PlainPress(z) PROVE e.down /\ Counts(e)
    OBVIOUS
  <2>1. e.down /\ ~IsMod(b)
    BY <1>3 DEF PlainPress
  <2>2. e.pos \notin ModKeys
    BY <2>1 DEF IsMod
  <2>3. Ignored \subseteq ModKeys
    BY <1>2 DEF Punctual, Types, Ignored, HoldTaps, Config
  <2> QED
    BY <1>3, <2>1, <2>2, <2>3 DEF Counts
<1>5. ~Event(z) /\ ~Closes(z)
  BY <1>3 DEF Event, Closes
<1> HIDE DEF b, z, e, t
<1>6. ToSet(agenda') = {z} \cup ToSet(t)
  BY <1>1, <1>2, <1>3, SetCons
<1>7. Comes(Y, Z)
  BY <1>2, WorkBrings DEF Work
<1>8. \A x : Closes(x) => (x \in ToSet(agenda') <=> x \in ToSet(agenda))
  BY <1>2, <1>3, <1>5, <1>6
<1>9. \A x \in Y : x = z \/ x \in Z
  BY <1>1, <1>2, <1>6
<1>10. /\ now \in Int /\ None \notin Slot /\ SlotsOK(taps, undecided, agenda, captured, now)
       /\ \E f \in Int : Floor(f, Z, taps, lastTapped, now)
  BY TimeReady
<1>11. PICK f \in Int : Floor(f, Z, taps, lastTapped, now)
  BY <1>10
<1>12. Ending(agenda) = None
  BY <1>1 DEF Ending, e
<1>13. CASE ~PlainPress(z)
  <2>1. \A x \in Y : PlainPress(x) => \E w \in Z : PlainPress(w) /\ x.at = w.at
    BY <1>9, <1>13
  <2>2. now' \in {now, now + 1}
    BY <1>1
  <2> QED
    BY <1>1, <1>7, <1>8, <1>12, <2>1, <2>2, TimeCalls
<1>14. CASE PlainPress(z)
  <2> DEFINE g == e.at
  <2>1. Counts(e) /\ e.down /\ e \in Z /\ Event(e)
    BY <1>2, <1>3, <1>4, <1>14
  <2>2. f <= g /\ g <= now /\ g \in Int
    BY <1>3, <1>11, <2>1, PastIs DEF Floor
  <2>3. ASSUME NEW x \in Z, Counts(x), x.down PROVE g <= x.at
    <3>1. Event(x)
      BY <2>3 DEF Counts
    <3>2. CASE x = e
      BY <1>3, <3>2
    <3>3. CASE InTime(e, x)
      BY <1>1, <2>1, <2>3, <3>3 DEF InTime, e
    <3>4. CASE undecided # None
      <4>1. KeymapClear(agenda, captured, TRUE)
        <5>1. (undecided # None) = TRUE
          BY <3>4
        <5> QED
          BY <5>1 DEF LineInv, Going
      <4>2. 1 \in DOMAIN agenda /\ agenda[1] = e
        <5>1. agenda \in Seq(Call(Slot))
          BY <1>2 DEF Types
        <5> QED
          BY <1>1, <5>1, Behind DEF e
      <4> QED
        BY <1>1, <2>1, <4>1, <4>2 DEF KeymapClear, e
    <3>5. \/ x = e \/ InTime(e, x) \/ undecided # None
      BY <1>1, <2>1, <2>3, <3>1, EventsBehind DEF e
    <3> QED
      BY <3>2, <3>3, <3>4, <3>5
  <2>4. ASSUME NEW x \in Y, Counts(x), x.down PROVE g <= x.at
    BY <1>7, <2>3, <2>4, CountsComes
  <2>5. ASSUME NEW x \in Y, PlainPress(x) PROVE x.at <= g
    <3>1. x = z \/ (x \in Z /\ x.at <= f)
      BY <1>9, <1>11, <2>5 DEF Floor
    <3>2. x.at \in Int
      <4>1. x \in ToSet(agenda') \cup ToSet(captured') /\ x.do = "code"
        BY <2>5 DEF PlainPress
      <4>2. \A y \in ToSet(agenda) \cup ToSet(captured) : y.do = "code" => y \in Sent
        <5>1. \A y \in ToSet(agenda) : y.do = "code" => y \in Sent
          BY <1>2, CallFields DEF ToSet, Types
        <5>2. \A y \in ToSet(captured) : y \in Kept
          BY <1>2, Basics DEF ToSet
        <5>3. \A y \in Kept : y.do = "code" => y \in Sent
          BY DEF Kept, Free, Sent, KeyEvent
        <5> QED
          BY <5>1, <5>2, <5>3
      <4>3. x = z \/ x \in Sent
        BY <1>9, <4>1, <4>2
      <4> QED
        BY <1>3, <4>3 DEF Sent
    <3> QED
      BY <1>3, <2>2, <3>1, <3>2
  <2>6. Floor(g, Y, taps', lastTapped', now')
    <3>1. \A i \in Slot : taps[i].pos # NoKey => taps[i].at <= g
      <4>1. \A i \in Slot : taps[i].at \in Int
        BY <1>2 DEF Types, TapShape
      <4> QED
        BY <1>11, <2>2, <4>1 DEF Floor
    <3>2. lastTapped.at \in Int /\ lastTapped.at <= g
      BY <1>11, <2>2 DEF Floor
    <3> HIDE DEF g, Y
    <3> QED
      BY <1>1, <2>2, <2>4, <2>5, <3>1, <3>2 DEF Floor
  <2>7. SlotsOK(taps', undecided', agenda', captured', now')
    <3> SUFFICES ASSUME NEW i \in Slot
                 PROVE  SlotOK(i, taps'[i], undecided', Ending(agenda'), ToSet(agenda'), Y, now')
      BY DEF SlotsOK
    <3>1. SlotOK(i, taps[i], undecided, Ending(agenda), ToSet(agenda), Z, now)
      BY <1>10 DEF SlotsOK
    <3>2. Stays(i, taps[i], taps'[i], ToSet(agenda), ToSet(agenda'), undecided, undecided', Ending(agenda), Ending(agenda'))
      <4>1. Closing(ToSet(agenda'), i) = Closing(ToSet(agenda), i)
        BY <1>8 DEF Closing
      <4>2. Ending(agenda) # i
        BY <1>10, <1>12
      <4> QED
        BY <1>1, <4>1, <4>2 DEF Stays
    <3>3. now' \in Int /\ now <= now'
      BY <1>1, <1>10
    <3> HIDE DEF Y, Z
    <3> QED
      BY <1>7, <1>10, <3>1, <3>2, <3>3, SlotStays
  <2> QED
    BY <1>1, <2>2, <2>6, <2>7, TimeStep
<1> QED
  BY <1>13, <1>14

LEMMA UpdateRetroTapsTime ==
  ASSUME CallsInv, TimeInv, Types', UpdateRetroTaps
  PROVE  TimeInv'
<1> DEFINE R == RetroWaiting(Head(agenda).pos)
           i == Min(R)
           h == taps[i]
           cs == PressBinding(h, "holdInterrupt")
           Z == ToSet(agenda) \cup ToSet(captured)
           Y == ToSet(agenda') \cup ToSet(captured')
<1>1. /\ agenda # <<>> /\ Head(agenda).do = "pos" /\ R # {} /\ agenda' = cs \o agenda
      /\ taps' = [taps EXCEPT ![i].status = "holdInterrupt"]
      /\ UNCHANGED <<build, timing, undecided, captured, lastTapped, now>>
  BY DEF UpdateRetroTaps, Doing, settings, input
<1>2. /\ Types /\ now \in Int /\ DOMAIN taps = Slot /\ \A j \in Slot : TapShape(taps[j])
      /\ None \notin Slot /\ SlotsOK(taps, undecided, agenda, captured, now)
      /\ \E f \in Int : Floor(f, Z, taps, lastTapped, now)
  BY TimeReady
<1>3. i \in Slot /\ h.pos # NoKey /\ h.status = "holdTimer"
  <2>1. R \subseteq Nat /\ \A j \in R : j \in Slot /\ taps[j].pos # NoKey /\ taps[j].status = "holdTimer"
    BY DEF RetroWaiting, Slot
  <2> HIDE DEF R
  <2> QED
    BY <1>1, <2>1, MinIs
<1> HIDE DEF R, i
<1>4. PICK f \in Int : Floor(f, Z, taps, lastTapped, now)
  BY <1>2
<1>5. cs \in Seq(Sent) /\ (\A x \in ToSet(cs) : x \in Sent /\ x.at = h.at) /\ h.at <= f
  <2>1. TapShape(h)
    BY <1>2, <1>3
  <2>2. h.at <= f
    BY <1>3, <1>4 DEF Floor
  <2> QED
    BY <2>1, <2>2, PressAt DEF TapShape
<1>6. /\ DOMAIN taps' = Slot /\ \A j \in Slot : j # i => taps'[j] = taps[j]
      /\ taps'[i].pos = h.pos /\ taps'[i].at = h.at /\ taps'[i].other = h.other /\ taps'[i].timer = h.timer
      /\ taps'[i].status = "holdInterrupt"
  BY <1>1, <1>2, <1>3 DEF TapShape
<1> HIDE DEF cs
<1>7. ToSet(agenda') = ToSet(cs) \cup ToSet(agenda)
  <2>1. cs \in Seq(Call(Slot)) /\ agenda \in Seq(Call(Slot))
    BY <1>2, <1>5, SentIsCall DEF Types
  <2> QED
    BY <1>1, <2>1, SetJoin
<1>8. Ending(agenda') = None /\ Ending(agenda) = None
  <2>1. Ending(agenda) = None
    BY <1>1 DEF Ending
  <2>2. agenda \in Seq(Call(Slot)) /\ cs \in Seq(Call(Slot))
    BY <1>2, <1>5, SentIsCall DEF Types
  <2> QED
    BY <1>1, <1>5, <2>1, <2>2, EndingCodes
<1>9. \A x \in ToSet(cs) : ~Closes(x) /\ x.at <= f
  BY <1>5, CodesAreNoEvents
<1>10. \A x \in Y : PlainPress(x) => x.at <= f
  BY <1>1, <1>4, <1>7, <1>9 DEF Floor
<1>11. Comes(Y, Z)
  BY <1>2, WorkBrings DEF Work
<1>12. ASSUME NEW j \in Slot
       PROVE  Stays(j, taps[j], taps'[j], ToSet(agenda), ToSet(agenda'), undecided, undecided', Ending(agenda), Ending(agenda'))
  <2>1. Closing(ToSet(agenda'), j) = Closing(ToSet(agenda), j)
    BY <1>7, <1>9 DEF Closing
  <2>2. CASE j = i
    <3>1. ~Open(taps[j]) /\ ~Open(taps'[j])
      BY <1>3, <1>6, <2>2 DEF Open
    <3> QED
      BY <1>3, <1>6, <1>8, <2>1, <2>2, <3>1 DEF Stays
  <2>3. CASE j # i
    BY <1>1, <1>6, <1>8, <2>1, <2>3 DEF Stays
  <2> QED
    BY <2>2, <2>3
<1>13. \A j \in Slot : taps'[j].pos # NoKey => taps'[j].at <= f
  BY <1>4, <1>5, <1>6 DEF Floor
<1>14. lastTapped'.at \in Int /\ lastTapped'.at <= f /\ now' \in {now, now + 1}
  BY <1>1, <1>4 DEF Floor
<1> QED
  BY <1>1, <1>2, <1>4, <1>10, <1>11, <1>12, <1>13, <1>14, TimeMoves

\* A hold-tap remembers the first other key, its own as if it were none.
LEMMA SlotSees ==
  ASSUME NEW i, NEW h, NEW u, NEW en, NEW X, NEW Z, NEW nw, SlotOK(i, h, u, en, X, Z, nw),
         DOMAIN h = {"pos", "status", "at", "other", "timer"}, h.pos # NoKey, h.other = NoKey, NEW o,
         o = h.pos => Config[h.pos].triggers = {} \/ h.pos \in Config[h.pos].triggers
  PROVE  SlotOK(i, [h EXCEPT !.other = o], u, en, X, Z, nw)
<1> DEFINE g == [h EXCEPT !.other = o]
<1>1. g.pos = h.pos /\ g.at = h.at /\ g.status = h.status /\ g.timer = h.timer /\ g.other = o
  OBVIOUS
<1> HIDE DEF g
<1>2. Due(g) = Due(h) /\ Unforced(h) /\ (Open(g) <=> Open(h))
  BY <1>1 DEF Due, Unforced, Open
<1>3. ByTime(h.pos) => InTerm(i, g, X, Z, nw)
  <2> SUFFICES ASSUME ByTime(h.pos) PROVE InTerm(i, g, X, Z, nw)
    OBVIOUS
  <2>1. InTerm(i, h, X, Z, nw)
    BY DEF SlotOK
  <2> QED
    BY <1>1, <1>2, <2>1 DEF InTerm
<1>4. SlotOK(i, g, u, en, X, Z, nw)
  BY <1>1, <1>3 DEF SlotOK
<1> QED
  BY <1>4 DEF g

\* An unforced hold-tap that the times decide becomes a hold by the timer and a tap by
\* its release; another key does not decide it.
LEMMA DecidedSo ==
  ASSUME NEW h, h.pos # NoKey, ByTime(h.pos), Unforced(h),
         h.other = h.pos => Config[h.pos].triggers = {} \/ h.pos \in Config[h.pos].triggers
  PROVE  /\ Decision(h, "timer") = "holdTimer"
         /\ Decision(h, "keyUp") = "tap"
         /\ \A m \in {"otherDown", "otherUp"} : Decision(h, m) = "undecided"
<1> DEFINE f == timing[h.pos].flavor
<1>1. f = "tap-preferred" /\ ~ForcesTap(h)
  BY DEF ByTime, Unforced, ForcesTap
<1>2. f \in ToSet(Flavor)
  BY <1>1 DEF ToSet, Flavor
<1> HIDE DEF f
<1>3. /\ Outcome(f, "timer") = "holdTimer" /\ Outcome(f, "keyUp") = "tap"
      /\ \A m \in {"otherDown", "otherUp"} : Outcome(f, m) = "undecided"
  BY <1>1, <1>2 DEF Outcome
<1> QED
  BY <1>1, <1>3 DEF Decision, f

\* The last part of the listener.
LEMMA TimeBubbles ==
  ASSUME Types, Types', UNCHANGED <<build, timing, now>>, undecided # None,
         agenda # <<>>, Head(agenda).do \in {"pos", "after"},
         NEW tp, DOMAIN tp = Slot, \A j \in Slot : TapShape(tp[j]), tp[undecided].pos # NoKey,
         SlotsOK(tp, undecided, agenda, captured, now),
         NEW f \in Int, Floor(f, ToSet(agenda) \cup ToSet(captured), tp, lastTapped, now),
         Comes(ToSet(agenda') \cup ToSet(captured'), ToSet(agenda) \cup ToSet(captured)),
         (Bubbles(tp, Head(agenda), Tail(agenda)) /\ Ending(agenda') = None) \/ Captures(tp, Head(agenda), Tail(agenda))
  PROVE  TimeInv'
<1> DEFINE e == Head(agenda)
           t == Tail(agenda)
           u == undecided
           Y == ToSet(agenda') \cup ToSet(captured')
<1>1. /\ ToSet(agenda) = {e} \cup ToSet(t) /\ t \in Seq(Call(Slot)) /\ e \in KeyEvent({"pos", "after", "keymap"})
      /\ u \in Slot /\ None \notin Slot /\ now \in Int
  BY FirstCall, CallFields, Basics DEF Types
<1>2. ~Closes(e) /\ Ending(agenda) = None
  BY DEF Closes, Ending
<1>3. \A x \in ToSet(t) \cup ToSet(captured) : PlainPress(x) => x.at <= f
  BY <1>1 DEF Floor
<1>4. \A j : Closing(ToSet(t), j) = Closing(ToSet(agenda), j)
  BY <1>1, <1>2 DEF Closing
<1>5. CASE Bubbles(tp, e, t) /\ Ending(agenda') = None
  <2> DEFINE z == Bubble(e)
  <2>1. taps' = tp /\ UNCHANGED <<undecided, lastTapped, captured>> /\ ToSet(agenda') = {z} \cup ToSet(t)
    BY <1>5 DEF Bubbles
  <2>2. ~PlainPress(z) /\ ~Closes(z)
    <3>1. z.do = "keymap"
      BY <1>1, Staged DEF Bubble
    <3> QED
      BY <3>1 DEF PlainPress, Closes
  <2> HIDE DEF z, e, t, u
  <2>3. \A x \in Y : PlainPress(x) => x.at <= f
    BY <1>3, <2>1, <2>2
  <2>4. ASSUME NEW j \in Slot
        PROVE  Stays(j, tp[j], taps'[j], ToSet(agenda), ToSet(agenda'), undecided, undecided', Ending(agenda), Ending(agenda'))
    <3>1. Closing(ToSet(agenda'), j) = Closing(ToSet(agenda), j)
      BY <1>4, <2>1, <2>2 DEF Closing
    <3> QED
      BY <1>2, <1>5, <2>1, <3>1 DEF Stays
  <2>5. lastTapped'.at \in Int /\ lastTapped'.at <= f /\ now' \in {now, now + 1}
        /\ \A j \in Slot : taps'[j].pos # NoKey => taps'[j].at <= f
    BY <2>1 DEF Floor
  <2> QED
    BY <1>1, <2>1, <2>3, <2>4, <2>5, TimeMoves
<1>6. CASE Captures(tp, e, t)
  <2> DEFINE k == [[e EXCEPT !.do = "pos"] EXCEPT !.from = None]
  <2>1. ToSet(captured') \subseteq ToSet(captured) \cup {k}
    BY <1>6 DEF Captures
  <2>2. PICK m \in {"otherDown", "otherUp"} : Decide(tp, undecided, m, t)
    BY <1>6 DEF Captures
  <2>3. ~PlainPress(k)
    <3>1. k.do = "pos"
      BY <1>1 DEF KeyEvent
    <3> QED
      BY <3>1 DEF PlainPress
  <2> HIDE DEF k, e, t
  <2>4. \A x \in ToSet(t) \cup ToSet(captured') : PlainPress(x) => x.at <= f
    BY <1>3, <2>1, <2>3
  <2>5. \A j \in Slot : j # u => Closing(ToSet(t), j) = Closing(ToSet(agenda), j) /\ Ending(agenda) # j
    BY <1>1, <1>2, <1>4
  <2>6. ByTime(tp[u].pos) /\ Unforced(tp[u]) => Decision(tp[u], m) = "undecided"
    BY <1>1, DecidedSo DEF SlotsOK, SlotOK
  <2>7. ASSUME agenda' = t, NEW j \in Slot
        PROVE  Stays(j, tp[j], tp[j], ToSet(agenda), ToSet(agenda'), undecided, undecided, Ending(agenda), Ending(agenda'))
    <3>1. Closing(ToSet(agenda'), j) = Closing(ToSet(agenda), j) /\ Ending(agenda) # j
      BY <1>1, <1>2, <1>4, <2>7
    <3> QED
      BY <3>1 DEF Stays
  <2>8. tp[u].pos # NoKey
    OBVIOUS
  <2> HIDE DEF u
  <2>9. tp[u].status = "undecided" /\ u = undecided /\ Decision(tp[u], m) # "undecided"
               /\ ByTime(tp[u].pos) /\ Unforced(tp[u]) => FALSE
    BY <2>6
  <2> QED
    BY <1>1, <2>2, <2>4, <2>5, <2>7, <2>8, <2>9, TimeDecides DEF u
<1> QED
  BY <1>5, <1>6 DEF e, t

LEMMA ListenerMakes ==
  ASSUME Types, undecided \in Slot, NEW tp, TapShape(tp[undecided]), NEW e \in KeyEvent({"pos", "after", "keymap"}),
         NEW rest \in Seq(Call(Slot)), CaptureOrBubble(tp, e, rest)
  PROVE  (Bubbles(tp, e, rest) /\ Ending(agenda') = None) \/ Captures(tp, e, rest)
<1>1. CASE ~e.down /\ ~HaveCapturedDown(e.pos)
  <2> DEFINE z == Bubble(e)
  <2>1. taps' = tp /\ agenda' = <<z>> \o rest /\ UNCHANGED <<undecided, lastTapped, captured>>
    BY <1>1 DEF CaptureOrBubble
  <2>2. z \in Call(Slot) /\ z.do # "keyUp"
    BY EventIs, Staged DEF Bubble
  <2> HIDE DEF z
  <2>3. ToSet(<<z>> \o rest) = {z} \cup ToSet(rest) /\ Ending(<<z>> \o rest) = None
    BY <2>2, SetCons, EndingCons
  <2> QED
    BY <2>1, <2>3 DEF z, Bubbles
<1>2. CASE ~(~e.down /\ ~HaveCapturedDown(e.pos))
  <2> DEFINE q == [e EXCEPT !.do = "pos"]
  <2>1. Capture(q) /\ Decide(tp, undecided, IF e.down THEN "otherDown" ELSE "otherUp", rest)
    BY <1>2 DEF CaptureOrBubble
  <2> HIDE DEF q
  <2>2. ToSet(captured') \subseteq ToSet(captured) \cup {[q EXCEPT !.from = None]}
    BY <2>1, CaptureAdds
  <2>3. \E m \in {"otherDown", "otherUp"} : Decide(tp, undecided, m, rest)
    <3>1. CASE e.down
      BY <2>1, <3>1
    <3>2. CASE ~e.down
      BY <2>1, <3>2
    <3> QED
      BY <3>1, <3>2
  <2> QED
    BY <2>2, <2>3 DEF q, Captures
<1> QED
  BY <1>1, <1>2

LEMMA WhileUndecidedTime ==
  ASSUME Punctual, CallsInv, SettingsInv, LineInv, Past, TimeInv, Types', WhileUndecided
  PROVE  TimeInv'
<1> DEFINE e == Head(agenda)
           t == Tail(agenda)
           u == taps[undecided]
           c == Config[u.pos]
           tp == IF c.onRelease # e.down /\ u.other = NoKey THEN [taps EXCEPT ![undecided].other = e.pos] ELSE taps
           g == tp[undecided]
           z == [e EXCEPT !.do = "after"]
           b == Bubble(e)
           rest == <<z>> \o t
           Z == ToSet(agenda) \cup ToSet(captured)
<1>1. /\ agenda # <<>> /\ e.do = "pos" /\ undecided # None
      /\ UNCHANGED <<build, timing, now>>
      /\ IF e.pos = u.pos
           THEN taps' = tp /\ agenda' = <<b>> \o t /\ UNCHANGED <<undecided, lastTapped, captured>>
         ELSE IF e.at > u.at + timing[u.pos].term
           THEN Decide(tp, undecided, "timer", rest) /\ UNCHANGED captured
         ELSE CaptureOrBubble(tp, e, t)
  BY DEF WhileUndecided, Doing, settings, input
<1>2. /\ Types /\ now \in Int /\ DOMAIN taps = Slot /\ \A j \in Slot : TapShape(taps[j])
      /\ None \notin Slot /\ SlotsOK(taps, undecided, agenda, captured, now)
      /\ \E f \in Int : Floor(f, Z, taps, lastTapped, now)
  BY TimeReady
<1>3. /\ ToSet(agenda) = {e} \cup ToSet(t) /\ t \in Seq(Call(Slot)) /\ e \in KeyEvent({"pos", "after", "keymap"})
      /\ undecided \in Slot /\ TapShape(u) /\ agenda \in Seq(Call(Slot))
  BY <1>1, <1>2, FirstCall, CallFields DEF Types
<1>4. u.pos # NoKey /\ u.pos \in HoldTaps /\ u.status = "undecided" /\ NoneOf(u.pos, captured)
  BY <1>1, <1>3 DEF LineInv, Awaited, TapsIn
<1>5. e.pos = u.pos => ~e.down
  <2> SUFFICES ASSUME e.pos = u.pos, e.down PROVE FALSE
    OBVIOUS
  <2>1. Counts(e)
    BY <1>1, <1>4 DEF SettingsInv, Counts, Event
  <2> QED
    BY <1>1, <1>3, <1>4, <2>1, PressedFirst
<1>6. c.onRelease => c.triggers = {} \/ u.pos \in c.triggers
  BY <1>2, <1>4 DEF Punctual, Types, HoldTaps, Config
<1>7. /\ DOMAIN tp = Slot /\ \A j \in Slot : TapShape(tp[j]) /\ tp[j].pos = taps[j].pos /\ tp[j].at = taps[j].at
      /\ g.status = "undecided" /\ g.pos = u.pos /\ g.at = u.at
  BY <1>2, <1>3, <1>4 DEF TapShape
<1>8. SlotsOK(tp, undecided, agenda, captured, now)
  <2> SUFFICES ASSUME NEW j \in Slot PROVE SlotOK(j, tp[j], undecided, Ending(agenda), ToSet(agenda), Z, now)
    BY DEF SlotsOK
  <2>1. SlotOK(j, taps[j], undecided, Ending(agenda), ToSet(agenda), Z, now)
    BY <1>2 DEF SlotsOK
  <2>2. CASE tp = taps \/ j # undecided
    <3>1. tp[j] = taps[j]
      BY <1>2, <2>2
    <3> HIDE DEF tp
    <3> QED
      BY <2>1, <3>1
  <2>3. CASE c.onRelease # e.down /\ u.other = NoKey /\ j = undecided
    <3>1. tp[j] = [u EXCEPT !.other = e.pos]
      BY <1>2, <2>3
    <3>2. e.pos = u.pos => Config[u.pos].triggers = {} \/ u.pos \in Config[u.pos].triggers
      <4>1. c.onRelease \in BOOLEAN
        BY <1>2, <1>4, HoldTapAssumption DEF Types, HoldTaps, Config
      <4>2. e.down = FALSE => c.onRelease = TRUE
        BY <2>3, <4>1
      <4>3. e.down \in BOOLEAN
        BY <1>3 DEF KeyEvent
      <4> QED
        BY <1>5, <1>6, <4>2, <4>3
    <3>3. DOMAIN u = {"pos", "status", "at", "other", "timer"}
      BY <1>3 DEF TapShape
    <3> HIDE DEF tp, e, Z
    <3>4. SlotOK(j, [u EXCEPT !.other = e.pos], undecided, Ending(agenda), ToSet(agenda), Z, now)
      <4>1. SlotOK(j, u, undecided, Ending(agenda), ToSet(agenda), Z, now) /\ u.other = NoKey
        BY <2>1, <2>3
      <4> HIDE DEF u
      <4> QED
        BY <1>4, <3>2, <3>3, <4>1, SlotSees
    <3> QED
      BY <3>1, <3>4
  <2> QED
    BY <2>2, <2>3
<1>9. PICK f \in Int : Floor(f, Z, taps, lastTapped, now)
  BY <1>2
<1>10. Floor(f, Z, tp, lastTapped, now)
  BY <1>7, <1>9 DEF Floor
<1>11. Comes(ToSet(agenda') \cup ToSet(captured'), Z)
  BY <1>2, WorkBrings DEF Work
<1>12. /\ z \in Call(Slot) /\ z.do = "after" /\ b \in Call(Slot) /\ b.do = "keymap"
       /\ ~Closes(e) /\ Event(e) /\ e.at \in Int
  BY <1>3, Staged, EventIs DEF Bubble, KeyEvent
<1>13. Ending(agenda) = None
  BY <1>1 DEF Ending
<1>14. /\ Floor(f, ToSet(agenda) \cup ToSet(captured), tp, lastTapped, now)
       /\ Comes(ToSet(agenda') \cup ToSet(captured'), ToSet(agenda) \cup ToSet(captured))
  BY <1>10, <1>11
<1> HIDE DEF tp
<1>15. CASE e.pos = u.pos
  <2>1. taps' = tp /\ agenda' = <<b>> \o t /\ UNCHANGED <<undecided, lastTapped, captured>>
    BY <1>1, <1>15
  <2> HIDE DEF b
  <2>2. ToSet(agenda') = {b} \cup ToSet(t) /\ Ending(agenda') = None
    <3>1. b.do # "keyUp"
      BY <1>12
    <3> HIDE DEF t
    <3> QED
      BY <1>3, <1>12, <2>1, <3>1, SetCons, EndingCons
  <2>3. Bubbles(tp, e, t)
    BY <2>1, <2>2 DEF Bubbles, b
  <2> QED
    BY <1>1, <1>2, <1>4, <1>7, <1>8, <1>14, <2>2, <2>3, TimeBubbles
<1>16. CASE e.pos # u.pos /\ e.at > u.at + timing[u.pos].term
  <2>1. Decide(tp, undecided, "timer", rest) /\ UNCHANGED captured
    BY <1>1, <1>16
  <2> HIDE DEF z
  <2>2. rest \in Seq(Call(Slot)) /\ ToSet(rest) = {z} \cup ToSet(t)
    <3> HIDE DEF t
    <3> QED
      BY <1>3, <1>12, SetCons, Before1
  <2>3. ~Closes(z) /\ ~PlainPress(z)
    BY <1>12 DEF Closes, PlainPress
  <2> HIDE DEF rest
  <2>4. \A j : Closing(ToSet(rest), j) = Closing(ToSet(agenda), j)
    BY <1>3, <1>12, <2>2, <2>3 DEF Closing
  <2>5. \A x \in ToSet(rest) \cup ToSet(captured') : PlainPress(x) => x.at <= f
    BY <1>3, <1>10, <2>1, <2>2, <2>3 DEF Floor
  <2>6. Closing(ToSet(rest), undecided) = {}
    <3>1. SlotOK(undecided, g, undecided, Ending(agenda), ToSet(agenda), Z, now)
      BY <1>3, <1>8 DEF SlotsOK
    <3> QED
      BY <1>2, <1>3, <1>4, <1>7, <1>13, <2>4, <3>1 DEF SlotOK
  <2>7. Due(g) < e.at /\ e.at <= now /\ Due(g) \in Int
    <3>1. e.at <= now
      BY <1>3, <1>12, PastIs
    <3>2. u.at \in Int /\ timing[u.pos].term \in Int
      BY <1>3, <1>4 DEF TapShape, SettingsInv
    <3> QED
      BY <1>7, <1>12, <1>16, <3>1, <3>2 DEF Due
  <2>8. ASSUME NEW x \in Z, Counts(x), x.pos = u.pos PROVE Due(g) <= x.at
    <3>1. Event(x)
      BY <2>8 DEF Counts
    <3>2. x # e
      BY <1>16, <2>8
    <3>3. CASE InTime(e, x)
      <4>1. x.at \in Int
        BY <1>2, <2>8, <3>1, EventTyped DEF KeyEvent
      <4> QED
        BY <1>1, <1>12, <2>7, <3>3, <4>1 DEF InTime
    <3>4. ASSUME NEW j \in DOMAIN captured, Taken(captured, 1, j), captured[j] = x PROVE FALSE
      BY <1>4, <2>8, <3>4 DEF NoneOf
    <3>5. \/ x = e \/ InTime(e, x)
          \/ undecided # None /\ \E j \in DOMAIN captured : Taken(captured, 1, j) /\ captured[j] = x
      BY <1>1, <1>12, <2>8, <3>1, EventsBehind
    <3> QED
      BY <3>2, <3>3, <3>4, <3>5
  <2>9. ByTime(g.pos) /\ Unforced(g) => Decision(g, "timer") = "holdTimer"
    <3>1. g.other = g.pos => Config[g.pos].triggers = {} \/ g.pos \in Config[g.pos].triggers
      BY <1>3, <1>4, <1>7, <1>8 DEF SlotsOK, SlotOK
    <3> QED
      BY <1>4, <1>7, <3>1, DecidedSo
  <2>10. ByTime(g.pos) /\ Unforced(g) =>
             /\ Decision(g, "timer") # "tap" /\ Due(g) <= now
             /\ \A x \in Closing(ToSet(rest), undecided) : Due(g) <= x.at
             /\ \A x \in Z : Counts(x) /\ x.pos = g.pos /\ ~x.down => Due(g) <= x.at
    BY <1>2, <1>7, <1>12, <2>6, <2>7, <2>8, <2>9
  <2>11. ASSUME agenda' = rest, NEW j \in Slot
         PROVE  Stays(j, tp[j], tp[j], ToSet(agenda), ToSet(agenda'), undecided, undecided, Ending(agenda), Ending(agenda'))
    <3>1. Closing(ToSet(agenda'), j) = Closing(ToSet(agenda), j) /\ Ending(agenda) # j
      BY <1>2, <1>13, <2>4, <2>11
    <3> QED
      BY <3>1 DEF Stays
  <2>12. tp[undecided].pos # NoKey
    BY <1>4, <1>7
  <2>13. \A j \in Slot : j # undecided => Closing(ToSet(rest), j) = Closing(ToSet(agenda), j) /\ Ending(agenda) # j
    BY <1>2, <1>13, <2>4
  <2>14. UNCHANGED <<build, timing, now>>
    BY <1>1
  <2> QED
    BY <1>2, <1>3, <1>7, <1>8, <1>14, <2>1, <2>2, <2>5, <2>10, <2>11, <2>12, <2>13, <2>14, TimeDecides
<1>17. CASE e.pos # u.pos /\ ~(e.at > u.at + timing[u.pos].term)
  <2>1. CaptureOrBubble(tp, e, t)
    BY <1>1, <1>17
  <2>2. (Bubbles(tp, e, t) /\ Ending(agenda') = None) \/ Captures(tp, e, t)
    BY <1>2, <1>3, <1>7, <2>1, ListenerMakes
  <2> QED
    BY <1>1, <1>2, <1>4, <1>7, <1>8, <1>14, <2>2, TimeBubbles
<1> QED
  BY <1>15, <1>16, <1>17

LEMMA AfterTimerTime ==
  ASSUME CallsInv, SettingsInv, LineInv, TimeInv, Types', AfterTimer
  PROVE  TimeInv'
<1> DEFINE e == Head(agenda)
           t == Tail(agenda)
           b == Bubble(e)
<1>1. /\ agenda # <<>> /\ e.do = "after" /\ UNCHANGED <<build, timing, now>>
      /\ IF undecided = None
           THEN agenda' = <<b>> \o t /\ UNCHANGED <<taps, undecided, captured, lastTapped>>
           ELSE CaptureOrBubble(taps, e, t)
  BY DEF AfterTimer, Doing, settings, engine, input
<1>2. /\ Types /\ now \in Int /\ DOMAIN taps = Slot /\ \A j \in Slot : TapShape(taps[j])
      /\ None \notin Slot /\ SlotsOK(taps, undecided, agenda, captured, now)
      /\ \E f \in Int : Floor(f, ToSet(agenda) \cup ToSet(captured), taps, lastTapped, now)
  BY TimeReady
<1>3. /\ ToSet(agenda) = {e} \cup ToSet(t) /\ t \in Seq(Call(Slot)) /\ e \in KeyEvent({"pos", "after", "keymap"})
  BY <1>1, <1>2, FirstCall, CallFields
<1>4. Comes(ToSet(agenda') \cup ToSet(captured'), ToSet(agenda) \cup ToSet(captured))
  BY <1>2, WorkBrings DEF Work
<1>5. CASE undecided = None
  <2>1. Event(b) /\ b.do = "keymap" /\ ~Closes(e) /\ b \in Call(Slot)
    BY <1>3, Staged, EventIs DEF Bubble
  <2>2. ~PlainPress(b) /\ ~Closes(b)
    BY <2>1 DEF PlainPress, Closes
  <2>3. Ending(agenda) = None
    BY <1>1 DEF Ending
  <2>4. agenda' = <<b>> \o t /\ UNCHANGED <<taps, undecided, captured, lastTapped>>
    BY <1>1, <1>5
  <2> HIDE DEF b, t, e
  <2>5. ToSet(agenda') = {b} \cup ToSet(t)
    BY <1>3, <2>1, <2>4, SetCons
  <2>6. \A x : Closes(x) => (x \in ToSet(agenda') <=> x \in ToSet(agenda))
    BY <1>3, <2>1, <2>2, <2>5
  <2>7. \A x \in ToSet(agenda') \cup ToSet(captured') : PlainPress(x) => x \in ToSet(agenda) \cup ToSet(captured)
    BY <1>3, <2>2, <2>4, <2>5
  <2>8. now' \in {now, now + 1}
    BY <1>1
  <2> QED
    BY <1>1, <1>4, <2>3, <2>4, <2>6, <2>7, <2>8, TimeCalls
<1>6. CASE undecided # None
  <2>1. undecided \in Slot /\ taps[undecided].pos # NoKey
    BY <1>2, <1>6 DEF Types, LineInv, Awaited
  <2>2. CaptureOrBubble(taps, e, t)
    BY <1>1, <1>6
  <2>3. (Bubbles(taps, e, t) /\ Ending(agenda') = None) \/ Captures(taps, e, t)
    BY <1>2, <1>3, <2>1, <2>2, ListenerMakes
  <2> QED
    BY <1>1, <1>2, <1>4, <1>6, <2>1, <2>3, TimeBubbles
<1> QED
  BY <1>5, <1>6

LEMMA KeyUpDecisionTime ==
  ASSUME CallsInv, SettingsInv, LineInv, TimeInv, Types', KeyUpDecision
  PROVE  TimeInv'
<1> DEFINE e == Head(agenda)
           t == Tail(agenda)
           i == e.i
           h == taps[i]
           z == [e EXCEPT !.do = "released"]
           rest == <<z>> \o t
           Z == ToSet(agenda) \cup ToSet(captured)
<1>1. /\ agenda # <<>> /\ e.do = "keyUp" /\ i \in Slot /\ UNCHANGED <<build, timing, captured, now>>
      /\ z.do = "released" /\ z.i = i /\ z.at = e.at /\ e.at \in Int
      /\ rest \in Seq(Call(Slot)) /\ ToSet(rest) = {z} \cup ToSet(t) /\ Ending(rest) = None
      /\ Decide(taps, i, "keyUp", rest)
  BY TimeReady, KeyUpMakes
<1>2. /\ Types /\ now \in Int /\ DOMAIN taps = Slot /\ \A j \in Slot : TapShape(taps[j])
      /\ None \notin Slot /\ SlotsOK(taps, undecided, agenda, captured, now)
      /\ \E f \in Int : Floor(f, Z, taps, lastTapped, now)
  BY TimeReady
<1>3. /\ ToSet(agenda) = {e} \cup ToSet(t) /\ t \in Seq(Call(Slot)) /\ agenda \in Seq(Call(Slot)) /\ Ending(agenda) = i
  BY <1>1, <1>2, FirstCall DEF Types, Ending
<1>4. Comes(ToSet(agenda') \cup ToSet(captured'), Z)
  BY <1>2, WorkBrings DEF Work
<1>5. Closes(e) /\ Closes(z) /\ ~PlainPress(z) /\ 1 \in DOMAIN agenda /\ agenda[1] = e /\ DOMAIN agenda \subseteq Nat \ {0}
  BY <1>1, <1>3, Behind DEF Closes, PlainPress
<1>6. h.pos # NoKey /\ h.pos \in HoldTaps
  <2>1. Ends(agenda, i)
    BY <1>5 DEF Ends
  <2> QED
    BY <1>1, <2>1 DEF LineInv, TapsIn
<1>7. Closing(ToSet(t), i) = {}
  <2> SUFFICES ASSUME NEW x \in ToSet(t), Closes(x), x.i = i PROVE FALSE
    BY DEF Closing
  <2>1. PICK n \in DOMAIN t : t[n] = x
    BY DEF ToSet
  <2>2. n + 1 \in DOMAIN agenda /\ agenda[n + 1] = x /\ 1 < n + 1
    <3>1. n \in Nat /\ n + 1 \in DOMAIN agenda /\ agenda[n + 1] = t[n]
      BY <1>1, <1>3, <2>1, Behind
    <3>2. n + 1 \in Nat \ {0}
      BY <1>5, <3>1
    <3>3. n \in DOMAIN t /\ DOMAIN t \subseteq Nat \ {0}
      BY <1>3
    <3> QED
      BY <2>1, <3>1, <3>3
  <2>3. Line(e, x, Keys(taps))
    BY <1>5, <2>2 DEF LineInv, Going, InLine
  <2> QED
    BY <1>5, <2>3 DEF Line
<1> HIDE DEF z, t, e, i
<1>8. Closing(ToSet(rest), i) = {z} /\ Closing(ToSet(agenda), i) = {e}
  BY <1>1, <1>3, <1>5, <1>7 DEF Closing, i
<1>9. \A j : j # i => Closing(ToSet(rest), j) = Closing(ToSet(agenda), j)
  BY <1>1, <1>3, <1>5 DEF Closing, i
<1> HIDE DEF rest, h
<1>10. PICK f \in Int : Floor(f, Z, taps, lastTapped, now)
  BY <1>2
<1>11. \A x \in ToSet(rest) \cup ToSet(captured') : PlainPress(x) => x.at <= f
  BY <1>1, <1>3, <1>5, <1>10 DEF Floor
<1>12. SlotOK(i, h, undecided, i, ToSet(agenda), Z, now)
  BY <1>1, <1>2, <1>3 DEF SlotsOK, h
<1>13. h.status = "undecided" /\ i = undecided /\ ByTime(h.pos) /\ Unforced(h) =>
           /\ Decision(h, "keyUp") = "tap" /\ Closing(ToSet(rest), i) # {}
           /\ \A x \in Closing(ToSet(rest), i) : x.at <= Due(h)
  <2> SUFFICES ASSUME h.status = "undecided", ByTime(h.pos), Unforced(h)
               PROVE  Decision(h, "keyUp") = "tap" /\ e.at <= Due(h)
    BY <1>1, <1>8
  <2>1. Decision(h, "keyUp") = "tap"
    BY <1>6, <1>12, DecidedSo DEF SlotOK
  <2>2. e.at <= Due(h)
    BY <1>6, <1>8, <1>12 DEF SlotOK, InTerm, Open
  <2> QED
    BY <2>1, <2>2
<1>14. ASSUME agenda' = rest, h.status # "undecided" \/ i # undecided \/ Decision(h, "keyUp") = "undecided", NEW j \in Slot
       PROVE  \/ Stays(j, taps[j], taps[j], ToSet(agenda), ToSet(agenda'), undecided, undecided, Ending(agenda), Ending(agenda'))
              \/ SlotOK(j, taps[j], undecided, Ending(agenda'), ToSet(agenda'), ToSet(agenda') \cup ToSet(captured'), now)
  <2>1. CASE j # i
    BY <1>3, <1>9, <1>14, <2>1 DEF Stays
  <2>2. CASE j = i
    <3> DEFINE Y == ToSet(agenda') \cup ToSet(captured')
    <3>1. h.status # "undecided"
      <4>1. Decision(h, "keyUp") # "undecided"
        BY <1>6, Decides
      <4> QED
        BY <1>6, <1>12, <1>14, <4>1 DEF SlotOK
    <3>2. Closing(ToSet(agenda'), i) = {z} /\ Comes(Y, Z)
      BY <1>4, <1>8, <1>14
    <3> HIDE DEF Y
    <3>3. ByTime(h.pos) => InTerm(i, h, ToSet(agenda'), Y, now)
      <4> SUFFICES ASSUME ByTime(h.pos) PROVE InTerm(i, h, ToSet(agenda'), Y, now)
        OBVIOUS
      <4>1. InTerm(i, h, ToSet(agenda), Z, now)
        BY <1>6, <1>12 DEF SlotOK
      <4>2. ASSUME Unforced(h), ~Open(h), NEW x \in Y, Counts(x), x.pos = h.pos, ~x.down PROVE Due(h) <= x.at
        BY <3>2, <4>1, <4>2, CountsComes DEF InTerm
      <4> HIDE DEF Z
      <4> QED
        BY <1>1, <1>8, <3>2, <4>1, <4>2 DEF InTerm
    <3>4. SlotOK(i, h, undecided, Ending(agenda'), ToSet(agenda'), Y, now)
      BY <1>6, <1>12, <3>1, <3>3 DEF SlotOK
    <3> QED
      BY <2>2, <3>4 DEF Y, h
  <2> QED
    BY <2>1, <2>2
<1>15. Decide(taps, i, "keyUp", rest) /\ i \in Slot /\ rest \in Seq(Call(Slot)) /\ UNCHANGED <<build, timing, now>>
  BY <1>1
<1>16. \A j \in Slot : j # i => Closing(ToSet(rest), j) = Closing(ToSet(agenda), j) /\ Ending(agenda) # j
  BY <1>3, <1>9
<1> QED
  BY <1>2, <1>4, <1>6, <1>10, <1>11, <1>13, <1>14, <1>15, <1>16, TimeDecides DEF h

\* A timer that does not end before the term, or is off.
Fits(h, T) == ByTime(h.pos) => T \in Int /\ (T # Off => Due(h) <= T)

LEMMA SlotTimed ==
  ASSUME NEW i, NEW h, NEW u, NEW en, NEW X, NEW Z, NEW nw, SlotOK(i, h, u, en, X, Z, nw),
         DOMAIN h = {"pos", "status", "at", "other", "timer"}, h.pos # NoKey, NEW T, Fits(h, T)
  PROVE  SlotOK(i, [h EXCEPT !.timer = T], u, en, X, Z, nw)
<1> DEFINE g == [h EXCEPT !.timer = T]
<1>1. g.pos = h.pos /\ g.at = h.at /\ g.status = h.status /\ g.other = h.other /\ g.timer = T
  OBVIOUS
<1> HIDE DEF g
<1>2. Due(g) = Due(h) /\ (Unforced(g) <=> Unforced(h)) /\ (Open(g) <=> Open(h))
  BY <1>1 DEF Due, Unforced, Open
<1>3. ByTime(h.pos) => InTerm(i, g, X, Z, nw)
  <2> SUFFICES ASSUME ByTime(h.pos) PROVE InTerm(i, g, X, Z, nw)
    OBVIOUS
  <2>1. InTerm(i, h, X, Z, nw)
    BY DEF SlotOK
  <2> QED
    BY <1>1, <1>2, <2>1 DEF InTerm, Fits
<1>4. SlotOK(i, g, u, en, X, Z, nw)
  BY <1>1, <1>3 DEF SlotOK
<1> QED
  BY <1>4 DEF g

\* "tp" is the array with another timer.
Retimed(tp) ==
    /\ DOMAIN tp = Slot /\ SlotsOK(tp, undecided, agenda, captured, now)
    /\ \A j \in Slot : TapShape(tp[j]) /\ tp[j].pos = taps[j].pos /\ tp[j].at = taps[j].at /\ tp[j].status = taps[j].status

LEMMA TimerSet ==
  ASSUME Types, NEW i \in Slot, taps[i].pos # NoKey, SlotsOK(taps, undecided, agenda, captured, now),
         NEW T, Fits(taps[i], T)
  PROVE  Retimed([taps EXCEPT ![i].timer = T])
<1> DEFINE tp == [taps EXCEPT ![i].timer = T]
<1>1. DOMAIN taps = Slot /\ \A j \in Slot : TapShape(taps[j])
  BY DEF Types
<1>2. tp[i] = [taps[i] EXCEPT !.timer = T] /\ DOMAIN tp = Slot /\ \A j \in Slot : j # i => tp[j] = taps[j]
  BY <1>1
<1>3. \A j \in Slot : TapShape(tp[j]) /\ tp[j].pos = taps[j].pos /\ tp[j].at = taps[j].at /\ tp[j].status = taps[j].status
  BY <1>1, <1>2 DEF TapShape
<1> DEFINE X == ToSet(agenda)
           Z == ToSet(agenda) \cup ToSet(captured)
           en == Ending(agenda)
           h == taps[i]
<1>4. SlotOK(i, h, undecided, en, X, Z, now) /\ DOMAIN h = {"pos", "status", "at", "other", "timer"} /\ h.pos # NoKey /\ Fits(h, T)
  BY <1>1 DEF SlotsOK, TapShape
<1> HIDE DEF X, Z, en, h
<1>5. SlotOK(i, [h EXCEPT !.timer = T], undecided, en, X, Z, now)
  BY <1>4, SlotTimed
<1>6. \A j \in Slot : SlotOK(j, tp[j], undecided, en, X, Z, now)
  BY <1>2, <1>5 DEF SlotsOK, X, Z, en, h
<1>7. Retimed(tp)
  BY <1>2, <1>3, <1>6 DEF Retimed, SlotsOK, X, Z, en
<1> QED
  BY <1>7

LEMMA TimerOff ==
  ASSUME Types, NEW i \in Slot, taps[i].pos # NoKey, SlotsOK(taps, undecided, agenda, captured, now)
  PROVE  Retimed([taps EXCEPT ![i].timer = Off])
<1>1. Fits(taps[i], Off)
  BY DEF Fits, Off
<1> QED
  BY <1>1, TimerSet

LEMMA BindingReleasedTime ==
  ASSUME CallsInv, SettingsInv, LineInv, Past, TimeInv, Types', BindingReleased
  PROVE  TimeInv'
<1> DEFINE e == Head(agenda)
           t == Tail(agenda)
           Z == ToSet(agenda) \cup ToSet(captured)
           Y == ToSet(agenda') \cup ToSet(captured')
<1>1. /\ Types /\ now \in Int /\ DOMAIN taps = Slot /\ \A j \in Slot : TapShape(taps[j])
      /\ None \notin Slot /\ SlotsOK(taps, undecided, agenda, captured, now)
      /\ \E f \in Int : Floor(f, Z, taps, lastTapped, now)
  BY TimeReady
<1>2. /\ agenda # <<>> /\ e.do = "keymap" /\ ~e.down /\ e.pos \in HoldTaps /\ UNCHANGED <<build, timing, captured, now>>
  BY <1>1, BindingReleasedFinds
<1>3. PICK i \in Slot :
              LET q == [taps EXCEPT ![i].timer = Off]
                  r == <<Up(e, i)>> \o t
              IN  /\ taps[i].pos = e.pos
                  /\ r \in Seq(Call(Slot)) /\ ToSet(r) = {Up(e, i)} \cup ToSet(t) /\ Ending(r) = i
                  /\ IF e.at > taps[i].at + timing[e.pos].term
                       THEN Decide(q, i, "timer", r)
                       ELSE taps' = q /\ agenda' = r /\ UNCHANGED <<undecided, lastTapped>>
  BY <1>1, BindingReleasedFinds
<1> DEFINE tp == [taps EXCEPT ![i].timer = Off]
           z == Up(e, i)
           rest == <<z>> \o t
           h == tp[i]
<1>4. /\ taps[i].pos = e.pos
      /\ rest \in Seq(Call(Slot)) /\ ToSet(rest) = {z} \cup ToSet(t) /\ Ending(rest) = i
      /\ IF e.at > taps[i].at + timing[e.pos].term
           THEN Decide(tp, i, "timer", rest)
           ELSE taps' = tp /\ agenda' = rest /\ UNCHANGED <<undecided, lastTapped>>
  BY <1>3
<1>5. /\ ToSet(agenda) = {e} \cup ToSet(t) /\ t \in Seq(Call(Slot)) /\ e \in KeyEvent({"pos", "after", "keymap"})
      /\ agenda \in Seq(Call(Slot)) /\ 1 \in DOMAIN agenda /\ agenda[1] = e /\ DOMAIN agenda \subseteq Nat \ {0}
  BY <1>1, <1>2, FirstCall, CallFields, Behind DEF Types
<1>6. /\ Event(e) /\ Counts(e) /\ ~Closes(e) /\ Ending(agenda) = None /\ e.pos # NoKey /\ e.at \in Int
      /\ Closes(z) /\ ~PlainPress(z) /\ z.i = i /\ z.at = e.at
  <2>1. e.pos \notin Ignored
    BY <1>2 DEF SettingsInv
  <2> QED
    BY <1>2, <1>5, <2>1, EventHas, HoldTapAssumption DEF Ending, Up, Closes, PlainPress
<1>7. /\ DOMAIN tp = Slot /\ SlotsOK(tp, undecided, agenda, captured, now)
      /\ \A j \in Slot : TapShape(tp[j]) /\ tp[j].pos = taps[j].pos /\ tp[j].at = taps[j].at /\ tp[j].status = taps[j].status
  <2>1. taps[i].pos # NoKey
    BY <1>4, <1>6
  <2>2. Retimed([taps EXCEPT ![i].timer = Off])
    BY <1>1, <2>1, TimerOff
  <2>3. Retimed(tp)
    BY <2>2
  <2> HIDE DEF tp
  <2> QED
    BY <2>3 DEF Retimed
<1>8. PICK f \in Int : Floor(f, Z, taps, lastTapped, now)
  BY <1>1
<1>9. Floor(f, Z, tp, lastTapped, now)
  BY <1>7, <1>8 DEF Floor
<1>10. Comes(Y, Z)
  BY <1>1, WorkBrings DEF Work
<1>11. Closing(ToSet(agenda), i) = {} /\ Closing(ToSet(t), i) = {}
  <2> SUFFICES ASSUME NEW x \in ToSet(agenda), Closes(x), x.i = i PROVE FALSE
    BY <1>5 DEF Closing
  <2>1. PICK n \in DOMAIN agenda : agenda[n] = x
    BY DEF ToSet
  <2>2. n # 1
    BY <1>5, <1>6, <2>1
  <2>3. 1 < n
    BY <1>5, <2>2
  <2>4. Line(e, x, Keys(taps))
    BY <1>5, <2>1, <2>3 DEF LineInv, Going, InLine
  <2>5. Keys(taps)[i] = e.pos
    BY <1>1, <1>4 DEF Keys
  <2> QED
    BY <1>6, <2>4, <2>5 DEF Line
<1>12. h.pos = e.pos /\ SlotOK(i, h, undecided, None, ToSet(agenda), Z, now)
  <2>1. SlotOK(i, h, undecided, Ending(agenda), ToSet(agenda), Z, now)
    BY <1>7 DEF SlotsOK
  <2> QED
    BY <1>4, <1>6, <1>7, <2>1
<1> HIDE DEF z, rest, tp
<1>13. Closing(ToSet(rest), i) = {z} /\ \A j : j # i => Closing(ToSet(rest), j) = Closing(ToSet(agenda), j)
  <2>1. \A x \in Closing(ToSet(rest), i) : x = z
    BY <1>4, <1>11 DEF Closing
  <2>2. z \in Closing(ToSet(rest), i)
    BY <1>4, <1>6 DEF Closing
  <2>3. \A j : j # i => Closing(ToSet(rest), j) = Closing(ToSet(agenda), j)
    BY <1>4, <1>5, <1>6 DEF Closing
  <2> QED
    BY <2>1, <2>2, <2>3
<1>14. \A x \in ToSet(rest) \cup ToSet(captured') : PlainPress(x) => x.at <= f
  BY <1>2, <1>4, <1>5, <1>6, <1>8 DEF Floor
\* A later event of the key, if there is one, is no earlier.
<1>15. ASSUME NEW x \in Z, Counts(x), x.pos = e.pos PROVE e.at <= x.at
  <2>1. Event(x)
    BY <1>15 DEF Counts
  <2>2. CASE x = e
    BY <1>6, <2>2
  <2>3. CASE InTime(e, x)
    BY <1>2, <1>6, <1>15, <2>3 DEF InTime
  <2>4. ASSUME undecided # None, NEW j \in DOMAIN captured, Taken(captured, 1, j), captured[j] = x PROVE FALSE
    <3>1. KeymapClear(agenda, captured, TRUE)
      <4>1. (undecided # None) = TRUE
        BY <2>4
      <4> QED
        BY <4>1 DEF LineInv, Going
    <3>2. NoneOf(e.pos, captured)
      BY <1>2, <1>5, <1>6, <3>1 DEF KeymapClear
    <3> QED
      BY <1>15, <2>4, <3>2 DEF NoneOf
  <2>5. \/ x = e \/ InTime(e, x)
        \/ undecided # None /\ \E j \in DOMAIN captured : Taken(captured, 1, j) /\ captured[j] = x
    BY <1>2, <1>6, <1>15, <2>1, EventsBehind
  <2> QED
    BY <2>2, <2>3, <2>4, <2>5
<1>16. /\ Due(h) \in Int /\ h.at = taps[i].at /\ (e.at > taps[i].at + timing[e.pos].term <=> Due(h) < e.at)
       /\ e.at <= now
  <2>1. taps[i].at \in Int /\ timing[e.pos].term \in Int
    BY <1>1, <1>2 DEF TapShape, SettingsInv
  <2>2. e.at <= now
    BY <1>5, <1>6, PastIs
  <2> QED
    BY <1>6, <1>7, <1>12, <2>1, <2>2 DEF Due
\* The hold-tap with its release behind it, when it is not undecided by then or decides later.
<1>17. ASSUME agenda' = rest, h.status # "undecided" \/ e.at <= Due(h)
       PROVE  SlotOK(i, h, undecided, Ending(agenda'), ToSet(agenda'), Y, now)
  <2>1. Closing(ToSet(agenda'), i) = {z} /\ Ending(agenda') = i
    BY <1>4, <1>13, <1>17
  <2>2. ByTime(h.pos) => InTerm(i, h, ToSet(agenda'), Y, now)
    <3> SUFFICES ASSUME ByTime(h.pos) PROVE InTerm(i, h, ToSet(agenda'), Y, now)
      OBVIOUS
    <3>1. InTerm(i, h, ToSet(agenda), Z, now)
      BY <1>6, <1>12 DEF SlotOK
    <3>2. Unforced(h) => h.status # "tap"
      BY <1>11, <3>1 DEF InTerm
    <3>3. e \in Z
      BY <1>5
    <3>4. Unforced(h) /\ ~Open(h) => Due(h) <= e.at
      BY <1>2, <1>6, <1>12, <3>1, <3>3 DEF InTerm
    <3>5. Unforced(h) /\ Open(h) => e.at <= Due(h)
      BY <1>17, <3>2 DEF Open
    <3>6. ASSUME Unforced(h), ~Open(h), NEW x \in Y, Counts(x), x.pos = h.pos, ~x.down PROVE Due(h) <= x.at
      BY <1>10, <3>1, <3>6, CountsComes DEF InTerm
    <3> HIDE DEF Y, Z, h
    <3> QED
      BY <1>6, <2>1, <3>1, <3>2, <3>4, <3>5, <3>6 DEF InTerm
  <2> QED
    BY <1>6, <1>12, <2>1, <2>2 DEF SlotOK
<1>18. ASSUME agenda' = rest, NEW j \in Slot, j # i
       PROVE  Stays(j, tp[j], tp[j], ToSet(agenda), ToSet(agenda'), undecided, undecided, Ending(agenda), Ending(agenda'))
  <2>1. Closing(ToSet(agenda'), j) = Closing(ToSet(agenda), j)
    BY <1>13, <1>18
  <2>2. Ending(agenda) # j
    BY <1>1, <1>6
  <2> QED
    BY <2>1, <2>2 DEF Stays
<1>19. h.pos # NoKey /\ h.pos \in HoldTaps
  BY <1>2, <1>6, <1>12
<1> HIDE DEF h
<1>20. CASE e.at > taps[i].at + timing[e.pos].term
  <2>1. Decide(tp, i, "timer", rest)
    BY <1>4, <1>20
  <2>2. Due(h) < e.at /\ Due(h) <= now
    BY <1>1, <1>6, <1>16, <1>20
  <2>3. ByTime(h.pos) /\ Unforced(h) => Decision(h, "timer") = "holdTimer"
    BY <1>12, <1>19, DecidedSo DEF SlotOK
  <2>4. ASSUME NEW x \in Z, Counts(x), x.pos = h.pos PROVE Due(h) <= x.at
    <3>1. x.at \in Int
      BY <1>1, <2>4, EventTyped DEF KeyEvent, Counts
    <3>2. e.at <= x.at
      BY <1>12, <1>15, <2>4
    <3> QED
      BY <1>6, <1>16, <2>2, <3>1, <3>2
  <2>5. ByTime(h.pos) /\ Unforced(h) =>
             /\ Decision(h, "timer") # "tap" /\ Due(h) <= now
             /\ \A x \in Closing(ToSet(rest), i) : Due(h) <= x.at
             /\ \A x \in Z : Counts(x) /\ x.pos = h.pos /\ ~x.down => Due(h) <= x.at
    BY <1>6, <1>13, <1>16, <2>2, <2>3, <2>4
  <2>6. ASSUME agenda' = rest, h.status # "undecided" \/ i # undecided \/ Decision(h, "timer") = "undecided", NEW j \in Slot
        PROVE  \/ Stays(j, tp[j], tp[j], ToSet(agenda), ToSet(agenda'), undecided, undecided, Ending(agenda), Ending(agenda'))
               \/ SlotOK(j, tp[j], undecided, Ending(agenda'), ToSet(agenda'), ToSet(agenda') \cup ToSet(captured'), now)
    <3>1. Decision(h, "timer") # "undecided"
      BY <1>19, Decides
    <3>2. h.status # "undecided"
      BY <1>12, <1>19, <2>6, <3>1 DEF SlotOK
    <3> QED
      BY <1>17, <1>18, <2>6, <3>2 DEF h
  <2>7. \A j \in Slot : j # i => Closing(ToSet(rest), j) = Closing(ToSet(agenda), j) /\ Ending(agenda) # j
    BY <1>1, <1>6, <1>13
  <2>8. UNCHANGED <<build, timing, now>>
    BY <1>2
  <2> QED
    BY <1>1, <1>4, <1>7, <1>9, <1>10, <1>14, <1>19, <2>1, <2>5, <2>6, <2>7, <2>8, TimeDecides DEF h
<1>21. CASE ~(e.at > taps[i].at + timing[e.pos].term)
  <2>1. taps' = tp /\ agenda' = rest /\ UNCHANGED <<undecided, lastTapped>>
    BY <1>4, <1>21
  <2>2. e.at <= Due(h)
    BY <1>6, <1>16, <1>21
  <2>3. \A j \in Slot :
            \/ Stays(j, tp[j], taps'[j], ToSet(agenda), ToSet(agenda'), undecided, undecided', Ending(agenda), Ending(agenda'))
            \/ SlotOK(j, taps'[j], undecided', Ending(agenda'), ToSet(agenda'), ToSet(agenda') \cup ToSet(captured'), now')
    BY <1>2, <1>17, <1>18, <2>1, <2>2 DEF h
  <2>4. \A x \in Y : PlainPress(x) => x.at <= f
    BY <1>14, <2>1
  <2>5. lastTapped'.at \in Int /\ lastTapped'.at <= f /\ \A j \in Slot : taps'[j].pos # NoKey => taps'[j].at <= f
    BY <1>9, <2>1 DEF Floor
  <2>6. now' \in {now, now + 1}
    BY <1>2
  <2> QED
    BY <1>1, <1>2, <1>7, <1>9, <1>10, <2>3, <2>4, <2>5, <2>6, TimeMoves
<1> QED
  BY <1>20, <1>21

LEMMA ReleasedTime ==
  ASSUME CallsInv, LineInv, TimeInv, Types', Released
  PROVE  TimeInv'
<1> DEFINE e == Head(agenda)
           t == Tail(agenda)
           i == e.i
           h == taps[i]
           Z == ToSet(agenda) \cup ToSet(captured)
           Y == ToSet(agenda') \cup ToSet(captured')
<1>1. /\ Types /\ now \in Int /\ DOMAIN taps = Slot /\ \A j \in Slot : TapShape(taps[j])
      /\ None \notin Slot /\ SlotsOK(taps, undecided, agenda, captured, now)
      /\ \E f \in Int : Floor(f, Z, taps, lastTapped, now)
  BY TimeReady
<1>2. /\ agenda # <<>> /\ e.do = "released" /\ i \in Slot
      /\ UNCHANGED <<build, timing, undecided, captured, now>>
      /\ taps' = [taps EXCEPT ![i] = Unused]
      /\ lastTapped' = lastTapped \/ lastTapped' = [pos |-> h.pos, at |-> h.at]
      /\ \E cs \in Seq(Sent) : agenda' = cs \o t /\ \A x \in ToSet(cs) : x.at = h.at
  BY <1>1, ReleasedMakes
<1>3. PICK cs \in Seq(Sent) : agenda' = cs \o t /\ \A x \in ToSet(cs) : x.at = h.at
  BY <1>2
<1>4. /\ ToSet(agenda) = {e} \cup ToSet(t) /\ t \in Seq(Call(Slot)) /\ agenda \in Seq(Call(Slot))
      /\ 1 \in DOMAIN agenda /\ agenda[1] = e
  BY <1>1, <1>2, FirstCall, Behind DEF Types
<1>5. h.pos # NoKey /\ h.at \in Int
  <2>1. Ends(agenda, i)
    BY <1>2, <1>4 DEF Ends, Closes
  <2> QED
    BY <1>1, <1>2, <2>1 DEF LineInv, TapsIn, TapShape
<1>6. PICK f \in Int : Floor(f, Z, taps, lastTapped, now)
  BY <1>1
<1>7. ToSet(agenda') = ToSet(cs) \cup ToSet(t)
  <2> DEFINE C == Call(Slot)
  <2>1. cs \in Seq(C) /\ t \in Seq(C)
    BY <1>4, SentIsCall
  <2> HIDE DEF C, t
  <2>2. ToSet(cs \o t) = ToSet(cs) \cup ToSet(t)
    BY <2>1, SetJoin
  <2> QED
    BY <1>3, <2>2
<1>8. h.at <= f /\ \A x \in ToSet(cs) : ~Closes(x) /\ x.at <= f
  <2>1. h.at <= f
    BY <1>2, <1>5, <1>6 DEF Floor
  <2>2. \A x \in ToSet(cs) : x \in Sent
    BY DEF ToSet
  <2> QED
    BY <1>3, <2>1, <2>2, CodesAreNoEvents
<1>9. Ending(agenda) = None
  BY <1>2 DEF Ending
<1>10. Comes(Y, Z)
  BY <1>1, WorkBrings DEF Work
<1>11. taps'[i] = Unused /\ \A j \in Slot : j # i => taps'[j] = taps[j]
  BY <1>1, <1>2
<1> HIDE DEF e, t
<1>12. \A x \in Y : PlainPress(x) => x.at <= f
  BY <1>2, <1>4, <1>6, <1>7, <1>8 DEF Floor
<1>13. ASSUME NEW j \in Slot
       PROVE  \/ Stays(j, taps[j], taps'[j], ToSet(agenda), ToSet(agenda'), undecided, undecided', Ending(agenda), Ending(agenda'))
              \/ SlotOK(j, taps'[j], undecided', Ending(agenda'), ToSet(agenda'), ToSet(agenda') \cup ToSet(captured'), now')
  <2>1. CASE j = i
    BY <1>11, <2>1 DEF SlotOK, Unused
  <2>2. CASE j # i
    <3>1. Closing(ToSet(agenda'), j) = Closing(ToSet(agenda), j)
      BY <1>4, <1>7, <1>8, <2>2 DEF Closing, i
    <3>2. Ending(agenda) # j
      BY <1>1, <1>9
    <3> QED
      BY <1>2, <1>11, <2>2, <3>1, <3>2 DEF Stays
  <2> QED
    BY <2>1, <2>2
<1>14. \A j \in Slot : taps'[j].pos # NoKey => taps'[j].at <= f
  BY <1>6, <1>11 DEF Floor, Unused
<1>15. lastTapped'.at \in Int /\ lastTapped'.at <= f /\ now' \in {now, now + 1}
  BY <1>2, <1>5, <1>6, <1>8 DEF Floor
<1> QED
  BY <1>1, <1>2, <1>6, <1>10, <1>12, <1>13, <1>14, <1>15, TimeMoves

LEMMA TimerHandlerTime ==
  ASSUME CallsInv, SettingsInv, LineInv, TimeInv, NEW i \in Slot, TimerHandler(i)
  PROVE  TimeInv'
<1> DEFINE tp == [taps EXCEPT ![i].timer = Off]
           h == tp[i]
           Z == ToSet(agenda) \cup ToSet(captured)
           Y == ToSet(agenda') \cup ToSet(captured')
<1>1. /\ Types /\ now \in Int /\ DOMAIN taps = Slot /\ \A j \in Slot : TapShape(taps[j])
      /\ None \notin Slot /\ SlotsOK(taps, undecided, agenda, captured, now)
      /\ \E f \in Int : Floor(f, Z, taps, lastTapped, now)
  BY TimeReady
<1>2. /\ agenda = <<>> /\ taps[i].timer # Off /\ now >= taps[i].timer /\ Decide(tp, i, "timer", <<>>)
      /\ UNCHANGED <<build, timing, captured, now>>
  BY DEF TimerHandler, Idle, settings, input
<1>3. taps[i].pos # NoKey /\ taps[i].pos \in HoldTaps
  <2>1. taps[i].pos # NoKey
    BY <1>1, <1>2 DEF SlotsOK, SlotOK, Unused
  <2> QED
    BY <2>1 DEF LineInv, TapsIn
<1>4. /\ DOMAIN tp = Slot /\ SlotsOK(tp, undecided, agenda, captured, now)
      /\ \A j \in Slot : TapShape(tp[j]) /\ tp[j].pos = taps[j].pos /\ tp[j].at = taps[j].at /\ tp[j].status = taps[j].status
  <2>1. Retimed([taps EXCEPT ![i].timer = Off])
    BY <1>1, <1>3, TimerOff
  <2>2. Retimed(tp)
    BY <2>1
  <2> HIDE DEF tp
  <2> QED
    BY <2>2 DEF Retimed
<1>5. PICK f \in Int : Floor(f, Z, taps, lastTapped, now)
  BY <1>1
<1>6. Floor(f, Z, tp, lastTapped, now)
  BY <1>4, <1>5 DEF Floor
<1>7. ToSet(agenda) = {} /\ ToSet(<<>>) = {} /\ DOMAIN agenda = {} /\ Ending(agenda) = None /\ <<>> \in Seq(Call(Slot))
  BY <1>2 DEF ToSet, Ending
<1>8. ByTime(h.pos) => Due(h) <= now
  <2>1. ByTime(taps[i].pos) => Due(taps[i]) <= taps[i].timer /\ Due(taps[i]) \in Int /\ taps[i].timer \in Int
    BY <1>1, <1>2, <1>3 DEF SlotsOK, SlotOK, InTerm
  <2>2. Due(h) = Due(taps[i])
    BY <1>4 DEF Due
  <2> QED
    BY <1>1, <1>2, <1>4, <2>1, <2>2
<1> HIDE DEF tp
<1>9. SlotOK(i, h, undecided, None, {}, Z, now) /\ h.pos = taps[i].pos
  BY <1>4, <1>7 DEF SlotsOK
<1>10. \A j : Closing({}, j) = {}
  BY DEF Closing
<1>11. ByTime(h.pos) /\ Unforced(h) => Decision(h, "timer") = "holdTimer"
  BY <1>3, <1>9, DecidedSo DEF SlotOK
<1>12. ASSUME undecided = i, NEW x \in Z, Counts(x), x.pos = h.pos PROVE FALSE
  <2>1. x \in ToSet(captured) /\ x # Free
    BY <1>7, <1>12 DEF Counts, Event, Free
  <2>2. PICK j \in DOMAIN captured : captured[j] = x
    BY <2>1 DEF ToSet
  <2>3. Owned(agenda, captured, TRUE) /\ undecided # None
    <3>1. (undecided # None) = TRUE
      BY <1>1, <1>12
    <3> QED
      BY <3>1, Ready
  <2>4. Taken(captured, 1, j)
    BY <1>7, <2>1, <2>2, <2>3 DEF Owned
  <2>5. NoneOf(h.pos, captured)
    BY <1>9, <1>12, <2>3 DEF LineInv, Awaited
  <2> QED
    BY <1>12, <2>2, <2>4, <2>5 DEF NoneOf
<1>13. Comes(Y, Z)
  <2>1. \A x : Event(x) => (x \in ToSet(agenda') <=> x \in ToSet(agenda))
    BY <1>1, <1>2, <1>4, <1>7, DecideBrings
  <2>2. \A x \in Y : Event(x) => x \in Z
    BY <1>2, <2>1
  <2> HIDE DEF Y, Z
  <2> QED
    BY <2>2 DEF Comes
<1>14. h.status = "undecided" /\ i = undecided /\ ByTime(h.pos) /\ Unforced(h) =>
             /\ Decision(h, "timer") # "tap" /\ Due(h) <= now
             /\ \A x \in Closing({}, i) : Due(h) <= x.at
             /\ \A x \in Z : Counts(x) /\ x.pos = h.pos /\ ~x.down => Due(h) <= x.at
  BY <1>8, <1>10, <1>11, <1>12
<1>15. ASSUME agenda' = <<>>, NEW j \in Slot
       PROVE  Stays(j, tp[j], tp[j], ToSet(agenda), ToSet(agenda'), undecided, undecided, Ending(agenda), Ending(agenda'))
  BY <1>2, <1>15 DEF Stays
<1>16. \A x \in ToSet(<<>>) \cup ToSet(captured') : PlainPress(x) => x.at <= f
  BY <1>2, <1>5, <1>7 DEF Floor
<1>17. \A j \in Slot : j # i => Closing(ToSet(<<>>), j) = Closing(ToSet(agenda), j) /\ Ending(agenda) # j
  BY <1>1, <1>7
<1>18. UNCHANGED <<build, timing, now>> /\ h.pos # NoKey
  BY <1>2, <1>3, <1>9
<1> DEFINE rest == <<>>
<1>19. /\ rest \in Seq(Call(Slot)) /\ Decide(tp, i, "timer", rest)
       /\ \A x \in ToSet(rest) \cup ToSet(captured') : PlainPress(x) => x.at <= f
       /\ \A j \in Slot : j # i => Closing(ToSet(rest), j) = Closing(ToSet(agenda), j) /\ Ending(agenda) # j
       /\ ToSet(rest) = {}
       /\ agenda' = rest => \A j \in Slot :
             Stays(j, tp[j], tp[j], ToSet(agenda), ToSet(agenda'), undecided, undecided, Ending(agenda), Ending(agenda'))
  BY <1>2, <1>7, <1>15, <1>16, <1>17
<1> HIDE DEF rest
<1> QED
  BY <1>1, <1>4, <1>6, <1>13, <1>14, <1>18, <1>19, TimeDecides

\* No press under way or captured is earlier than the one the keymap has.
LEMMA PressIsFirst ==
  ASSUME CallsInv, LineInv, agenda # <<>>, Head(agenda).do = "keymap", Head(agenda).down, Counts(Head(agenda)),
         NEW x \in ToSet(agenda) \cup ToSet(captured), Counts(x), x.down
  PROVE  Head(agenda).at <= x.at
<1> DEFINE e == Head(agenda)
<1>1. Event(x) /\ Event(e)
  BY DEF Counts
<1>2. Types
  BY DEF CallsInv, OwnedInv
<1>3. CASE x = e
  <2>1. agenda \in Seq(Call(Slot))
    BY <1>2 DEF Types
  <2>2. e \in ToSet(agenda)
    BY <2>1, Behind DEF ToSet
  <2>3. e.at \in Int
    BY <1>1, <1>2, <2>2, EventTyped DEF KeyEvent
  <2> QED
    BY <1>3, <2>3
<1>4. CASE InTime(e, x)
  BY <1>4 DEF InTime
<1>5. CASE undecided # None
  <2>1. KeymapClear(agenda, captured, TRUE)
    <3>1. (undecided # None) = TRUE
      BY <1>5
    <3> QED
      BY <3>1 DEF LineInv, Going
  <2>2. 1 \in DOMAIN agenda /\ agenda[1] = e
    <3>1. agenda \in Seq(Call(Slot))
      BY <1>2 DEF Types
    <3> QED
      BY <3>1, Behind
  <2> QED
    BY <2>1, <2>2 DEF KeymapClear
<1>6. \/ x = e \/ InTime(e, x) \/ undecided # None
  BY <1>1, EventsBehind
<1> QED
  BY <1>3, <1>4, <1>5, <1>6

\* A hold-tap that the times decide starts undecided, without a timer.
LEMMA BindingPressedTime ==
  ASSUME CallsInv, SettingsInv, LineInv, Past, TimeInv, Types', BindingPressed
  PROVE  TimeInv'
<1> DEFINE e == Head(agenda)
           t == Tail(agenda)
           g == e.at
           Z == ToSet(agenda) \cup ToSet(captured)
           Y == ToSet(agenda') \cup ToSet(captured')
<1>1. /\ Types /\ now \in Int /\ DOMAIN taps = Slot /\ \A j \in Slot : TapShape(taps[j])
      /\ None \notin Slot /\ SlotsOK(taps, undecided, agenda, captured, now)
      /\ \E f \in Int : Floor(f, Z, taps, lastTapped, now)
  BY TimeReady
<1>2. /\ agenda # <<>> /\ e.do = "keymap" /\ e.down /\ e.pos \in HoldTaps
      /\ undecided = None /\ UNCHANGED <<build, timing, captured, now>>
      /\ \E i \in Slot : Seats(e, i)
  BY <1>1, BindingPressedMakes
<1>3. PICK i \in Slot : Seats(e, i)
  BY <1>2
<1>4. PICK f \in Int : Floor(f, Z, taps, lastTapped, now)
  BY <1>1
<1>5. /\ ToSet(agenda) = {e} \cup ToSet(t) /\ t \in Seq(Call(Slot)) /\ agenda \in Seq(Call(Slot))
      /\ e \in KeyEvent({"pos", "after", "keymap"})
  BY <1>1, <1>2, FirstCall, CallFields DEF Types
<1>6. Event(e) /\ Counts(e) /\ ~Closes(e) /\ e.pos # NoKey /\ g \in Int
  <2>1. e.pos \notin Ignored
    BY <1>2 DEF SettingsInv
  <2> QED
    BY <1>2, <1>5, <2>1, EventHas, HoldTapAssumption
<1>7. e \in Z /\ f <= g /\ g <= now
  BY <1>4, <1>5, <1>2, <1>6, PastIs DEF Floor
<1>8. Comes(Y, Z)
  BY <1>1, WorkBrings DEF Work
<1>9. \A x \in ToSet(agenda') : x \in ToSet(t) \/ (~Closes(x) /\ (PlainPress(x) => x.at = g))
  <2> SUFFICES ASSUME NEW x \in ToSet(agenda') PROVE x \in ToSet(t) \/ (~Closes(x) /\ (PlainPress(x) => x.at = g))
    OBVIOUS
  <2>1. x \in ToSet(t) \/ x.do \in {"release", "pressed"} \/ (x \in Sent /\ x.at = e.at)
    BY <1>3 DEF Seats
  <2>2. x \in Sent => ~Closes(x)
    BY DEF Sent, Closes
  <2> QED
    BY <2>1, <2>2 DEF Closes, PlainPress
<1>10. ToSet(t) \subseteq ToSet(agenda')
  BY <1>3 DEF Seats
<1>11. \A j : Closing(ToSet(agenda'), j) = Closing(ToSet(agenda), j)
  BY <1>5, <1>6, <1>9, <1>10 DEF Closing
<1>12. /\ New(e).pos = e.pos /\ New(e).at = g /\ New(e).other = NoKey /\ New(e).timer = Off /\ New(e).status = "undecided"
       /\ DOMAIN New(e) = {"pos", "status", "at", "other", "timer"}
  BY DEF New, Unused
<1>13. /\ taps[i].pos = NoKey
       /\ \A j \in Slot : j # i => taps'[j] = taps[j]
       /\ taps'[i].pos = e.pos /\ taps'[i].at = g /\ taps'[i].other = NoKey /\ taps'[i].timer = Off
       /\ \/ Quick(e) /\ taps'[i].status = "tap" /\ lastTapped'.at = g
          \/ ~Quick(e) /\ taps'[i].status = "undecided" /\ undecided' = i /\ lastTapped' = lastTapped
  <2>1. CASE Quick(e) /\ taps' = [taps EXCEPT ![i] = [New(e) EXCEPT !.status = "tap"]] /\ lastTapped' = [pos |-> e.pos, at |-> e.at]
    BY <1>1, <1>3, <1>12, <2>1 DEF Seats
  <2>2. CASE ~Quick(e) /\ taps' = [taps EXCEPT ![i] = New(e)] /\ undecided' = i /\ lastTapped' = lastTapped
    BY <1>1, <1>3, <1>12, <2>2 DEF Seats
  <2> QED
    BY <1>3, <2>1, <2>2 DEF Seats
<1>14. Ending(agenda) = None
  BY <1>2 DEF Ending
<1>15. Closing(ToSet(agenda), i) = {}
  <2>1. ~Ends(agenda, i)
    BY <1>13 DEF LineInv, TapsIn
  <2>2. \A x \in ToSet(agenda) : \E k \in DOMAIN agenda : agenda[k] = x
    BY DEF ToSet
  <2> QED
    BY <2>1, <2>2 DEF Ends, Closing
<1>16. \A x \in Z : Counts(x) /\ x.down => g <= x.at
  BY <1>2, <1>6, PressIsFirst
<1>17. Floor(g, Y, taps', lastTapped', now')
  <2>1. \A j \in Slot : taps'[j].pos # NoKey => taps'[j].at <= g
    <3>1. \A j \in Slot : taps[j].at \in Int
      BY <1>1 DEF TapShape
    <3> QED
      BY <1>4, <1>6, <1>7, <1>13, <3>1 DEF Floor
  <2>2. lastTapped'.at \in Int /\ lastTapped'.at <= g
    BY <1>4, <1>6, <1>7, <1>13 DEF Floor
  <2>3. \A x \in Y : Counts(x) /\ x.down => g <= x.at
    <3> HIDE DEF Y, Z
    <3> QED
      BY <1>8, <1>16, CountsComes
  <2>4. ASSUME NEW x \in Y, PlainPress(x) PROVE x.at <= g
    <3>1. x \in ToSet(agenda') \/ x \in ToSet(captured)
      BY <1>2
    <3>2. x.at = g \/ x \in Z
      BY <1>5, <1>9, <2>4, <3>1
    <3>3. x \in Z => x.at \in Int
      <4>1. \A y \in ToSet(agenda) : y.do = "code" => y \in Sent
        BY <1>1, CallFields DEF ToSet, Types
      <4>2. \A y \in ToSet(captured) : y \in Kept
        BY <1>1, Basics DEF ToSet
      <4>3. \A y \in Kept : y.do = "code" => y \in Sent
        BY DEF Kept, Free, Sent, KeyEvent
      <4> QED
        BY <2>4, <4>1, <4>2, <4>3 DEF PlainPress, Sent
    <3> QED
      BY <1>4, <1>6, <1>7, <2>4, <3>2, <3>3 DEF Floor
  <2> HIDE DEF g, Y
  <2> QED
    BY <1>2, <1>6, <1>7, <2>1, <2>2, <2>3, <2>4 DEF Floor
<1>18. SlotsOK(taps', undecided', agenda', captured', now')
  <2> SUFFICES ASSUME NEW j \in Slot
               PROVE  SlotOK(j, taps'[j], undecided', Ending(agenda'), ToSet(agenda'), Y, now')
    BY DEF SlotsOK
  <2>1. CASE j # i
    <3>1. SlotOK(j, taps[j], undecided, Ending(agenda), ToSet(agenda), Z, now)
      BY <1>1 DEF SlotsOK
    <3>2. taps[j].pos # NoKey => taps[j].status # "undecided"
      BY <1>1, <1>2, <3>1 DEF SlotOK
    <3>3. Stays(j, taps[j], taps'[j], ToSet(agenda), ToSet(agenda'), undecided, undecided', Ending(agenda), Ending(agenda'))
      BY <1>11, <1>13, <2>1, <3>2 DEF Stays
    <3>4. now' \in Int /\ now <= now'
      BY <1>1, <1>2
    <3> HIDE DEF Y, Z
    <3> QED
      BY <1>1, <1>8, <3>1, <3>3, <3>4, SlotStays
  <2>2. CASE j = i
    <3>1. Closing(ToSet(agenda'), i) = {}
      BY <1>11, <1>15
    <3>2. ByTime(e.pos) => ~Quick(e)
      <4> SUFFICES ASSUME ByTime(e.pos) PROVE ~QuickTap(e.pos, g)
        BY DEF Quick
      <4>1. timing[e.pos].idle = -1 /\ timing[e.pos].quick = -1
        BY DEF ByTime
      <4>2. lastTapped.at \in Int /\ lastTapped.at <= g
        BY <1>4, <1>6, <1>7 DEF Floor
      <4> HIDE DEF g
      <4> QED
        BY <1>6, <4>1, <4>2 DEF QuickTap
    <3>3. ByTime(e.pos) => InTerm(i, taps'[i], ToSet(agenda'), Y, now')
      <4> SUFFICES ASSUME ByTime(e.pos) PROVE InTerm(i, taps'[i], ToSet(agenda'), Y, now')
        OBVIOUS
      <4>1. taps'[i].status = "undecided"
        BY <1>13, <3>2
      <4>2. Due(taps'[i]) \in Int
        BY <1>2, <1>6, <1>13 DEF Due, SettingsInv
      <4> QED
        BY <1>13, <3>1, <4>1, <4>2 DEF InTerm, Open, Off
    <3>4. taps'[i].status = "undecided" => i = undecided'
      BY <1>13
    <3> HIDE DEF Y
    <3> QED
      BY <1>6, <1>13, <2>2, <3>1, <3>3, <3>4 DEF SlotOK
  <2> QED
    BY <2>1, <2>2
<1> QED
  BY <1>2, <1>6, <1>17, <1>18, TimeStep

-----------------------------------------------------------------------------
(* The rest of a press comes next: only what the press itself sends and a   *)
(* release_captured_events with nothing to release come before it.          *)

Ahead(x, u, cap) ==
    \/ x.do = "code"
    \/ x.do = "release" /\ x.i = 1 /\ u = None /\ (1 \in DOMAIN cap => cap[1] = Free)

Seated(tp, u, ag, cap) ==
    \A n \in DOMAIN ag : ag[n].do = "pressed" =>
        /\ tp[ag[n].i].pos # NoKey /\ u \in {None, ag[n].i}
        /\ \A m \in DOMAIN ag : m < n => Ahead(ag[m], u, cap)

SeatedInv == Seated(taps, undecided, agenda, captured)

NoPressed(ag) == \A x \in ToSet(ag) : x.do # "pressed"

LEMMA NoneIsSeated ==
  ASSUME NoPressed(agenda')
  PROVE  SeatedInv'
<1>1. Seated(taps', undecided', agenda', captured')
  BY DEF NoPressed, Seated, ToSet
<1>2. SeatedInv' <=> Seated(taps', undecided', agenda', captured')
  BY DEF SeatedInv, Seated, Ahead
<1> QED
  BY <1>1, <1>2

\* A press is under way only behind such a call.
LEMMA PressedBehind ==
  ASSUME Types, SeatedInv, agenda # <<>>
  PROVE  /\ ~Ahead(Head(agenda), undecided, captured) => NoPressed(Tail(agenda))
         /\ Head(agenda).do = "pressed" => taps[Head(agenda).i].pos # NoKey /\ undecided \in {None, Head(agenda).i}
<1>1. agenda \in Seq(Call(Slot))
  BY DEF Types
<1>2. /\ 1 \in DOMAIN agenda /\ agenda[1] = Head(agenda)
      /\ \A n \in DOMAIN Tail(agenda) : n + 1 \in DOMAIN agenda /\ Tail(agenda)[n] = agenda[n + 1] /\ n \in Nat \ {0}
  BY <1>1, Behind
<1>3. ASSUME ~Ahead(Head(agenda), undecided, captured), NEW x \in ToSet(Tail(agenda)), x.do = "pressed" PROVE FALSE
  <2>1. PICK n \in DOMAIN Tail(agenda) : Tail(agenda)[n] = x
    BY <1>3 DEF ToSet
  <2>2. n + 1 \in DOMAIN agenda /\ agenda[n + 1] = x /\ 1 < n + 1
    BY <1>2, <2>1
  <2> QED
    BY <1>2, <1>3, <2>2 DEF SeatedInv, Seated
<1> QED
  BY <1>2, <1>3 DEF NoPressed, SeatedInv, Seated

\* The first call is over.
LEMMA SeatedTail ==
  ASSUME Types, SeatedInv, agenda # <<>>, agenda' = Tail(agenda), UNCHANGED <<taps, undecided>>,
         captured' = captured \/ undecided # None
  PROVE  SeatedInv'
<1> DEFINE t == Tail(agenda)
<1>1. agenda \in Seq(Call(Slot))
  BY DEF Types
<1>2. \A n \in DOMAIN t : n + 1 \in DOMAIN agenda /\ t[n] = agenda[n + 1] /\ n \in Nat \ {0}
  BY <1>1, Behind
<1>3. \A x : Ahead(x, undecided, captured) => Ahead(x, undecided, captured')
  BY DEF Ahead
<1> HIDE DEF t
<1>4. Seated(taps, undecided, t, captured')
  <2> SUFFICES ASSUME NEW n \in DOMAIN t, t[n].do = "pressed"
               PROVE  taps[t[n].i].pos # NoKey /\ undecided \in {None, t[n].i} /\ \A m \in DOMAIN t : m < n => Ahead(t[m], undecided, captured')
    BY DEF Seated
  <2>1. n + 1 \in DOMAIN agenda /\ agenda[n + 1] = t[n]
    BY <1>2
  <2>2. ASSUME NEW m \in DOMAIN t, m < n PROVE Ahead(t[m], undecided, captured')
    <3>1. m + 1 \in DOMAIN agenda /\ agenda[m + 1] = t[m] /\ m + 1 < n + 1
      BY <1>2, <2>2
    <3> QED
      BY <1>3, <2>1, <3>1 DEF SeatedInv, Seated
  <2> QED
    BY <2>1, <2>2 DEF SeatedInv, Seated
<1>5. SeatedInv' <=> Seated(taps', undecided', agenda', captured')
  BY DEF SeatedInv, Seated, Ahead
<1> QED
  BY <1>4, <1>5 DEF t

\* A decision presses no key.
LEMMA DecideSeats ==
  ASSUME Types, NEW tp, NEW i \in Slot, TapShape(tp[i]), NEW moment, NEW rest \in Seq(Call(Slot)),
         Decide(tp, i, moment, rest), NoPressed(rest)
  PROVE  NoPressed(agenda')
<1>1. CASE agenda' = rest
  BY <1>1
<1>2. CASE \E CS \in SUBSET Sent : ToSet(agenda') = CS \cup {Release(1)} \cup ToSet(rest)
  <2>1. \A x \in Sent : x.do # "pressed"
    BY CodesAreNoEvents
  <2> QED
    BY <1>2, <2>1 DEF NoPressed, Release
<1> QED
  BY <1>1, <1>2, DecideMakes

LEMMA CaptureOrBubbleSeats ==
  ASSUME Types, undecided \in Slot, NEW tp, TapShape(tp[undecided]), NEW e \in KeyEvent({"pos", "after", "keymap"}),
         NEW rest \in Seq(Call(Slot)), CaptureOrBubble(tp, e, rest), NoPressed(rest)
  PROVE  NoPressed(agenda')
<1>1. CASE Bubbles(tp, e, rest)
  <2>1. Bubble(e).do = "keymap"
    BY Staged DEF Bubble
  <2> QED
    BY <1>1, <2>1 DEF Bubbles, NoPressed
<1>2. CASE Captures(tp, e, rest)
  BY <1>2, DecideSeats DEF Captures
<1> QED
  BY <1>1, <1>2, CaptureOrBubbleMakes

LEMMA CodesSeat ==
  ASSUME NEW cs \in Seq(Sent), NEW t \in Seq(Call(Slot)), NoPressed(t), agenda' = cs \o t
  PROVE  NoPressed(agenda')
<1> DEFINE C == Call(Slot)
<1>1. cs \in Seq(C) /\ t \in Seq(C)
  BY SentIsCall
<1> HIDE DEF C
<1>2. ToSet(cs \o t) = ToSet(cs) \cup ToSet(t)
  BY <1>1, SetJoin
<1>3. \A x \in ToSet(cs) : x.do # "pressed"
  <2>1. \A x \in ToSet(cs) : x \in Sent
    BY DEF ToSet
  <2> QED
    BY <2>1, CodesAreNoEvents
<1> QED
  BY <1>2, <1>3 DEF NoPressed

LEMMA CallSeats ==
  ASSUME NEW x \in Call(Slot), x.do # "pressed", NEW t \in Seq(Call(Slot)), NoPressed(t)
  PROVE  NoPressed(<<x>> \o t) /\ <<x>> \o t \in Seq(Call(Slot))
<1> DEFINE C == Call(Slot)
<1>1. x \in C /\ t \in Seq(C)
  OBVIOUS
<1> HIDE DEF C
<1>2. ToSet(<<x>> \o t) = {x} \cup ToSet(t) /\ <<x>> \o t \in Seq(C)
  BY <1>1, SetCons, Before1
<1> QED
  BY <1>2 DEF NoPressed, C

\* What the listener and the keymap do with an event that is no press of a hold-tap.
LEMMA HandledSeats ==
  ASSUME Types, SeatedInv,
         UpdateRetroTaps \/ Bubbling \/ WhileUndecided \/ AfterTimer \/ PlainKey
            \/ PressRefused \/ ReleaseUnknown \/ BindingReleased \/ KeyUpDecision \/ Released
  PROVE  SeatedInv'
<1> DEFINE e == Head(agenda)
           t == Tail(agenda)
<1>1. agenda # <<>> /\ e.do \notin {"code", "release", "pressed"}
  BY DEF UpdateRetroTaps, Bubbling, WhileUndecided, AfterTimer, PlainKey,
         PressRefused, ReleaseUnknown, BindingReleased, KeyUpDecision, Released, Doing
<1>2. /\ t \in Seq(Call(Slot)) /\ e \in Call(Slot) /\ agenda \in Seq(Call(Slot)) /\ ToSet(agenda) = {e} \cup ToSet(t)
      /\ e.do \in {"pos", "after", "keymap"} => e \in KeyEvent({"pos", "after", "keymap"})
  BY <1>1, FirstCall, CallFields DEF Types
<1>3. NoPressed(t) /\ NoPressed(agenda)
  <2>1. NoPressed(t)
    BY <1>1, PressedBehind DEF Ahead
  <2> QED
    BY <1>1, <1>2, <2>1 DEF NoPressed
<1>4. ASSUME NEW x \in Call(Slot), x.do # "pressed", agenda' = <<x>> \o t PROVE NoPressed(agenda')
  BY <1>2, <1>3, <1>4, CallSeats
<1>5. ASSUME e.do \in {"pos", "after", "keymap"}, NEW w \in {"after", "keymap"}
      PROVE  LET z == [e EXCEPT !.do = w] IN z \in Call(Slot) /\ z.do # "pressed"
  BY <1>2, <1>5, EventIs, Staged
<1>6. CASE UpdateRetroTaps
  <2> DEFINE i == Min(RetroWaiting(e.pos))
             cs == PressBinding(taps[i], "holdInterrupt")
  <2>1. agenda' = cs \o agenda /\ RetroWaiting(e.pos) # {}
    BY <1>6 DEF UpdateRetroTaps
  <2>2. i \in Slot
    <3>1. RetroWaiting(e.pos) \subseteq Slot /\ Slot \subseteq Nat
      BY DEF RetroWaiting, Slot
    <3> QED
      BY <2>1, <3>1, MinIs
  <2>3. TapShape(taps[i])
    BY <2>2 DEF Types
  <2> HIDE DEF i
  <2>4. cs \in Seq(Sent)
    BY <2>3, PressAt DEF TapShape
  <2> HIDE DEF cs
  <2> QED
    BY <1>2, <1>3, <2>1, <2>4, CodesSeat, NoneIsSeated
<1>7. CASE Bubbling
  <2>1. e.do = "pos" /\ agenda' = <<[e EXCEPT !.do = "keymap"]>> \o t
    BY <1>7 DEF Bubbling, Doing, Bubble
  <2> QED
    BY <1>4, <1>5, <2>1, NoneIsSeated
<1>8. CASE WhileUndecided
  <2> DEFINE q == taps[undecided]
             tp == IF Config[q.pos].onRelease # e.down /\ q.other = NoKey
                   THEN [taps EXCEPT ![undecided].other = e.pos] ELSE taps
             z == [e EXCEPT !.do = "after"]
             s == <<z>> \o t
  <2>1. /\ e.do = "pos" /\ undecided # None
        /\ \/ agenda' = <<[e EXCEPT !.do = "keymap"]>> \o t
           \/ Decide(tp, undecided, "timer", s)
           \/ CaptureOrBubble(tp, e, t)
    BY <1>8 DEF WhileUndecided, Doing, Bubble
  <2>2. undecided \in Slot /\ TapShape(tp[undecided])
    BY <2>1 DEF Types, TapShape
  <2> HIDE DEF tp
  <2>3. CASE agenda' = <<[e EXCEPT !.do = "keymap"]>> \o t
    BY <1>4, <1>5, <2>1, <2>3, NoneIsSeated
  <2>4. CASE Decide(tp, undecided, "timer", s)
    <3>1. z \in Call(Slot) /\ z.do # "pressed"
      BY <1>5, <2>1
    <3> HIDE DEF z, t
    <3>2. NoPressed(s) /\ s \in Seq(Call(Slot))
      BY <1>2, <1>3, <3>1, CallSeats
    <3> HIDE DEF s
    <3> QED
      BY <2>2, <2>4, <3>2, DecideSeats, NoneIsSeated
  <2>5. CASE CaptureOrBubble(tp, e, t)
    <3>1. e \in KeyEvent({"pos", "after", "keymap"})
      BY <1>2, <2>1
    <3> HIDE DEF e, t
    <3> QED
      BY <1>2, <1>3, <2>2, <2>5, <3>1, CaptureOrBubbleSeats, NoneIsSeated
  <2> QED
    BY <2>1, <2>3, <2>4, <2>5
<1>9. CASE AfterTimer
  <2>1. /\ e.do = "after"
        /\ \/ agenda' = <<[e EXCEPT !.do = "keymap"]>> \o t
           \/ undecided # None /\ CaptureOrBubble(taps, e, t)
    BY <1>9 DEF AfterTimer, Doing, Bubble
  <2>2. CASE undecided # None /\ CaptureOrBubble(taps, e, t)
    <3>1. e \in KeyEvent({"pos", "after", "keymap"}) /\ undecided \in Slot /\ TapShape(taps[undecided])
      BY <1>2, <2>1, <2>2 DEF Types
    <3> HIDE DEF e, t
    <3> QED
      BY <1>2, <1>3, <2>2, <3>1, CaptureOrBubbleSeats, NoneIsSeated
  <2> QED
    BY <1>4, <1>5, <2>1, <2>2, NoneIsSeated
<1>10. CASE PlainKey
  <2> DEFINE z == Code([of |-> e.pos, as |-> "key"], e.down, e.at)
  <2>1. e.do = "keymap" /\ agenda' = <<z>> \o t
    BY <1>10 DEF PlainKey, Doing
  <2>2. z \in Sent /\ z.do # "pressed"
    BY <1>2, <2>1 DEF KeyEvent, Sent, Code, AnyBinding, None
  <2>3. z \in Call(Slot)
    BY <2>2 DEF Call
  <2> QED
    BY <1>4, <2>1, <2>2, <2>3, NoneIsSeated
<1>11. CASE PressRefused \/ ReleaseUnknown
  <2>1. agenda' = t
    BY <1>11 DEF PressRefused, ReleaseUnknown
  <2> QED
    BY <1>3, <2>1, NoneIsSeated
<1>12. CASE BindingReleased
  <2>1. PICK i \in Slot :
           LET tp == [taps EXCEPT ![i].timer = Off]
               rest == <<Up(e, i)>> \o t
           IN  /\ rest \in Seq(Call(Slot)) /\ ToSet(rest) = {Up(e, i)} \cup ToSet(t)
               /\ Decide(tp, i, "timer", rest) \/ agenda' = rest
    BY <1>12, BindingReleasedFinds
  <2> DEFINE tp == [taps EXCEPT ![i].timer = Off]
             rest == <<Up(e, i)>> \o t
  <2>2. TapShape(tp[i]) /\ Up(e, i).do # "pressed"
    BY DEF Types, TapShape, Up
  <2>3. rest \in Seq(Call(Slot)) /\ (Decide(tp, i, "timer", rest) \/ agenda' = rest) /\ ToSet(rest) = {Up(e, i)} \cup ToSet(t)
    BY <2>1
  <2> HIDE DEF tp, rest
  <2>4. NoPressed(rest)
    BY <1>3, <2>2, <2>3 DEF NoPressed
  <2> QED
    BY <2>2, <2>3, <2>4, DecideSeats, NoneIsSeated
<1>13. CASE KeyUpDecision
  <2> DEFINE z == [e EXCEPT !.do = "released"]
             rest == <<z>> \o t
  <2>1. /\ z.do = "released" /\ rest \in Seq(Call(Slot)) /\ ToSet(rest) = {z} \cup ToSet(t)
        /\ Decide(taps, e.i, "keyUp", rest) /\ e.i \in Slot
    BY <1>13, KeyUpMakes
  <2>2. TapShape(taps[e.i])
    BY <2>1 DEF Types
  <2> HIDE DEF z
  <2>3. NoPressed(rest)
    BY <1>3, <2>1 DEF NoPressed
  <2> HIDE DEF rest, e
  <2> QED
    BY <2>1, <2>2, <2>3, DecideSeats, NoneIsSeated
<1>14. CASE Released
  <2>1. \E cs \in Seq(Sent) : agenda' = cs \o t
    BY <1>14, ReleasedMakes
  <2> HIDE DEF t
  <2> QED
    BY <1>2, <1>3, <2>1, CodesSeat, NoneIsSeated
<1> QED
  BY <1>6, <1>7, <1>8, <1>9, <1>10, <1>11, <1>12, <1>13, <1>14

\* The press of a hold-tap: its rest waits behind the calls the press sends.
LEMMA BindingPressedSeats ==
  ASSUME CallsInv, SeatedInv, BindingPressed
  PROVE  SeatedInv'
<1> DEFINE e == Head(agenda)
           t == Tail(agenda)
           free == {j \in Slot : taps[j].pos = NoKey}
           i == Min(free)
           h == [Unused EXCEPT !.pos = e.pos, !.at = e.at]
           quick == QuickTap(e.pos, e.at) /\ Outcome(timing[e.pos].flavor, "quickTap") = "tap"
           P == [do |-> "pressed", i |-> i]
           rest == <<P>> \o t
           r == Release(1)
           cs == PressBinding(h, "tap")
           C == Call(Slot)
<1>1. /\ agenda # <<>> /\ e.do = "keymap" /\ undecided = None /\ free # {} /\ e.pos \in HoldTaps
      /\ UNCHANGED captured
      /\ taps' = [taps EXCEPT ![i] = [h EXCEPT !.status = IF quick THEN "tap" ELSE "undecided"]]
      /\ undecided' = IF quick THEN None ELSE i
      /\ agenda' = (IF quick THEN cs \o <<r>> ELSE <<>>) \o rest
  BY DEF BindingPressed, Doing
<1> HIDE DEF quick
<1>2. Types /\ t \in Seq(C) /\ e \in KeyEvent({"pos", "after", "keymap"}) /\ DOMAIN taps = Slot
  <2>1. Types
    BY DEF CallsInv, OwnedInv
  <2> QED
    BY <1>1, <2>1, Basics, CallFields DEF Types
<1>3. NoPressed(t)
  BY <1>1, <1>2, PressedBehind DEF Ahead
<1>4. i \in Slot
  <2>1. free \subseteq Nat /\ \A j \in free : j \in Slot
    BY DEF Slot
  <2> HIDE DEF free
  <2> QED
    BY <1>1, <2>1, MinIs
<1> HIDE DEF free, i
<1>5. e.pos # NoKey /\ h.pos = e.pos /\ e.at \in Int /\ h.at = e.at /\ DOMAIN h = {"pos", "status", "at", "other", "timer"}
  BY <1>2, EventHas, HoldTapAssumption DEF Unused
<1>6. taps'[i].pos # NoKey
  <2>1. taps'[i] = [h EXCEPT !.status = IF quick THEN "tap" ELSE "undecided"]
    BY <1>1, <1>2, <1>4
  <2> HIDE DEF h
  <2> QED
    BY <1>5, <2>1
<1>7. 1 \in DOMAIN captured => captured[1] = Free
  <2>1. 1 \in DOMAIN captured => ~Taken(captured, 1, 1)
    BY <1>1, FirstPlaceFree DEF Handles
  <2>2. ASSUME 1 \in DOMAIN captured, captured[1] # Free PROVE Taken(captured, 1, 1)
    <3>1. \A k \in 1 .. 1 : k = 1
      OBVIOUS
    <3> QED
      BY <2>2, <3>1 DEF Taken
  <2> QED
    BY <2>1, <2>2
<1>8. P \in C /\ P.do = "pressed" /\ P.i = i /\ r \in C /\ r.do = "release" /\ r.i = 1
  BY <1>4 DEF Call, Release
<1>9. cs \in Seq(Sent)
  <2>1. h.pos \in Position \cup {NoKey} /\ h.at \in Int
    BY <1>2, <1>5, EventHas
  <2> HIDE DEF h
  <2> QED
    BY <2>1, PressAt
<1>10. cs \in Seq(C)
  BY <1>9, SentIsCall
<1>11. \A n \in DOMAIN t : t[n].do # "pressed"
  BY <1>3 DEF NoPressed, ToSet
<1> HIDE DEF P, C, cs, r, t, h
<1>12. /\ rest \in Seq(C) /\ 1 \in DOMAIN rest /\ rest[1] = P /\ DOMAIN rest \subseteq Nat \ {0}
       /\ \A n \in DOMAIN rest : n = 1 \/ rest[n].do # "pressed"
  <2>1. /\ rest \in Seq(C) /\ 1 \in DOMAIN rest /\ rest[1] = P /\ DOMAIN rest \subseteq Nat \ {0}
        /\ \A n \in DOMAIN rest : n = 1 \/ (n - 1 \in DOMAIN t /\ rest[n] = t[n - 1])
    BY <1>2, <1>8, Before1
  <2> QED
    BY <1>11, <2>1
<1> HIDE DEF rest
<1>13. Seated(taps', undecided', agenda', captured)
  <2>1. CASE ~quick
    <3>1. agenda' = rest
      BY <1>1, <1>12, <2>1
    <3>2. ASSUME NEW n \in DOMAIN rest, rest[n].do = "pressed"
          PROVE  /\ taps'[rest[n].i].pos # NoKey /\ undecided' \in {None, rest[n].i}
                 /\ \A m \in DOMAIN rest : m < n => Ahead(rest[m], undecided', captured)
      <4>1. n = 1 /\ rest[n] = P
        BY <1>12, <3>2
      <4>2. \A m \in DOMAIN rest : ~(m < 1)
        BY <1>12
      <4> QED
        BY <1>1, <1>6, <1>8, <2>1, <4>1, <4>2
    <3> QED
      BY <3>1, <3>2 DEF Seated
  <2>2. CASE quick
    <3> DEFINE q == cs \o <<r>>
               u == q \o rest
    <3>1. agenda' = u /\ undecided' = None
      BY <1>1, <2>2
    <3>2. <<r>> \in Seq(C) /\ DOMAIN <<r>> = {1} /\ <<r>>[1] = r
      BY <1>8
    <3>3. q \in Seq(C) /\ \A n \in DOMAIN q : (n \in DOMAIN cs /\ q[n] = cs[n]) \/ q[n] = r
      BY <1>10, <3>2, Joined
    <3>4. \A n \in DOMAIN q : Ahead(q[n], None, captured) /\ q[n].do # "pressed"
      <4>1. \A n \in DOMAIN cs : cs[n].do = "code"
        BY <1>9, CodesAreNoEvents
      <4> QED
        BY <1>7, <1>8, <3>3, <4>1 DEF Ahead
    <3> HIDE DEF q
    <3>5. /\ DOMAIN u = 1 .. Len(q) + Len(rest)
          /\ \A n \in DOMAIN q : n \in DOMAIN u /\ u[n] = q[n]
          /\ \A n \in DOMAIN u :
                \/ n \in DOMAIN q /\ u[n] = q[n]
                \/ n > Len(q) /\ n - Len(q) \in DOMAIN rest /\ u[n] = rest[n - Len(q)]
      BY <1>12, <3>3, Joined
    <3>6. Len(q) \in Nat /\ DOMAIN q = 1 .. Len(q) /\ Len(rest) \in Nat
      BY <1>12, <3>3
    <3> HIDE DEF u
    <3>7. ASSUME NEW n \in DOMAIN u, u[n].do = "pressed"
          PROVE  taps'[u[n].i].pos # NoKey /\ None \in {None, u[n].i} /\ \A m \in DOMAIN u : m < n => Ahead(u[m], None, captured)
      <4>1. n > Len(q) /\ n - Len(q) \in DOMAIN rest /\ u[n] = rest[n - Len(q)]
        BY <3>4, <3>5, <3>7
      <4>2. n - Len(q) = 1 /\ u[n] = P
        BY <1>12, <3>7, <4>1
      <4>3. \A m \in DOMAIN u : m < n => m \in DOMAIN q
        <5>1. n \in Nat
          BY <3>5, <3>6
        <5> QED
          BY <3>5, <3>6, <4>2, <5>1
      <4> QED
        BY <1>6, <1>8, <3>4, <3>5, <4>2, <4>3
    <3> QED
      BY <3>1, <3>7 DEF Seated
  <2> QED
    BY <2>1, <2>2
<1>14. SeatedInv' <=> Seated(taps', undecided', agenda', captured')
  BY DEF SeatedInv, Seated, Ahead
<1> QED
  BY <1>1, <1>13, <1>14

LEMMA SeatedKeeps ==
  ASSUME CallsInv, SeatedInv, [Next]_vars
  PROVE  SeatedInv'
<1> DEFINE e == Head(agenda)
           t == Tail(agenda)
<1>1. Types
  BY DEF CallsInv, OwnedInv
<1>2. CASE UpdateRetroTaps \/ Bubbling \/ WhileUndecided \/ AfterTimer \/ PlainKey
             \/ PressRefused \/ ReleaseUnknown \/ BindingReleased \/ KeyUpDecision \/ Released
  BY <1>1, <1>2, HandledSeats
<1>3. CASE BindingPressed
  BY <1>3, BindingPressedSeats
<1>4. CASE Pressed
  <2>1. agenda # <<>> /\ e.do = "pressed" /\ \E cs \in Seq(Sent) : agenda' = cs \o t
    BY <1>1, <1>4, PressedMakes
  <2>2. t \in Seq(Call(Slot)) /\ NoPressed(t)
    BY <1>1, <2>1, FirstCall, PressedBehind DEF Ahead
  <2> HIDE DEF t
  <2> QED
    BY <2>1, <2>2, CodesSeat, NoneIsSeated
<1>5. CASE ReleaseCaptured
  <2>1. agenda # <<>> /\ e.do = "release" /\ UNCHANGED <<taps, undecided>>
    BY <1>5 DEF ReleaseCaptured, Doing
  <2>2. CASE agenda' = t /\ UNCHANGED captured
    BY <1>1, <2>1, <2>2, SeatedTail
  <2>3. CASE ~(agenda' = t /\ UNCHANGED captured)
    <3>1. IF e.i > MaxCaptured \/ captured[Min({e.i, MaxCaptured})] = Free
            THEN agenda' = t /\ UNCHANGED captured
            ELSE captured' = [captured EXCEPT ![e.i] = Free]
      BY <1>5 DEF ReleaseCaptured
    <3>2. PICK j \in Place : Raises(j)
      BY <1>1, <1>5, <2>3, ReleaseCapturedTakes
    <3>3. e.i \in Nat \ {0} /\ MaxCaptured \in Nat /\ DOMAIN captured = 1 .. MaxCaptured
      BY <1>1, <2>1, Basics, CallFields
    <3>4. e.i = 1 => 1 \in DOMAIN captured /\ captured[1] # Free
      <4>1. ASSUME e.i = 1 PROVE 1 \in DOMAIN captured /\ captured[1] # Free
        <5>1. ~(1 > MaxCaptured) /\ captured[Min({1, MaxCaptured})] # Free
          BY <2>3, <3>1, <4>1
        <5>2. Min({1, MaxCaptured}) = 1
          <6>1. {1, MaxCaptured} \in SUBSET Nat /\ {1, MaxCaptured} # {}
            BY <3>3
          <6>2. Min({1, MaxCaptured}) \in {1, MaxCaptured} /\ \A k \in {1, MaxCaptured} : Min({1, MaxCaptured}) <= k
            BY <6>1, MinIs
          <6> QED
            BY <3>3, <5>1, <6>2
        <5> QED
          BY <3>3, <5>1, <5>2
      <4> QED
        BY <4>1
    <3>5. NoPressed(t)
      BY <1>1, <2>1, <3>4, PressedBehind DEF Ahead
    <3>6. RaisedAs(captured[j], [captured[j] EXCEPT !.from = j], j)
      BY <1>1, <2>1, <3>2, RaisedIs
    <3>7. PICK x, z : RaisedAs(x, z, j)
      BY <3>6
    <3>8. z.do # "pressed" /\ ToSet(agenda') = {z} \cup {Release(j + 1)} \cup ToSet(t)
      <4>1. x.do # "pressed" /\ z.do = x.do
        BY <3>7 DEF RaisedAs, Sent, KeyEvent
      <4> QED
        BY <3>7, <4>1 DEF RaisedAs
    <3>9. NoPressed(agenda')
      BY <3>5, <3>8 DEF NoPressed, Release
    <3> QED
      BY <3>9, NoneIsSeated
  <2> QED
    BY <2>2, <2>3
<1>6. CASE Keycode
  <2>1. agenda # <<>> /\ agenda' = t /\ UNCHANGED <<taps, undecided>> /\ (captured' = captured \/ undecided # None)
    BY <1>6 DEF Keycode, Doing
  <2> QED
    BY <1>1, <2>1, SeatedTail
<1>7. CASE \E i \in Slot : TimerHandler(i)
  <2>1. PICK i \in Slot : TimerHandler(i)
    BY <1>7
  <2> DEFINE tp == [taps EXCEPT ![i].timer = Off]
             rest == <<>>
  <2>2. Decide(tp, i, "timer", rest)
    BY <2>1 DEF TimerHandler
  <2>3. TapShape(tp[i]) /\ rest \in Seq(Call(Slot)) /\ NoPressed(rest)
    BY <1>1 DEF Types, TapShape, NoPressed, ToSet
  <2> HIDE DEF tp, rest
  <2> QED
    BY <1>1, <2>2, <2>3, DecideSeats, NoneIsSeated
<1>8. CASE \E p \in Position : KeyDown(p) \/ KeyUp(p)
  <2>1. \E x : ToSet(agenda') = {x} /\ x.do = "pos"
    BY <1>8, KeyMakes
  <2> QED
    BY <2>1, NoneIsSeated DEF NoPressed
<1>9. CASE UNCHANGED <<taps, undecided, agenda, captured>>
  BY <1>9 DEF SeatedInv, Seated, Ahead
<1>10. \/ Work \/ (\E i \in Slot : TimerHandler(i)) \/ (\E p \in Position : KeyDown(p) \/ KeyUp(p))
       \/ UNCHANGED <<taps, undecided, agenda, captured>>
  BY DEF Next, Tick, CopyField, engine, vars
<1> QED
  BY <1>2, <1>3, <1>4, <1>5, <1>6, <1>7, <1>8, <1>9, <1>10 DEF Work

LEMMA InitSeated ==
  ASSUME Init
  PROVE  SeatedInv
<1>1. agenda = <<>>
  BY DEF Init
<1>2. DOMAIN agenda = {}
  BY <1>1
<1> QED
  BY <1>2 DEF SeatedInv, Seated

\* The rest of a press schedules the work for the end of the term, or for now when it is over.
LEMMA PressedTime ==
  ASSUME CallsInv, SettingsInv, LineInv, SeatedInv, TimeInv, Types', Pressed
  PROVE  TimeInv'
<1> DEFINE i == Head(agenda).i
           h == taps[i]
           due == h.at + timing[h.pos].term
           T == IF h.timer # Off THEN h.timer ELSE IF due > now THEN due ELSE now
           tp == [taps EXCEPT ![i].timer = T]
           t == Tail(agenda)
           Z == ToSet(agenda) \cup ToSet(captured)
           Y == ToSet(agenda') \cup ToSet(captured')
<1>1. /\ Types /\ now \in Int /\ DOMAIN taps = Slot /\ \A j \in Slot : TapShape(taps[j])
      /\ None \notin Slot /\ SlotsOK(taps, undecided, agenda, captured, now)
      /\ \E f \in Int : Floor(f, Z, taps, lastTapped, now)
  BY TimeReady
<1>2. /\ agenda # <<>> /\ Head(agenda).do = "pressed" /\ i \in Slot
      /\ UNCHANGED <<build, timing, undecided, captured, lastTapped, now>>
      /\ taps' = tp
      /\ \E cs \in Seq(Sent) : agenda' = cs \o t /\ \A x \in ToSet(cs) : x.at = h.at
  BY <1>1, PressedMakes
<1>3. PICK cs \in Seq(Sent) : agenda' = cs \o t /\ \A x \in ToSet(cs) : x.at = h.at
  BY <1>2
<1>4. h.pos # NoKey /\ h.pos \in HoldTaps
  BY <1>1, <1>2, PressedBehind DEF LineInv, TapsIn
<1>5. Fits(h, T)
  <2> SUFFICES ASSUME ByTime(h.pos) PROVE T \in Int /\ (T # Off => Due(h) <= T)
    BY DEF Fits
  <2>1. h.timer \in Int /\ Due(h) \in Int /\ (h.timer # Off => Due(h) <= h.timer)
    BY <1>1, <1>2, <1>4 DEF SlotsOK, SlotOK, InTerm
  <2>2. Due(h) = due
    BY DEF Due
  <2> HIDE DEF due, h
  <2> QED
    BY <1>1, <2>1, <2>2
<1>6. PICK f \in Int : Floor(f, Z, taps, lastTapped, now)
  BY <1>1
<1> HIDE DEF T
<1>7. Retimed(tp)
  BY <1>1, <1>2, <1>4, <1>5, TimerSet
<1>8. h.at <= f /\ h.at \in Int
  BY <1>1, <1>2, <1>4, <1>6 DEF Floor, TapShape
<1> HIDE DEF tp, h
<1>9. Floor(f, Z, tp, lastTapped, now)
  BY <1>6, <1>7 DEF Floor, Retimed
<1>10. ToSet(agenda) = {Head(agenda)} \cup ToSet(t) /\ t \in Seq(Call(Slot))
  BY <1>1, <1>2, FirstCall
<1>11. ToSet(agenda') = ToSet(cs) \cup ToSet(t)
  <2> DEFINE C == Call(Slot)
  <2>1. cs \in Seq(C) /\ t \in Seq(C)
    BY <1>10, SentIsCall
  <2> HIDE DEF C, t
  <2>2. ToSet(cs \o t) = ToSet(cs) \cup ToSet(t)
    BY <2>1, SetJoin
  <2> QED
    BY <1>3, <2>2
<1>12. \A x \in ToSet(cs) : ~Closes(x) /\ x.at <= f
  <2>1. \A x \in ToSet(cs) : x \in Sent
    BY DEF ToSet
  <2> QED
    BY <1>3, <1>8, <2>1, CodesAreNoEvents
<1>13. Comes(Y, Z)
  BY <1>1, WorkBrings DEF Work
<1>14. \A x \in Y : PlainPress(x) => x.at <= f
  BY <1>2, <1>6, <1>10, <1>11, <1>12 DEF Floor
<1>15. Ending(agenda) = None
  BY <1>2 DEF Ending
<1>16. ASSUME NEW j \in Slot
       PROVE  Stays(j, tp[j], taps'[j], ToSet(agenda), ToSet(agenda'), undecided, undecided', Ending(agenda), Ending(agenda'))
  <2>1. Closing(ToSet(agenda'), j) = Closing(ToSet(agenda), j)
    <3>1. ~Closes(Head(agenda))
      BY <1>2 DEF Closes
    <3> QED
      BY <1>10, <1>11, <1>12, <3>1 DEF Closing
  <2>2. Ending(agenda) # j
    BY <1>1, <1>15
  <2> QED
    BY <1>2, <2>1, <2>2 DEF Stays
<1>17. \A j \in Slot : taps'[j].pos # NoKey => taps'[j].at <= f
  BY <1>2, <1>9 DEF Floor
<1>18. lastTapped'.at \in Int /\ lastTapped'.at <= f /\ now' \in {now, now + 1}
  BY <1>2, <1>6 DEF Floor
<1>19. SlotsOK(tp, undecided, agenda, captured, now)
  BY <1>7 DEF Retimed
<1> QED
  BY <1>1, <1>2, <1>9, <1>13, <1>14, <1>16, <1>17, <1>18, <1>19, TimeMoves

\* A new event is no earlier than the end of any term that is over.
LEMMA SlotGains ==
  ASSUME NEW i, NEW h, NEW u, NEW en, NEW X, NEW Z, NEW nw \in Int, SlotOK(i, h, u, en, X, Z, nw),
         NEW X2, Closing(X2, i) = Closing(X, i), NEW x, x.at = nw, NEW Z2, Z2 \subseteq Z \cup {x}
  PROVE  SlotOK(i, h, u, en, X2, Z2, nw)
<1>1. CASE h.pos = NoKey
  BY <1>1 DEF SlotOK
<1>2. CASE h.pos # NoKey
  <2>1. ByTime(h.pos) => InTerm(i, h, X2, Z2, nw)
    <3> SUFFICES ASSUME ByTime(h.pos) PROVE InTerm(i, h, X2, Z2, nw)
      OBVIOUS
    <3>1. InTerm(i, h, X, Z, nw)
      BY <1>2 DEF SlotOK
    <3> QED
      BY <3>1 DEF InTerm
  <2> QED
    BY <1>2, <2>1 DEF SlotOK
<1> QED
  BY <1>1, <1>2

LEMMA KeyTime ==
  ASSUME CallsInv, TimeInv, NEW p \in Position, KeyDown(p) \/ KeyUp(p)
  PROVE  TimeInv'
<1> DEFINE Z == ToSet(agenda) \cup ToSet(captured)
           Y == ToSet(agenda') \cup ToSet(captured')
<1>1. /\ Types /\ now \in Int /\ SlotsOK(taps, undecided, agenda, captured, now)
      /\ \E f \in Int : Floor(f, Z, taps, lastTapped, now)
  BY TimeReady
<1>2. PICK x : /\ ToSet(agenda') = {x} /\ Event(x) /\ ~Closes(x) /\ x.at = now
               /\ x.do = "pos" /\ Ending(agenda') = None
  BY KeyMakes
<1>3. agenda = <<>> /\ UNCHANGED <<build, timing, taps, undecided, captured, lastTapped, now>>
  BY KeyMakes DEF Idle
<1>4. PICK f \in Int : Floor(f, Z, taps, lastTapped, now)
  BY <1>1
<1>5. ToSet(agenda) = {} /\ Ending(agenda) = None
  BY <1>3 DEF ToSet, Ending
<1>6. Y \subseteq Z \cup {x}
  BY <1>2, <1>3
<1>7. Floor(f, Y, taps', lastTapped', now')
  <2>1. ~PlainPress(x)
    BY <1>2 DEF PlainPress
  <2> HIDE DEF Y, Z
  <2> QED
    BY <1>1, <1>2, <1>3, <1>4, <1>6, <2>1 DEF Floor
<1>8. SlotsOK(taps', undecided', agenda', captured', now')
  <2> SUFFICES ASSUME NEW i \in Slot
               PROVE  SlotOK(i, taps'[i], undecided', Ending(agenda'), ToSet(agenda'), Y, now')
    BY DEF SlotsOK
  <2>1. SlotOK(i, taps[i], undecided, None, ToSet(agenda), Z, now)
    BY <1>1, <1>5 DEF SlotsOK
  <2>2. Closing(ToSet(agenda'), i) = Closing(ToSet(agenda), i)
    BY <1>2, <1>5 DEF Closing
  <2> HIDE DEF Y, Z
  <2>3. SlotOK(i, taps[i], undecided, None, ToSet(agenda'), Y, now)
    BY <1>1, <1>2, <1>6, <2>1, <2>2, SlotGains
  <2> QED
    BY <1>2, <1>3, <2>3
<1> QED
  BY <1>3, <1>7, <1>8, TimeStep

\* Nothing but the clock moves.
LEMMA TickTime ==
  ASSUME CallsInv, SettingsInv, TimeInv, Tick
  PROVE  TimeInv'
<1>1. /\ agenda = <<>> /\ UNCHANGED <<build, timing, taps, undecided, captured, lastTapped, agenda>> /\ now' \in {now, now + 1}
  BY DEF Tick, Idle, settings, engine
<1>2. Ending(agenda) = None
  BY <1>1 DEF Ending
<1>3. Comes(ToSet(agenda') \cup ToSet(captured'), ToSet(agenda) \cup ToSet(captured))
  BY <1>1 DEF Comes
<1> QED
  BY <1>1, <1>2, <1>3, TimeCalls

\* A hold-tap the host may edit is not one the times decide.
LEMMA CopyFieldTime ==
  ASSUME CallsInv, SettingsInv, LineInv, TimeInv, NEW p \in HoldTaps, NEW f \in DOMAIN Edits[p], NEW v \in Edits[p][f],
         CopyField(p, f, v)
  PROVE  TimeInv'
<1>1. /\ UNCHANGED <<build, taps, undecided, captured, lastTapped, agenda, now>>
      /\ timing' = [timing EXCEPT ![p][f] = v]
  BY DEF CopyField, engine, input
<1>2. Slot' = Slot /\ HoldTaps' = HoldTaps /\ Ignored' = Ignored /\ Config' = Config /\ Edits' = Edits
  BY <1>1 DEF Slot, MaxHeld, HoldTaps, Config, Ignored, Edits
<1>3. ASSUME NEW q \in HoldTaps PROVE /\ q # p => timing'[q] = timing[q]
                                      /\ ByTime(q)' => q # p
                                      /\ q # p => (ByTime(q)' <=> ByTime(q))
  <2>1. q # p => timing'[q] = timing[q]
    BY <1>1 DEF SettingsInv
  <2>2. ~ByTime(p)'
    BY <1>2 DEF ByTime
  <2> QED
    BY <1>2, <2>1, <2>2 DEF ByTime
<1>4. \A i \in Slot : taps[i].pos # NoKey => taps[i].pos \in HoldTaps
  BY DEF LineInv, TapsIn
<1>5. PICK g \in Int : Floor(g, ToSet(agenda) \cup ToSet(captured), taps, lastTapped, now)
  BY DEF TimeInv, Timed
<1>6. Floor(g, ToSet(agenda) \cup ToSet(captured), taps, lastTapped, now)'
  BY <1>1, <1>2, <1>5 DEF Floor, PlainPress, Counts, Event
<1>7. ASSUME NEW i \in Slot
      PROVE  SlotOK(i, taps[i], undecided, Ending(agenda), ToSet(agenda), ToSet(agenda) \cup ToSet(captured), now)'
  <2> DEFINE h == taps[i]
             X == ToSet(agenda)
             Z == ToSet(agenda) \cup ToSet(captured)
  <2>1. SlotOK(i, h, undecided, Ending(agenda), X, Z, now)
    BY DEF TimeInv, Timed, SlotsOK
  <2>2. Closing(X, i)' = Closing(X, i) /\ Ending(agenda)' = Ending(agenda)
    BY <1>1 DEF Closing, Closes, Ending
  <2>3. ASSUME h.pos # NoKey, ByTime(h.pos)' PROVE InTerm(i, h, X, Z, now)'
    <3>1. h.pos \in HoldTaps /\ h.pos # p /\ timing'[h.pos] = timing[h.pos] /\ ByTime(h.pos)
      <4>1. h' = h /\ h.pos \in HoldTaps
        BY <1>1, <1>4, <2>3
      <4> QED
        BY <1>3, <2>3, <4>1
    <3>2. InTerm(i, h, X, Z, now)
      BY <2>1, <2>3, <3>1 DEF SlotOK
    <3>3. Due(h)' = Due(h) /\ (Unforced(h)' <=> Unforced(h)) /\ (Open(h)' <=> Open(h))
      BY <1>1, <1>2, <3>1 DEF Due, Unforced, Open
    <3>4. \A x : Counts(x)' <=> Counts(x)
      BY <1>2 DEF Counts, Event
    <3>5. h' = h /\ Z' = Z /\ X' = X /\ now' = now /\ Off' = Off
      BY <1>1 DEF Off
    <3> HIDE DEF h, X, Z
    <3> QED
      BY <2>2, <3>2, <3>3, <3>4, <3>5 DEF InTerm
  <2>4. h' = h /\ undecided' = undecided
    BY <1>1
  <2> HIDE DEF h, X, Z
  <2>5. SlotOK(i, h, undecided, Ending(agenda), X, Z, now)'
    BY <1>2, <2>1, <2>2, <2>3, <2>4 DEF SlotOK
  <2> QED
    BY <2>5 DEF h, X, Z
<1> QED
  BY <1>2, <1>6, <1>7 DEF TimeInv, Timed, SlotsOK

LEMMA InitTime ==
  ASSUME Init
  PROVE  TimeInv
<1>1. /\ taps = [i \in Slot |-> Unused] /\ captured = [j \in Place |-> Free] /\ agenda = <<>>
      /\ now = 1 /\ lastTapped = [pos |-> NoKey, at |-> -Long]
  BY DEF Init
<1> DEFINE f == -Long
<1>2. f \in Int /\ f <= 1
  BY DEF Long
<1>3. \A x \in ToSet(agenda) \cup ToSet(captured) : x = Free
  BY <1>1 DEF ToSet
<1>4. ~PlainPress(Free) /\ ~Counts(Free)
  BY DEF PlainPress, Counts, Event, Free
<1>5. Floor(f, ToSet(agenda) \cup ToSet(captured), taps, lastTapped, now)
  BY <1>1, <1>2, <1>3, <1>4 DEF Floor, Unused
<1>6. SlotsOK(taps, undecided, agenda, captured, now)
  BY <1>1 DEF SlotsOK, SlotOK, Unused
<1> QED
  BY <1>2, <1>5, <1>6 DEF TimeInv, Timed

LEMMA TimeKeeps ==
  ASSUME Punctual, CallsInv, SettingsInv, LineInv, Past, SeatedInv, TimeInv, Types', [Next]_vars
  PROVE  TimeInv'
<1>1. CASE Work
  <2>1. CASE UpdateRetroTaps
    BY <2>1, UpdateRetroTapsTime
  <2>2. CASE Bubbling
    BY <2>2, BubblingTime
  <2>3. CASE WhileUndecided
    BY <2>3, WhileUndecidedTime
  <2>4. CASE AfterTimer
    BY <2>4, AfterTimerTime
  <2>5. CASE ReleaseCaptured
    BY <2>5, ReleaseCapturedTime
  <2>6. CASE Keycode
    BY <2>6, KeycodeTime
  <2>7. CASE PlainKey
    BY <2>7, PlainKeyTime
  <2>8. CASE PressRefused \/ ReleaseUnknown
    BY <2>8, RefusedTime
  <2>9. CASE BindingPressed
    BY <2>9, BindingPressedTime
  <2>10. CASE Pressed
    BY <2>10, PressedTime
  <2>11. CASE BindingReleased
    BY <2>11, BindingReleasedTime
  <2>12. CASE KeyUpDecision
    BY <2>12, KeyUpDecisionTime
  <2>13. CASE Released
    BY <2>13, ReleasedTime
  <2> QED
    BY <1>1, <2>1, <2>2, <2>3, <2>4, <2>5, <2>6, <2>7, <2>8, <2>9, <2>10, <2>11, <2>12, <2>13 DEF Work
<1>2. CASE \E i \in Slot : TimerHandler(i)
  BY <1>2, TimerHandlerTime
<1>3. CASE \E p \in Position : KeyDown(p) \/ KeyUp(p)
  BY <1>3, KeyTime
<1>4. CASE Tick
  BY <1>4, TickTime
<1>5. CASE \E p \in HoldTaps : \E f \in DOMAIN Edits[p] : \E v \in Edits[p][f] : CopyField(p, f, v)
  BY <1>5, CopyFieldTime
<1>6. CASE UNCHANGED vars
  <2>1. UNCHANGED <<build, timing, taps, undecided, captured, lastTapped, agenda, now>>
    BY <1>6 DEF vars
  <2>2. PICK f \in Int : Floor(f, ToSet(agenda) \cup ToSet(captured), taps, lastTapped, now)
    BY DEF TimeInv, Timed
  <2>3. SlotsOK(taps, undecided, agenda, captured, now)
    BY DEF TimeInv, Timed
  <2>4. Floor(f, ToSet(agenda') \cup ToSet(captured'), taps', lastTapped', now') /\ SlotsOK(taps', undecided', agenda', captured', now')
    BY <2>1, <2>2, <2>3
  <2> QED
    BY <2>1, <2>4, TimeStep
<1> QED
  BY <1>1, <1>2, <1>3, <1>4, <1>5, <1>6 DEF Next

-----------------------------------------------------------------------------
(* The outcomes. *)

TimesInv == LinesInv /\ SeatedInv /\ (overflow \/ TimeInv)

LEMMA TimesHold ==
  ASSUME Calm, Plain, Punctual
  PROVE  Spec => []TimesInv
<1>1. Init => TimesInv
  BY InitCalls, InitLines, InitPast, InitSeated, InitTime DEF TimesInv, LinesInv
<1>2. TimesInv /\ [Next]_vars => TimesInv'
  <2> SUFFICES ASSUME TimesInv, [Next]_vars PROVE TimesInv'
    OBVIOUS
  <2>1. LinesInv' /\ Types'
    BY LinesKeep DEF TimesInv, LinesInv, CallsInv, OwnedInv
  <2>2. SeatedInv'
    BY SeatedKeeps DEF TimesInv, LinesInv
  <2>3. overflow' \/ TimeInv'
    <3>1. CASE overflow
      BY <3>1, OverflowStays
    <3>2. CASE ~overflow
      BY <2>1, <3>2, TimeKeeps DEF TimesInv, LinesInv
    <3> QED
      BY <3>1, <3>2
  <2> QED
    BY <2>1, <2>2, <2>3 DEF TimesInv
<1> QED
  BY <1>1, <1>2, PTL DEF Spec

\* A hold-tap whose key is up was decided by the times of its events: it is a tap only if
\* the key came up by the end of the tapping term, and a hold only if it did not come up
\* before, however late the timer was and whatever the events were captured behind; on
\* any calm, plain and punctual keyboard, until an event is lost to a full array.
THEOREM OutcomesComeByTime ==
  ASSUME Calm, Plain, Punctual
  PROVE  Spec => [](overflow \/ OutcomeByTime)
<1>1. TimesInv => overflow \/ OutcomeByTime
  <2> SUFFICES ASSUME TimesInv, ~overflow, Doing("released"), NEW e, e = Head(agenda), NEW h, h = taps[e.i],
                      DecidedByTime(h)
               PROVE  /\ h.status = "tap" => e.at <= h.at + timing[h.pos].term
                      /\ h.status # "tap" => e.at >= h.at + timing[h.pos].term
    BY DEF OutcomeByTime
  <2>1. /\ Types /\ SlotsOK(taps, undecided, agenda, captured, now)
        /\ CallsInv /\ SettingsInv /\ TapsIn(taps, agenda) /\ None \notin Slot /\ agenda # <<>>
    BY TimeReady DEF TimesInv, LinesInv, LineInv, Doing
  <2>2. agenda \in Seq(Call(Slot)) /\ e \in Call(Slot) /\ e \in ToSet(agenda) /\ e.do = "released"
    BY <2>1, FirstCall DEF Doing, Types
  <2>3. Closes(e) /\ e.i \in Slot /\ e.at \in Int
    BY <2>2, CallFields DEF Closes
  <2>4. h.pos # NoKey /\ h.pos \in HoldTaps
    <3>1. 1 \in DOMAIN agenda /\ agenda[1] = e
      BY <2>1, <2>2
    <3> QED
      BY <2>1, <2>3, <3>1 DEF TapsIn, Ends
  <2>5. ByTime(h.pos) /\ Unforced(h)
    <3>1. DOMAIN timing[h.pos] = {"term", "quick", "idle", "flavor"}
      BY <2>1, <2>4 DEF SettingsInv
    <3>2. timing[h.pos].flavor = "tap-preferred" /\ timing[h.pos].idle = -1 /\ timing[h.pos].quick = -1
      BY <3>1 DEF DecidedByTime
    <3> QED
      BY <3>2 DEF DecidedByTime, ByTime, Unforced
  <2>6. e \in Closing(ToSet(agenda), e.i)
    BY <2>2, <2>3 DEF Closing
  <2>7. Ending(agenda) = None
    BY <2>2 DEF Ending
  <2>8. SlotOK(e.i, h, undecided, Ending(agenda), ToSet(agenda), ToSet(agenda) \cup ToSet(captured), now)
    BY <2>1, <2>3 DEF SlotsOK
  <2>9. h.status # "undecided" /\ Due(h) \in Int /\ (IF Open(h) THEN e.at <= Due(h) ELSE Due(h) <= e.at)
    BY <2>1, <2>3, <2>4, <2>5, <2>6, <2>7, <2>8 DEF SlotOK, InTerm
  <2> QED
    BY <2>3, <2>9 DEF Open, Due
<1>2. Spec => []TimesInv
  BY TimesHold
<1> QED
  BY <1>1, <1>2, PTL

-----------------------------------------------------------------------------
(* What is sent.  Each keycode under way or captured, and each event of a   *)
(* key without a hold-tap, counts for the binding it presses or releases.   *)

Means(x, b) == (x.do = "code" /\ x.code = b) \/ (Event(x) /\ b = [of |-> x.pos, as |-> "key"])
Worth(x, b) == IF Means(x, b) THEN IF x.down THEN 1 ELSE -1 ELSE 0

\* The places of f that are worth w.
Spots(f, b, w) == {n \in DOMAIN f : Worth(f[n], b) = w}
Net(f, b) == Cardinality(Spots(f, b, 1)) - Cardinality(Spots(f, b, -1))

\* The places of two sequences, one after the other.
LEMMA SpotsJoin ==
  ASSUME NEW S, NEW s \in Seq(S), NEW t \in Seq(S), NEW b, NEW w
  PROVE  /\ Cardinality(Spots(s \o t, b, w)) = Cardinality(Spots(s, b, w)) + Cardinality(Spots(t, b, w))
         /\ Cardinality(Spots(s, b, w)) \in Nat
<1> DEFINE u == s \o t
           A == Spots(s, b, w)
           C == Spots(t, b, w)
           D == {n \in Spots(u, b, w) : n > Len(s)}
           g == [n \in C |-> Len(s) + n]
<1>1. /\ DOMAIN s = 1 .. Len(s) /\ DOMAIN t = 1 .. Len(t) /\ DOMAIN u = 1 .. Len(s) + Len(t)
      /\ Len(s) \in Nat /\ Len(t) \in Nat
      /\ \A n \in DOMAIN s : u[n] = s[n]
      /\ \A n \in DOMAIN t : u[Len(s) + n] = t[n]
  BY Joined
<1> HIDE DEF u
<1>2. IsFiniteSet(A) /\ IsFiniteSet(C)
  <2>1. IsFiniteSet(1 .. Len(s)) /\ IsFiniteSet(1 .. Len(t))
    BY <1>1, FS_Interval
  <2>2. A \in SUBSET (1 .. Len(s)) /\ C \in SUBSET (1 .. Len(t))
    BY <1>1 DEF Spots
  <2> QED
    BY <2>1, <2>2, FS_Subset
<1>3. Spots(u, b, w) = A \cup D /\ A \cap D = {}
  <2>1. \A n \in DOMAIN u : n <= Len(s) <=> n \in DOMAIN s
    BY <1>1
  <2>2. \A n \in A : n \in DOMAIN u /\ n <= Len(s) /\ ~(n > Len(s)) /\ u[n] = s[n]
    BY <1>1 DEF Spots
  <2>3. \A n \in DOMAIN u : n \in Spots(u, b, w) /\ ~(n > Len(s)) => n \in A
    <3>1. \A n \in DOMAIN u : ~(n > Len(s)) => n <= Len(s)
      BY <1>1
    <3> QED
      BY <1>1, <2>1, <3>1 DEF Spots
  <2>4. \A n \in A : n \in Spots(u, b, w)
    BY <2>2 DEF Spots
  <2> QED
    BY <2>2, <2>3, <2>4 DEF Spots
<1>4. ExistsBijection(C, D)
  <2>1. \A n \in C : Len(s) + n \in D
    BY <1>1 DEF Spots
  <2>2. \A n \in D : n - Len(s) \in C /\ Len(s) + (n - Len(s)) = n
    <3> SUFFICES ASSUME NEW n \in D PROVE n - Len(s) \in C /\ Len(s) + (n - Len(s)) = n
      OBVIOUS
    <3>1. n \in 1 .. Len(s) + Len(t) /\ n > Len(s) /\ Worth(u[n], b) = w
      BY <1>1 DEF Spots
    <3>2. n - Len(s) \in DOMAIN t /\ Len(s) + (n - Len(s)) = n
      BY <1>1, <3>1
    <3>3. u[Len(s) + (n - Len(s))] = t[n - Len(s)]
      BY <1>1, <3>2
    <3> QED
      BY <3>1, <3>2, <3>3 DEF Spots
  <2>3. C \subseteq Nat
    BY <1>1 DEF Spots
  <2> HIDE DEF C, D
  <2>4. g \in [C -> D]
    BY <2>1
  <2>5. \A m, n \in C : g[m] = g[n] => m = n
    BY <1>1, <2>3
  <2>6. \A d \in D : \E n \in C : g[n] = d
    BY <2>2
  <2> HIDE DEF g
  <2>7. g \in Bijection(C, D)
    BY <2>4, <2>5, <2>6 DEF Bijection, Injection, IsInjective, Surjection
  <2> QED
    BY <2>7 DEF ExistsBijection
<1>5. IsFiniteSet(D) /\ Cardinality(D) = Cardinality(C)
  BY <1>2, <1>4, FS_Bijection
<1>6. Cardinality(A \cup D) = Cardinality(A) + Cardinality(D) - Cardinality(A \cap D)
  BY <1>2, <1>5, FS_Union
<1>7. Cardinality(A \cap D) = 0
  BY <1>3, FS_EmptySet
<1>8. Cardinality(A) \in Nat /\ Cardinality(C) \in Nat
  BY <1>2, FS_CardinalityType
<1> HIDE DEF A, C, D
<1>9. Cardinality(Spots(u, b, w)) = Cardinality(A) + Cardinality(C)
  BY <1>3, <1>5, <1>6, <1>7, <1>8
<1> QED
  BY <1>8, <1>9 DEF u, A, C

\* The place of one call.
LEMMA SpotsOne ==
  ASSUME NEW x, NEW b, NEW w
  PROVE  Cardinality(Spots(<<x>>, b, w)) = IF Worth(x, b) = w THEN 1 ELSE 0
<1>1. DOMAIN <<x>> = {1} /\ <<x>>[1] = x
  OBVIOUS
<1>2. CASE Worth(x, b) = w
  <2>1. Spots(<<x>>, b, w) = {1}
    BY <1>1, <1>2 DEF Spots
  <2> QED
    BY <1>2, <2>1, FS_Singleton
<1>3. CASE Worth(x, b) # w
  <2>1. Spots(<<x>>, b, w) = {}
    BY <1>1, <1>3 DEF Spots
  <2> QED
    BY <1>3, <2>1, FS_EmptySet
<1> QED
  BY <1>2, <1>3

LEMMA WorthIs ==
  ASSUME NEW x, NEW b
  PROVE  Worth(x, b) \in {-1, 0, 1}
  BY DEF Worth

LEMMA NetJoin ==
  ASSUME NEW S, NEW s \in Seq(S), NEW t \in Seq(S), NEW b
  PROVE  Net(s \o t, b) = Net(s, b) + Net(t, b) /\ Net(s, b) \in Int
<1>1. /\ Cardinality(Spots(s \o t, b, 1)) = Cardinality(Spots(s, b, 1)) + Cardinality(Spots(t, b, 1))
      /\ Cardinality(Spots(s \o t, b, -1)) = Cardinality(Spots(s, b, -1)) + Cardinality(Spots(t, b, -1))
      /\ Cardinality(Spots(s, b, 1)) \in Nat /\ Cardinality(Spots(s, b, -1)) \in Nat
      /\ Cardinality(Spots(t, b, 1)) \in Nat /\ Cardinality(Spots(t, b, -1)) \in Nat
  BY SpotsJoin
<1> QED
  BY <1>1 DEF Net

LEMMA NetNone ==
  ASSUME NEW b
  PROVE  Net(<<>>, b) = 0
<1>1. Spots(<<>>, b, 1) = {} /\ Spots(<<>>, b, -1) = {}
  BY DEF Spots
<1>2. Cardinality(Spots(<<>>, b, 1)) = 0
  BY <1>1, FS_EmptySet
<1>3. Cardinality(Spots(<<>>, b, -1)) = 0
  BY <1>1, FS_EmptySet
<1> QED
  BY <1>2, <1>3 DEF Net

LEMMA NetOne ==
  ASSUME NEW x, NEW b
  PROVE  Net(<<x>>, b) = Worth(x, b)
<1>1. /\ Cardinality(Spots(<<x>>, b, 1)) = IF Worth(x, b) = 1 THEN 1 ELSE 0
      /\ Cardinality(Spots(<<x>>, b, -1)) = IF Worth(x, b) = -1 THEN 1 ELSE 0
  BY SpotsOne
<1> QED
  BY <1>1, WorthIs DEF Net

LEMMA NetCons ==
  ASSUME NEW S, NEW x \in S, NEW t \in Seq(S), NEW b
  PROVE  Net(<<x>> \o t, b) = Worth(x, b) + Net(t, b) /\ Net(t, b) \in Int
<1>1. <<x>> \in Seq(S)
  OBVIOUS
<1>2. Net(<<x>> \o t, b) = Net(<<x>>, b) + Net(t, b) /\ Net(t, b) \in Int
  BY <1>1, NetJoin
<1> QED
  BY <1>2, NetOne

LEMMA NetHead ==
  ASSUME NEW S, NEW s \in Seq(S), s # <<>>, NEW b
  PROVE  Net(s, b) = Worth(Head(s), b) + Net(Tail(s), b) /\ Net(Tail(s), b) \in Int
<1>1. s = <<Head(s)>> \o Tail(s) /\ Head(s) \in S /\ Tail(s) \in Seq(S)
  BY Behind
<1> DEFINE x == Head(s)
           t == Tail(s)
<1>2. x \in S /\ t \in Seq(S) /\ s = <<x>> \o t
  BY <1>1
<1> HIDE DEF x, t
<1>3. Net(s, b) = Worth(x, b) + Net(t, b) /\ Net(t, b) \in Int
  BY <1>2, NetCons
<1> QED
  BY <1>3 DEF x, t

\* One place of captured_events changes.
LEMMA NetPut ==
  ASSUME NEW f, IsFiniteSet(DOMAIN f), NEW j \in DOMAIN f, NEW v, NEW b
  PROVE  Net([f EXCEPT ![j] = v], b) = Net(f, b) - Worth(f[j], b) + Worth(v, b) /\ Net(f, b) \in Int
<1> DEFINE g == [f EXCEPT ![j] = v]
<1>1. DOMAIN g = DOMAIN f /\ g[j] = v /\ \A n \in DOMAIN f : n # j => g[n] = f[n]
  OBVIOUS
<1> HIDE DEF g
<1>2. ASSUME NEW w
      PROVE  /\ Cardinality(Spots(g, b, w))
                  = Cardinality(Spots(f, b, w)) - (IF Worth(f[j], b) = w THEN 1 ELSE 0) + (IF Worth(v, b) = w THEN 1 ELSE 0)
             /\ Cardinality(Spots(f, b, w)) \in Nat
  <2> DEFINE F == Spots(f, b, w)
             R == F \ {j}
  <2>1. IsFiniteSet(F)
    <3>1. F \in SUBSET DOMAIN f
      BY DEF Spots
    <3> QED
      BY <3>1, FS_Subset
  <2>2. j \in F <=> Worth(f[j], b) = w
    BY DEF Spots
  <2>3. Spots(g, b, w) = IF Worth(v, b) = w THEN R \cup {j} ELSE R
    BY <1>1 DEF Spots
  <2> HIDE DEF F
  <2>4. IsFiniteSet(R) /\ Cardinality(R) = IF j \in F THEN Cardinality(F) - 1 ELSE Cardinality(F)
    BY <2>1, FS_RemoveElement
  <2>5. Cardinality(F) \in Nat
    BY <2>1, FS_CardinalityType
  <2>6. j \notin R
    OBVIOUS
  <2> HIDE DEF R
  <2>7. Cardinality(R \cup {j}) = Cardinality(R) + 1
    BY <2>4, <2>6, FS_AddElement
  <2> QED
    BY <2>2, <2>3, <2>4, <2>5, <2>7 DEF F
<1>3. Worth(f[j], b) \in {-1, 0, 1} /\ Worth(v, b) \in {-1, 0, 1}
  BY WorthIs
<1>4. /\ Cardinality(Spots(g, b, 1))
           = Cardinality(Spots(f, b, 1)) - (IF Worth(f[j], b) = 1 THEN 1 ELSE 0) + (IF Worth(v, b) = 1 THEN 1 ELSE 0)
      /\ Cardinality(Spots(g, b, -1))
           = Cardinality(Spots(f, b, -1)) - (IF Worth(f[j], b) = -1 THEN 1 ELSE 0) + (IF Worth(v, b) = -1 THEN 1 ELSE 0)
      /\ Cardinality(Spots(f, b, 1)) \in Nat /\ Cardinality(Spots(f, b, -1)) \in Nat
  BY <1>2
<1>5. Net(g, b) = Net(f, b) - Worth(f[j], b) + Worth(v, b) /\ Net(f, b) \in Int
  BY <1>3, <1>4 DEF Net
<1> QED
  BY <1>5 DEF g

-----------------------------------------------------------------------------
(* What is owed: a plain key's binding is pressed while the key is down, a  *)
(* hold-tap's as it is decided.                                             *)

OnTap(tp, p) == \E i \in Slot : tp[i].pos = p /\ tp[i].status = "tap"
Holding(h, ag) ==
    \/ h.status = "holdInterrupt"
    \/ h.status = "holdTimer" /\ (Config[h.pos].early \/ ~Config[h.pos].retro)
    \/ h.status = "undecided" /\ Config[h.pos].early /\ NoPressed(ag)
OnHold(tp, ag, p) == \E i \in Slot : tp[i].pos = p /\ Holding(tp[i], ag)
Owes(tp, ag, hl, b) ==
    IF \/ b.as = "key" /\ b.of \in hl
       \/ b.as = "tap" /\ OnTap(tp, b.of)
       \/ b.as = "hold" /\ OnHold(tp, ag, b.of)
    THEN 1 ELSE 0

Statuses(tp) == \A i \in Slot : tp[i].status \in {"undecided", "tap", "holdInterrupt", "holdTimer"}

Balance(tp, ag, cap, hd, hl) ==
    /\ Statuses(tp) /\ DOMAIN hd = Binding
    /\ \A b \in Binding : hd[b] \in Int /\ hd[b] + Net(ag, b) + Net(cap, b) = Owes(tp, ag, hl, b)

BalanceInv == Balance(taps, agenda, captured, hid, held)

\* A hold-tap that presses its hold early does not let it linger, and no key before it
\* makes it a quick tap.
Steady ==
    \A b \in Builds : \A p \in DOMAIN b.config :
        b.config[p].early =>
            /\ ~b.config[p].linger
            /\ \A f \in {"quick", "idle"} :
                  /\ b.timing[p][f] <= 0
                  /\ f \in DOMAIN b.edits[p] => \A v \in b.edits[p][f] : v <= 0

LEMMA BindingIs ==
  ASSUME NEW b \in Binding
  PROVE  /\ b.as \in {"hold", "tap", "key"}
         /\ b.as = "key" <=> b.of \notin HoldTaps
         /\ b.as = "key" => b = [of |-> b.of, as |-> "key"]
         /\ b.as = "hold" => b = Hold(b.of)
         /\ b.as = "tap" => b = Tap(b.of)
  BY DEF Binding, Hold, Tap

LEMMA OwesNumber ==
  ASSUME NEW tp, NEW ag, NEW hl, NEW b
  PROVE  Owes(tp, ag, hl, b) \in {0, 1}
  BY DEF Owes

\* What hold-tap h becomes is the same to its key's bindings.
AsBefore(h, h2, ag, ag2) ==
    h2.pos = h.pos /\ h2.status = h.status /\ (h.pos # NoKey => (Holding(h2, ag2) <=> Holding(h, ag)))

\* Nothing changes for a binding when the hold-taps on its key do not.
LEMMA OwesSame ==
  ASSUME NEW tp, NEW tp2, NEW ag, NEW ag2, NEW hl, NEW b, b.of # NoKey,
         \A i \in Slot : tp[i].pos = b.of \/ tp2[i].pos = b.of => AsBefore(tp[i], tp2[i], ag, ag2)
  PROVE  Owes(tp2, ag2, hl, b) = Owes(tp, ag, hl, b)
<1>1. OnTap(tp2, b.of) <=> OnTap(tp, b.of)
  BY DEF OnTap, AsBefore
<1>2. OnHold(tp2, ag2, b.of) <=> OnHold(tp, ag, b.of)
  BY DEF OnHold, AsBefore
<1> QED
  BY <1>1, <1>2 DEF Owes

LEMMA HoldingSame ==
  ASSUME NEW h, NEW h2, h2.pos = h.pos, h2.status = h.status, NEW ag, NEW ag2,
         h.status = "undecided" => (NoPressed(ag) <=> NoPressed(ag2))
  PROVE  AsBefore(h, h2, ag, ag2)
  BY DEF Holding, AsBefore

\* What the one hold-tap on a key owes.
Sole(tp, i, p) == tp[i].pos = p /\ \A j \in Slot : tp[j].pos = p => j = i

LEMMA OwesAt ==
  ASSUME NEW tp, NEW ag, NEW hl, NEW i \in Slot, NEW p, Sole(tp, i, p)
  PROVE  /\ Owes(tp, ag, hl, Tap(p)) = IF tp[i].status = "tap" THEN 1 ELSE 0
         /\ Owes(tp, ag, hl, Hold(p)) = IF Holding(tp[i], ag) THEN 1 ELSE 0
<1>1. OnTap(tp, p) <=> tp[i].status = "tap"
  BY DEF OnTap, Sole
<1>2. OnHold(tp, ag, p) <=> Holding(tp[i], ag)
  BY DEF OnHold, Sole
<1>3. Tap(p).as = "tap" /\ Tap(p).of = p /\ Hold(p).as = "hold" /\ Hold(p).of = p
  BY DEF Tap, Hold
<1> QED
  BY <1>1, <1>2, <1>3 DEF Owes

\* A key no hold-tap is active for owes nothing.
LEMMA OwesNothing ==
  ASSUME NEW tp, NEW ag, NEW hl, NEW p, \A j \in Slot : tp[j].pos # p
  PROVE  Owes(tp, ag, hl, Tap(p)) = 0 /\ Owes(tp, ag, hl, Hold(p)) = 0
<1>1. ~OnTap(tp, p) /\ ~OnHold(tp, ag, p)
  BY DEF OnTap, OnHold
<1>2. Tap(p).as = "tap" /\ Tap(p).of = p /\ Hold(p).as = "hold" /\ Hold(p).of = p
  BY DEF Tap, Hold
<1> QED
  BY <1>1, <1>2 DEF Owes

-----------------------------------------------------------------------------
(* What a call is worth. *)

LEMMA CodeWorth ==
  ASSUME NEW x, x.do = "code", NEW b
  PROVE  Worth(x, b) = IF b = x.code THEN IF x.down THEN 1 ELSE -1 ELSE 0
  BY DEF Worth, Means, Event

LEMMA NoWorth ==
  ASSUME NEW x, x.do \in {"free", "release", "pressed", "keyUp", "released"}, NEW b
  PROVE  Worth(x, b) = 0
  BY DEF Worth, Means, Event

\* A keycode or an event is worth the same at any stage and from any place.
LEMMA StageWorth ==
  ASSUME NEW e \in KeyEvent({"pos", "after", "keymap"}), NEW b
  PROVE  /\ \A w \in {"pos", "after", "keymap"} : Worth([e EXCEPT !.do = w], b) = Worth(e, b)
         /\ Worth([[e EXCEPT !.do = "pos"] EXCEPT !.from = None], b) = Worth(e, b)
         /\ e.pos \in HoldTaps /\ b \in Binding => Worth(e, b) = 0
<1>1. ASSUME NEW w \in {"pos", "after", "keymap"}, NEW z, z = [e EXCEPT !.do = w] \/ z = [[e EXCEPT !.do = "pos"] EXCEPT !.from = None]
      PROVE  Worth(z, b) = Worth(e, b)
  <2>1. Event(z) /\ z.pos = e.pos /\ z.down = e.down /\ Event(e)
    BY <1>1 DEF KeyEvent, Event
  <2>2. z.do # "code" /\ e.do # "code"
    BY <2>1 DEF Event
  <2> QED
    BY <2>1, <2>2 DEF Worth, Means
<1>2. ASSUME e.pos \in HoldTaps, b \in Binding PROVE Worth(e, b) = 0
  <2>1. e.do # "code" /\ b # [of |-> e.pos, as |-> "key"]
    BY <1>2 DEF KeyEvent, Binding
  <2> QED
    BY <2>1 DEF Worth, Means
<1> QED
  BY <1>1, <1>2

LEMMA FromWorth ==
  ASSUME NEW x \in Kept \ {Free}, NEW i, NEW b
  PROVE  Worth([x EXCEPT !.from = i], b) = Worth(x, b)
<1> DEFINE z == [x EXCEPT !.from = i]
<1>1. x \in Sent \cup KeyEvent({"pos"})
  BY DEF Kept
<1>2. z.do = x.do /\ z.down = x.down /\ (x.do = "code" => z.code = x.code) /\ (Event(x) => z.pos = x.pos)
  BY <1>1 DEF Sent, KeyEvent, Event
<1> HIDE DEF z
<1>3. Event(z) <=> Event(x)
  BY <1>2 DEF Event
<1>4. Means(z, b) <=> Means(x, b)
  BY <1>2, <1>3 DEF Means
<1>5. Worth(z, b) = Worth(x, b)
  BY <1>2, <1>4 DEF Worth
<1> QED
  BY <1>5 DEF z

\* What press_binding is worth.
LEMMA PressWorth ==
  ASSUME NEW h, h.pos \in Position \cup {NoKey}, h.at \in Int, NEW s, NEW b,
         NEW c, c = Config[h.pos]
  PROVE  Net(PressBinding(h, s), b) =
           IF c.retro /\ s = "holdTimer" THEN 0
           ELSE IF s \in {"holdTimer", "holdInterrupt"} THEN IF ~c.early /\ b = Hold(h.pos) THEN 1 ELSE 0
           ELSE IF b = Tap(h.pos) THEN 1
           ELSE IF c.early /\ ~c.linger /\ b = Hold(h.pos) THEN -1 ELSE 0
<1> DEFINE hold == Code(Hold(h.pos), TRUE, h.at)
           up == Code(Hold(h.pos), FALSE, h.at)
           tap == Code(Tap(h.pos), TRUE, h.at)
           cs == PressBinding(h, s)
<1>1. hold \in Sent /\ up \in Sent /\ tap \in Sent
  BY CodeIs
<1>2. /\ hold.do = "code" /\ hold.code = Hold(h.pos) /\ hold.down
      /\ up.do = "code" /\ up.code = Hold(h.pos) /\ ~up.down
      /\ tap.do = "code" /\ tap.code = Tap(h.pos) /\ tap.down
  BY DEF Code
<1>3. cs = IF c.retro /\ s = "holdTimer" THEN <<>>
           ELSE IF s \in {"holdTimer", "holdInterrupt"} THEN IF c.early THEN <<>> ELSE <<hold>>
           ELSE (IF c.early /\ ~c.linger THEN <<up>> ELSE <<>>) \o <<tap>>
  BY DEF PressBinding
<1>4. Hold(h.pos) # Tap(h.pos)
  BY DEF Hold, Tap
<1> HIDE DEF hold, up, tap, cs
<1>5. /\ Net(<<hold>>, b) = IF b = Hold(h.pos) THEN 1 ELSE 0
      /\ Net(<<up>>, b) = IF b = Hold(h.pos) THEN -1 ELSE 0
      /\ Net(<<tap>>, b) = IF b = Tap(h.pos) THEN 1 ELSE 0
      /\ Net(<<>>, b) = 0
  <2>1. /\ Worth(hold, b) = IF b = Hold(h.pos) THEN 1 ELSE 0
        /\ Worth(up, b) = IF b = Hold(h.pos) THEN -1 ELSE 0
        /\ Worth(tap, b) = IF b = Tap(h.pos) THEN 1 ELSE 0
    BY <1>2, CodeWorth
  <2> QED
    BY <2>1, NetOne, NetNone
<1>6. CASE s \in {"holdTimer", "holdInterrupt"}
  BY <1>3, <1>4, <1>5, <1>6 DEF cs
<1>7. CASE s \notin {"holdTimer", "holdInterrupt"}
  <2> DEFINE A == IF c.early /\ ~c.linger THEN <<up>> ELSE <<>>
  <2>1. cs = A \o <<tap>>
    BY <1>3, <1>7
  <2>2. A \in Seq(Sent) /\ <<tap>> \in Seq(Sent)
    <3>1. <<>> \in Seq(Sent) /\ <<up>> \in Seq(Sent) /\ <<tap>> \in Seq(Sent)
      BY <1>1
    <3> QED
      BY <3>1
  <2>3. Net(A, b) = IF c.early /\ ~c.linger /\ b = Hold(h.pos) THEN -1 ELSE 0
    BY <1>5
  <2> HIDE DEF A
  <2>4. Net(A \o <<tap>>, b) = Net(A, b) + Net(<<tap>>, b)
    BY <2>2, NetJoin
  <2> QED
    BY <1>4, <1>5, <1>7, <2>1, <2>3, <2>4 DEF cs
<1> QED
  BY <1>6, <1>7

\* What release_binding is worth.
LEMMA ReleaseWorth ==
  ASSUME NEW h, h.pos \in Position \cup {NoKey}, h.at \in Int, NEW s, NEW b,
         NEW c, c = Config[h.pos]
  PROVE  /\ ReleaseBinding(h, s) \in Seq(Sent)
         /\ Net(ReleaseBinding(h, s), b) =
              IF c.retro /\ s = "holdTimer" THEN 0
              ELSE IF s \in {"holdTimer", "holdInterrupt"} THEN IF b = Hold(h.pos) THEN -1 ELSE 0
              ELSE IF b = Tap(h.pos) THEN -1 ELSE 0
<1> DEFINE up == Code(Hold(h.pos), FALSE, h.at)
           tup == Code(Tap(h.pos), FALSE, h.at)
           cs == ReleaseBinding(h, s)
<1>1. up \in Sent /\ tup \in Sent
  BY CodeIs
<1>2. up.do = "code" /\ up.code = Hold(h.pos) /\ ~up.down /\ tup.do = "code" /\ tup.code = Tap(h.pos) /\ ~tup.down
  BY DEF Code
<1>3. cs = IF c.retro /\ s = "holdTimer" THEN <<>>
           ELSE IF s \in {"holdTimer", "holdInterrupt"} THEN <<up>> ELSE <<tup>>
  BY DEF ReleaseBinding
<1> HIDE DEF up, tup, cs
<1>4. /\ Net(<<up>>, b) = IF b = Hold(h.pos) THEN -1 ELSE 0
      /\ Net(<<tup>>, b) = IF b = Tap(h.pos) THEN -1 ELSE 0
      /\ Net(<<>>, b) = 0
  <2>1. /\ Worth(up, b) = IF b = Hold(h.pos) THEN -1 ELSE 0
        /\ Worth(tup, b) = IF b = Tap(h.pos) THEN -1 ELSE 0
    BY <1>2, CodeWorth
  <2> QED
    BY <2>1, NetOne, NetNone
<1>5. <<>> \in Seq(Sent) /\ <<up>> \in Seq(Sent) /\ <<tup>> \in Seq(Sent)
  BY <1>1
<1> QED
  BY <1>3, <1>4, <1>5 DEF cs

-----------------------------------------------------------------------------
(* The steps. *)

Sum(hd, ag, cap, b) == hd[b] + Net(ag, b) + Net(cap, b)

\* What Steady keeps of a hold-tap that presses its hold early.
SlowInv ==
    \A p \in HoldTaps : Config[p].early =>
        ~Config[p].linger /\ timing[p].quick <= 0 /\ timing[p].idle <= 0

LEMMA HoldTapsAre ==
  ASSUME build \in Builds
  PROVE  HoldTaps \subseteq Position /\ NoKey \notin Position
  BY HoldTapAssumption DEF HoldTaps, Config

LEMMA BalanceNext ==
  ASSUME build' = build, Balance(taps', agenda', captured', hid', held')
  PROVE  BalanceInv'
<1>1. Slot' = Slot /\ HoldTaps' = HoldTaps /\ Config' = Config /\ Binding' = Binding
  BY DEF Slot, MaxHeld, HoldTaps, Config, Binding
<1> QED
  BY <1>1 DEF BalanceInv, Balance, Owes, OnTap, OnHold, Holding, Statuses, NoPressed

\* Only the bindings of hold-tap key p change, by "tap" and "hold".
Elsewhere(p) ==
    \A i \in Slot : taps[i].pos \notin {p, NoKey} \/ taps'[i].pos \notin {p, NoKey} => AsBefore(taps[i], taps'[i], agenda, agenda')
Paid(p, tap, hold) ==
    \A b \in Binding : /\ hid'[b] \in Int
                       /\ Sum(hid', agenda', captured', b) = Sum(hid, agenda, captured, b)
                            + (IF b = Tap(p) THEN tap ELSE IF b = Hold(p) THEN hold ELSE 0)
Owing(p, tap, hold) ==
    /\ Owes(taps', agenda', held, Tap(p)) = Owes(taps, agenda, held, Tap(p)) + tap
    /\ Owes(taps', agenda', held, Hold(p)) = Owes(taps, agenda, held, Hold(p)) + hold

LEMMA Rebalance ==
  ASSUME build \in Builds, BalanceInv, build' = build, held' = held, Statuses(taps'), DOMAIN hid' = Binding,
         NEW p \in HoldTaps, NEW tap, NEW hold, Elsewhere(p), Paid(p, tap, hold), Owing(p, tap, hold)
  PROVE  BalanceInv'
<1> SUFFICES ASSUME NEW b \in Binding PROVE Sum(hid', agenda', captured', b) = Owes(taps', agenda', held, b)
  <2>1. Balance(taps', agenda', captured', hid', held')
    BY DEF Balance, Sum, Paid
  <2> QED
    BY <2>1, BalanceNext
<1>1. Sum(hid, agenda, captured, b) = Owes(taps, agenda, held, b)
  BY DEF BalanceInv, Balance, Sum
<1>2. Hold(p) # Tap(p)
  BY DEF Hold, Tap
<1>3. CASE b.of = p
  <2>1. b = Tap(p) \/ b = Hold(p)
    BY <1>3, BindingIs
  <2> QED
    BY <1>1, <1>2, <2>1 DEF Paid, Owing
<1>4. CASE b.of # p
  <2>1. b # Tap(p) /\ b # Hold(p) /\ b.of # NoKey
    <3>1. b.of \in Position
      BY HoldTapsAre DEF Binding
    <3> QED
      BY <1>4, <3>1, HoldTapAssumption DEF Tap, Hold
  <2>2. Owes(taps', agenda', held, b) = Owes(taps, agenda, held, b)
    <3>1. \A i \in Slot : taps[i].pos = b.of \/ taps'[i].pos = b.of => AsBefore(taps[i], taps'[i], agenda, agenda')
      BY <1>4, <2>1 DEF Elsewhere
    <3> QED
      BY <2>1, <3>1, OwesSame
  <2>3. Owes(taps, agenda, held, b) \in Int /\ Sum(hid', agenda', captured', b) = Sum(hid, agenda, captured, b) + 0
    BY <2>1, OwesNumber DEF Paid
  <2> QED
    BY <1>1, <2>2, <2>3
<1> QED
  BY <1>3, <1>4

\* Nothing changes.
LEMMA Even ==
  ASSUME BalanceInv, build' = build, held' = held, DOMAIN hid' = Binding,
         NoPressed(agenda') <=> NoPressed(agenda),
         \A i \in Slot : taps'[i].pos = taps[i].pos /\ taps'[i].status = taps[i].status,
         \A b \in Binding : hid'[b] \in Int /\ Sum(hid', agenda', captured', b) = Sum(hid, agenda, captured, b)
  PROVE  BalanceInv'
<1>1. ASSUME NEW b \in Binding PROVE hid'[b] \in Int /\ Sum(hid', agenda', captured', b) = Owes(taps', agenda', held, b)
  <2>1. Sum(hid, agenda, captured, b) = Owes(taps, agenda, held, b)
    BY DEF BalanceInv, Balance, Sum
  <2>2. OnTap(taps', b.of) <=> OnTap(taps, b.of)
    BY DEF OnTap
  <2>3. OnHold(taps', agenda', b.of) <=> OnHold(taps, agenda, b.of)
    BY DEF OnHold, Holding
  <2>4. Owes(taps', agenda', held, b) = Owes(taps, agenda, held, b)
    BY <2>2, <2>3 DEF Owes
  <2> QED
    BY <2>1, <2>4
<1>2. Statuses(taps')
  BY DEF BalanceInv, Balance, Statuses
<1>3. Balance(taps', agenda', captured', hid', held')
  BY <1>1, <1>2 DEF Balance, Sum
<1> QED
  BY <1>3, BalanceNext

\* A decision is worth what it presses.
LEMMA NetDecided ==
  ASSUME NEW cs \in Seq(Sent), NEW rest \in Seq(Call(Slot)), NEW b
  PROVE  /\ Net(cs \o <<Release(1)>> \o rest, b) = Net(cs, b) + Net(rest, b)
         /\ Net(cs, b) \in Int /\ Net(rest, b) \in Int
<1> DEFINE C == Call(Slot)
           r == Release(1)
<1>1. cs \in Seq(C) /\ rest \in Seq(C)
  BY SentIsCall
<1>2. r \in C /\ Worth(r, b) = 0
  BY NoWorth DEF Call, Release
<1> HIDE DEF C, r
<1>3. <<r>> \in Seq(C) /\ cs \o <<r>> \in Seq(C)
  BY <1>1, <1>2
<1>4. Net(cs \o <<r>>, b) = Net(cs, b) + Net(<<r>>, b) /\ Net(cs, b) \in Int
  BY <1>1, <1>3, NetJoin
<1>5. Net((cs \o <<r>>) \o rest, b) = Net(cs \o <<r>>, b) + Net(rest, b)
  BY <1>1, <1>3, NetJoin
<1>6. Net(rest, b) \in Int
  BY <1>1, NetJoin
<1>7. Net(<<r>>, b) = 0
  BY <1>2, NetOne
<1> QED
  BY <1>4, <1>5, <1>6, <1>7 DEF r

LEMMA QuietHead ==
  ASSUME Types, SeatedInv, agenda # <<>>, Head(agenda).do \notin {"code", "release", "pressed"}
  PROVE  NoPressed(Tail(agenda)) /\ NoPressed(agenda)
<1>1. NoPressed(Tail(agenda))
  BY PressedBehind DEF Ahead
<1>2. ToSet(agenda) = {Head(agenda)} \cup ToSet(Tail(agenda))
  BY FirstCall
<1> QED
  BY <1>1, <1>2 DEF NoPressed

LEMMA SumIs ==
  ASSUME Types, BalanceInv, NEW b \in Binding
  PROVE  /\ hid[b] \in Int /\ Net(agenda, b) \in Int /\ Net(captured, b) \in Int
         /\ agenda # <<>> => Net(agenda, b) = Worth(Head(agenda), b) + Net(Tail(agenda), b) /\ Net(Tail(agenda), b) \in Int
<1>1. hid[b] \in Int
  BY DEF BalanceInv, Balance
<1> DEFINE C == Call(Slot)
<1>2. agenda \in Seq(C)
  BY DEF Types
<1> HIDE DEF C
<1>3. agenda # <<>> => Net(agenda, b) = Worth(Head(agenda), b) + Net(Tail(agenda), b) /\ Net(Tail(agenda), b) \in Int
  BY <1>2, NetHead
<1>4. Worth(Head(agenda), b) \in Int
  BY WorthIs
<1>5. Net(agenda, b) \in Int
  <2>1. CASE agenda = <<>>
    BY <2>1, NetNone
  <2>2. CASE agenda # <<>>
    BY <1>3, <1>4, <2>2
  <2> QED
    BY <2>1, <2>2
<1>6. Net(captured, b) \in Int
  <2>1. Cardinality(Spots(captured, b, 1)) \in Nat /\ Cardinality(Spots(captured, b, -1)) \in Nat
    <3>1. IsFiniteSet(DOMAIN captured)
      BY Basics, FS_Interval
    <3>2. Spots(captured, b, 1) \in SUBSET DOMAIN captured /\ Spots(captured, b, -1) \in SUBSET DOMAIN captured
      BY DEF Spots
    <3>3. IsFiniteSet(Spots(captured, b, 1)) /\ IsFiniteSet(Spots(captured, b, -1))
      BY <3>1, <3>2, FS_Subset
    <3> QED
      BY <3>3, FS_CardinalityType
  <2> QED
    BY <2>1 DEF Net
<1> QED
  BY <1>1, <1>3, <1>5, <1>6

\* The call at the head gives way to one worth as much.
LEMMA SwapHead ==
  ASSUME Types, SeatedInv, BalanceInv, agenda # <<>>, Head(agenda).do \notin {"code", "release", "pressed"},
         UNCHANGED <<build, captured, held, hid>>,
         NEW z \in Call(Slot), z.do # "pressed", agenda' = <<z>> \o Tail(agenda),
         \A i \in Slot : taps'[i].pos = taps[i].pos /\ taps'[i].status = taps[i].status,
         \A b \in Binding : Worth(z, b) = Worth(Head(agenda), b)
  PROVE  BalanceInv'
<1>1. Tail(agenda) \in Seq(Call(Slot)) /\ NoPressed(Tail(agenda)) /\ NoPressed(agenda)
  BY QuietHead, FirstCall
<1>2. NoPressed(agenda')
  BY <1>1, CallSeats
<1>3. ASSUME NEW b \in Binding PROVE hid'[b] \in Int /\ Sum(hid', agenda', captured', b) = Sum(hid, agenda, captured, b)
  <2> DEFINE C == Call(Slot)
             t == Tail(agenda)
  <2>1. t \in Seq(C) /\ z \in C
    BY <1>1
  <2> HIDE DEF C, t
  <2>2. Net(<<z>> \o t, b) = Worth(z, b) + Net(t, b)
    BY <2>1, NetCons
  <2>3. agenda' = <<z>> \o t
    BY DEF t
  <2>4. hid[b] \in Int /\ Net(agenda, b) = Worth(Head(agenda), b) + Net(t, b)
    BY SumIs DEF t
  <2> QED
    BY <2>2, <2>3, <2>4 DEF Sum
<1>4. DOMAIN hid' = Binding
  BY DEF BalanceInv, Balance
<1> QED
  BY <1>1, <1>2, <1>3, <1>4, Even

\* The call at the head is over, and what it was worth is booked.
LEMMA HeadGoes ==
  ASSUME Types, BalanceInv, agenda # <<>>, Head(agenda).do # "pressed", agenda' = Tail(agenda),
         UNCHANGED <<build, taps, held>>, DOMAIN hid' = Binding,
         \A b \in Binding : hid'[b] \in Int /\ Net(captured', b) \in Int /\ hid'[b] + Net(captured', b) = hid[b] + Net(captured, b) + Worth(Head(agenda), b)
  PROVE  BalanceInv'
<1>1. NoPressed(agenda') <=> NoPressed(agenda)
  <2>1. ToSet(agenda) = {Head(agenda)} \cup ToSet(Tail(agenda))
    BY FirstCall
  <2> QED
    BY <2>1 DEF NoPressed
<1>2. ASSUME NEW b \in Binding PROVE hid'[b] \in Int /\ Sum(hid', agenda', captured', b) = Sum(hid, agenda, captured, b)
  <2> DEFINE t == Tail(agenda)
  <2>1. hid[b] \in Int /\ Net(captured, b) \in Int /\ Net(agenda, b) = Worth(Head(agenda), b) + Net(t, b) /\ Net(t, b) \in Int
    BY SumIs
  <2>2. agenda' = t
    OBVIOUS
  <2> HIDE DEF t
  <2>3. Net(agenda', b) = Net(t, b)
    BY <2>2
  <2>4. Worth(Head(agenda), b) \in Int
    BY WorthIs
  <2> QED
    BY <2>1, <2>3, <2>4 DEF Sum
<1> QED
  BY <1>1, <1>2, Even

\* What is captured is booked.
LEMMA CaptureBooks ==
  ASSUME Types, NEW e, [e EXCEPT !.from = None] \in Kept, Capture(e), ~overflow', NEW b, Net(captured, b) \in Int
  PROVE  Net(captured', b) = Net(captured, b) + Worth([e EXCEPT !.from = None], b)
<1> DEFINE free == {j \in Place : captured[j] = Free}
           k == Min(free)
           v == [e EXCEPT !.from = None]
<1>1. free # {} /\ captured' = [captured EXCEPT ![k] = v]
  BY DEF Capture
<1>2. DOMAIN captured = Place /\ IsFiniteSet(DOMAIN captured)
  <2>1. DOMAIN captured = Place /\ Place = 1 .. MaxCaptured /\ MaxCaptured \in Int
    BY Basics
  <2>2. IsFiniteSet(1 .. MaxCaptured)
    BY <2>1, FS_Interval
  <2> QED
    BY <2>1, <2>2
<1>3. k \in Place /\ captured[k] = Free
  <2>1. free \in SUBSET Nat /\ \A j \in free : j \in Place /\ captured[j] = Free
    BY DEF Place
  <2> HIDE DEF free
  <2> QED
    BY <1>1, <2>1, MinIs
<1> HIDE DEF free, k, v
<1> DEFINE cap == captured
<1>31. IsFiniteSet(DOMAIN cap) /\ k \in DOMAIN cap /\ cap[k] = Free
  BY <1>2, <1>3
<1> HIDE DEF cap
<1>32. Net([cap EXCEPT ![k] = v], b) = Net(cap, b) - Worth(cap[k], b) + Worth(v, b)
  BY <1>31, NetPut
<1>4. Net([captured EXCEPT ![k] = v], b) = Net(captured, b) - Worth(captured[k], b) + Worth(v, b)
  BY <1>32 DEF cap
<1>5. Worth(Free, b) = 0 /\ Worth(v, b) \in Int
  BY NoWorth, WorthIs DEF Free
<1> QED
  BY <1>1, <1>3, <1>4, <1>5 DEF v

LEMMA DecisionIs ==
  ASSUME NEW h, NEW moment
  PROVE  Decision(h, moment) \in {"undecided", "tap", "holdInterrupt", "holdTimer"}
<1>1. Outcome(timing[h.pos].flavor, moment) \in {"undecided", "tap", "holdInterrupt", "holdTimer"}
  BY DEF Outcome
<1> QED
  BY <1>1 DEF Decision

\* A decision pays what the hold-tap comes to owe.
LEMMA DecideBalances ==
  ASSUME Types, BalanceInv, SlowInv, UNCHANGED <<build, held, hid>>,
         NEW tp, DOMAIN tp = Slot,
         \A j \in Slot : TapShape(tp[j]) /\ tp[j].pos = taps[j].pos /\ tp[j].status = taps[j].status,
         \A j, k \in Slot : taps[j].pos = taps[k].pos /\ taps[j].pos # NoKey => j = k,
         NEW i \in Slot, taps[i].pos \in HoldTaps,
         NEW moment, NEW rest \in Seq(Call(Slot)), Decide(tp, i, moment, rest),
         NoPressed(rest), NoPressed(agenda),
         \A b \in Binding : Net(captured', b) \in Int /\ Net(captured', b) + Net(rest, b) = Net(captured, b) + Net(agenda, b)
  PROVE  BalanceInv'
<1> DEFINE h == tp[i]
           d == Decision(h, moment)
           c == Config[h.pos]
           p == h.pos
<1>1. /\ p \in HoldTaps /\ p \in Position /\ p # NoKey /\ h.at \in Int
      /\ DOMAIN h = {"pos", "status", "at", "other", "timer"} /\ p = taps[i].pos
  <2>1. taps[i].pos \in Position /\ taps[i].pos # NoKey
    BY HoldTapsAre DEF Types
  <2> QED
    BY <2>1 DEF TapShape
<1>2. NoPressed(agenda')
  BY <1>1, DecideSeats
<1>3. DOMAIN hid' = Binding /\ \A b \in Binding : hid'[b] = hid[b] /\ hid[b] \in Int
  BY DEF BalanceInv, Balance
<1>4. CASE h.status # "undecided" \/ i # undecided \/ d = "undecided"
  <2>1. taps' = tp /\ agenda' = rest
    BY <1>4 DEF Decide
  <2>2. ASSUME NEW b \in Binding PROVE hid'[b] \in Int /\ Sum(hid', agenda', captured', b) = Sum(hid, agenda, captured, b)
    <3>1. Net(agenda', b) = Net(rest, b)
      BY <2>1
    <3>2. Net(captured', b) \in Int /\ Net(captured', b) + Net(rest, b) = Net(captured, b) + Net(agenda, b)
      OBVIOUS
    <3>3. Net(captured, b) \in Int /\ Net(agenda, b) \in Int
      BY SumIs
    <3>4. Net(rest, b) \in Int
      <4>1. rest \in Seq(Call(Slot)) /\ <<>> \in Seq(Call(Slot))
        OBVIOUS
      <4> DEFINE C == Call(Slot)
      <4>2. rest \in Seq(C)
        BY <4>1
      <4> HIDE DEF C
      <4> QED
        BY <4>2, NetJoin
    <3>5. hid'[b] = hid[b] /\ hid[b] \in Int
      BY <1>3
    <3> DEFINE x == hid[b]
               r == Net(rest, b)
               k == Net(captured', b)
               a == Net(agenda, b)
               q == Net(captured, b)
    <3>6. x + r + k = x + a + q
      <4>1. x \in Int /\ r \in Int /\ k \in Int /\ a \in Int /\ q \in Int /\ k + r = q + a
        BY <3>2, <3>3, <3>4, <3>5
      <4> HIDE DEF x, r, k, a, q
      <4> QED
        BY <4>1
    <3> QED
      BY <3>1, <3>5, <3>6 DEF Sum
  <2> QED
    BY <1>2, <1>3, <2>1, <2>2, Even
<1>5. CASE h.status = "undecided" /\ i = undecided /\ d # "undecided"
  <2> DEFINE cs == PressBinding(h, d)
             tap == IF d = "tap" THEN 1 ELSE 0
             hold == IF d = "tap" THEN IF c.early THEN -1 ELSE 0
                     ELSE IF c.early \/ (c.retro /\ d = "holdTimer") THEN 0 ELSE 1
  <2>1. taps' = [tp EXCEPT ![i].status = d] /\ agenda' = cs \o <<Release(1)>> \o rest
    BY <1>5 DEF Decide
  <2>2. d \in {"tap", "holdInterrupt", "holdTimer"}
    BY <1>5, DecisionIs
  <2>3. /\ cs \in Seq(Sent)
        /\ \A b : Net(cs, b) =
           IF c.retro /\ d = "holdTimer" THEN 0
           ELSE IF d \in {"holdTimer", "holdInterrupt"} THEN IF ~c.early /\ b = Hold(p) THEN 1 ELSE 0
           ELSE IF b = Tap(p) THEN 1
           ELSE IF c.early /\ ~c.linger /\ b = Hold(p) THEN -1 ELSE 0
    <3>1. h.pos \in Position \cup {NoKey} /\ h.at \in Int
      BY <1>1
    <3> HIDE DEF h, d
    <3>2. cs \in Seq(Sent)
      BY <3>1, PressAt
    <3> HIDE DEF cs
    <3>3. ASSUME NEW b
          PROVE  Net(PressBinding(h, d), b) =
                   IF c.retro /\ d = "holdTimer" THEN 0
                   ELSE IF d \in {"holdTimer", "holdInterrupt"} THEN IF ~c.early /\ b = Hold(h.pos) THEN 1 ELSE 0
                   ELSE IF b = Tap(h.pos) THEN 1
                   ELSE IF c.early /\ ~c.linger /\ b = Hold(h.pos) THEN -1 ELSE 0
      BY <3>1, PressWorth
    <3> QED
      BY <3>2, <3>3 DEF cs
  <2>4. c.early => ~c.linger
    BY <1>1 DEF SlowInv
  <2>5. /\ taps'[i].pos = p /\ taps'[i].status = d
        /\ \A j \in Slot : j # i => taps'[j].pos = taps[j].pos /\ taps'[j].status = taps[j].status
        /\ \A j \in Slot : taps'[j].pos = taps[j].pos
    <3>1. \A j \in Slot : j # i => taps'[j] = tp[j]
      BY <2>1
    <3>2. taps'[i] = [h EXCEPT !.status = d]
      BY <2>1
    <3> HIDE DEF d
    <3>3. taps'[i].pos = p /\ taps'[i].status = d
      BY <1>1, <3>2
    <3> QED
      BY <1>1, <3>1, <3>3
  <2> HIDE DEF d
  <2>6. Paid(p, tap, hold)
    <3> SUFFICES ASSUME NEW b \in Binding
                 PROVE  /\ hid'[b] \in Int
                        /\ Sum(hid', agenda', captured', b) = Sum(hid, agenda, captured, b)
                                 + (IF b = Tap(p) THEN tap ELSE IF b = Hold(p) THEN hold ELSE 0)
      BY DEF Paid
    <3>1. Hold(p) # Tap(p)
      BY DEF Hold, Tap
    <3>2. Net(cs, b) = IF b = Tap(p) THEN tap ELSE IF b = Hold(p) THEN hold ELSE 0
      BY <2>2, <2>3, <2>4, <3>1
    <3>3. Net(captured', b) \in Int /\ Net(captured', b) + Net(rest, b) = Net(captured, b) + Net(agenda, b)
      OBVIOUS
    <3>4. Net(captured, b) \in Int /\ Net(agenda, b) \in Int
      BY SumIs
    <3>5. hid'[b] = hid[b] /\ hid[b] \in Int
      BY <1>3
    <3>6. cs \in Seq(Sent)
      BY <2>3
    <3> HIDE DEF cs, tap, hold, p, c, h
    <3>7. Net(agenda', b) = Net(cs, b) + Net(rest, b) /\ Net(cs, b) \in Int /\ Net(rest, b) \in Int
      BY <2>1, <3>6, NetDecided
    <3> DEFINE x == hid[b]
               r == Net(rest, b)
               k == Net(captured', b)
               a == Net(agenda, b)
               q == Net(captured, b)
               g == Net(cs, b)
    <3>8. x + (g + r) + k = x + a + q + g
      <4>1. x \in Int /\ r \in Int /\ k \in Int /\ a \in Int /\ q \in Int /\ g \in Int /\ k + r = q + a
        BY <3>3, <3>4, <3>5, <3>7
      <4> HIDE DEF x, r, k, a, q, g
      <4> QED
        BY <4>1
    <3> QED
      BY <3>2, <3>5, <3>7, <3>8 DEF Sum
  <2>7. /\ Owes(taps', agenda', held, Tap(p)) = IF d = "tap" THEN 1 ELSE 0
        /\ Owes(taps', agenda', held, Hold(p)) = IF Holding(taps'[i], agenda') THEN 1 ELSE 0
    <3>1. Sole(taps', i, p)
      BY <1>1, <2>5 DEF Sole
    <3> HIDE DEF p
    <3>2. Owes(taps', agenda', held, Tap(p)) = IF taps'[i].status = "tap" THEN 1 ELSE 0
      BY <3>1, OwesAt
    <3> QED
      BY <2>5, <3>1, <3>2, OwesAt
  <2>8. /\ Owes(taps, agenda, held, Tap(p)) = 0
        /\ Owes(taps, agenda, held, Hold(p)) = IF Holding(taps[i], agenda) THEN 1 ELSE 0
    <3>1. Sole(taps, i, p) /\ taps[i].status = "undecided"
      BY <1>1, <1>5 DEF Sole
    <3> HIDE DEF p
    <3>2. Owes(taps, agenda, held, Tap(p)) = IF taps[i].status = "tap" THEN 1 ELSE 0
      BY <3>1, OwesAt
    <3> QED
      BY <3>1, <3>2, OwesAt
  <2>9. Holding(taps[i], agenda) <=> c.early
    BY <1>1, <1>5 DEF Holding
  <2>10. Holding(taps'[i], agenda') <=> (d = "holdInterrupt" \/ (d = "holdTimer" /\ (c.early \/ ~c.retro)))
    BY <2>2, <2>5 DEF Holding
  <2>11. Owes(taps', agenda', held, Tap(p)) = Owes(taps, agenda, held, Tap(p)) + tap
    BY <2>7, <2>8
  <2>12. Owes(taps', agenda', held, Hold(p)) = Owes(taps, agenda, held, Hold(p)) + hold
    BY <2>2, <2>7, <2>8, <2>9, <2>10
  <2>13. Statuses(taps')
    BY <2>2, <2>5 DEF Statuses, BalanceInv, Balance
  <2>14. Elsewhere(p)
    <3> SUFFICES ASSUME NEW j \in Slot, j # i PROVE AsBefore(taps[j], taps'[j], agenda, agenda')
      BY <1>1, <2>5 DEF Elsewhere
    <3> QED
      BY <1>2, <2>5, HoldingSame
  <2>15. Owing(p, tap, hold)
    BY <2>11, <2>12 DEF Owing
  <2>16. DOMAIN hid' = Binding /\ p \in HoldTaps /\ build \in Builds
    BY <1>1, <1>3 DEF Types
  <2> HIDE DEF tap, hold, p, h
  <2> QED
    BY <2>6, <2>13, <2>14, <2>15, <2>16, Rebalance
<1> QED
  BY <1>4, <1>5

\* What each step starts from.
Ledger == CallsInv /\ SettingsInv /\ LineInv /\ SeatedInv /\ TimeInv /\ SlowInv /\ BalanceInv

LEMMA LedgerHas ==
  ASSUME Ledger
  PROVE  /\ Types /\ SeatedInv /\ BalanceInv /\ SlowInv /\ build \in Builds
         /\ DOMAIN taps = Slot /\ \A j \in Slot : TapShape(taps[j])
         /\ \A j \in Slot : taps[j].pos \in HoldTaps \cup {NoKey}
         /\ \A j, k \in Slot : taps[j].pos = taps[k].pos /\ taps[j].pos # NoKey => j = k
         /\ DOMAIN hid = Binding
         /\ undecided # None => undecided \in Slot /\ taps[undecided].pos \in HoldTaps
<1>1. Types
  BY DEF Ledger, CallsInv, OwnedInv
<1>2. undecided # None => undecided \in Slot /\ taps[undecided].pos # NoKey
  BY <1>1 DEF Ledger, LineInv, Awaited, Types
<1>3. \A j \in Slot : taps[j].pos \in HoldTaps \cup {NoKey}
  BY DEF Ledger, LineInv, TapsIn
<1> QED
  BY <1>1, <1>2, <1>3 DEF Ledger, LineInv, TapsIn, Types, BalanceInv, Balance

\* An event the listener captures is booked there.
LEMMA CaptureOrBubbleBalances ==
  ASSUME Ledger, ~overflow', undecided # None, UNCHANGED <<build, held, hid>>,
         NEW tp, DOMAIN tp = Slot,
         \A j \in Slot : TapShape(tp[j]) /\ tp[j].pos = taps[j].pos /\ tp[j].status = taps[j].status,
         agenda # <<>>, NEW e, e = Head(agenda), e.do \in {"pos", "after"}, CaptureOrBubble(tp, e, Tail(agenda))
  PROVE  BalanceInv'
<1> DEFINE t == Tail(agenda)
<1>1. /\ Types /\ SeatedInv /\ BalanceInv /\ SlowInv /\ undecided \in Slot /\ taps[undecided].pos \in HoldTaps
      /\ \A j, k \in Slot : taps[j].pos = taps[k].pos /\ taps[j].pos # NoKey => j = k
  BY LedgerHas
<1>2. e \in KeyEvent({"pos", "after", "keymap"}) /\ t \in Seq(Call(Slot))
  BY <1>1, FirstCall, CallFields
<1>3. NoPressed(t) /\ NoPressed(agenda)
  BY <1>1, QuietHead
<1>4. CASE taps' = tp /\ agenda' = <<Bubble(e)>> \o t /\ UNCHANGED captured
  <2> DEFINE z == Bubble(e)
  <2>1. z \in Call(Slot) /\ z.do # "pressed" /\ \A b \in Binding : Worth(z, b) = Worth(e, b)
    BY <1>2, EventIs, Staged, StageWorth DEF Bubble
  <2>2. agenda' = <<z>> \o Tail(agenda)
    BY <1>4
  <2> HIDE DEF z
  <2>3. \A i \in Slot : taps'[i].pos = taps[i].pos /\ taps'[i].status = taps[i].status
    BY <1>4
  <2> QED
    BY <1>1, <1>4, <2>1, <2>2, <2>3, SwapHead
<1>5. CASE \E m : Capture([e EXCEPT !.do = "pos"]) /\ Decide(tp, undecided, m, t)
  <2> DEFINE y == [e EXCEPT !.do = "pos"]
  <2>1. PICK m : Capture(y) /\ Decide(tp, undecided, m, t)
    BY <1>5
  <2>2. [y EXCEPT !.from = None] \in Kept /\ \A b : Worth([y EXCEPT !.from = None], b) = Worth(e, b)
    BY <1>2, EventIs, StageWorth
  <2> HIDE DEF y
  <2>3. \A b \in Binding : Net(captured', b) \in Int /\ Net(captured', b) + Net(t, b) = Net(captured, b) + Net(agenda, b)
    <3> SUFFICES ASSUME NEW b \in Binding
                 PROVE  Net(captured', b) \in Int /\ Net(captured', b) + Net(t, b) = Net(captured, b) + Net(agenda, b)
      OBVIOUS
    <3>1. Net(captured, b) \in Int /\ Net(agenda, b) = Worth(Head(agenda), b) + Net(t, b) /\ Net(t, b) \in Int
      BY <1>1, SumIs
    <3>2. Net(captured', b) = Net(captured, b) + Worth([y EXCEPT !.from = None], b)
      BY <1>1, <2>1, <2>2, <3>1, CaptureBooks
    <3>3. Worth(e, b) \in Int /\ Worth([y EXCEPT !.from = None], b) = Worth(e, b)
      BY <2>2, WorthIs
    <3> HIDE DEF t
    <3> QED
      BY <3>1, <3>2, <3>3
  <2> HIDE DEF t
  <2> QED
    BY <1>1, <1>2, <1>3, <2>1, <2>3, DecideBalances
<1> QED
  BY <1>4, <1>5 DEF CaptureOrBubble

LEMMA BubblingBalances ==
  ASSUME Ledger, Bubbling
  PROVE  BalanceInv'
<1> DEFINE e == Head(agenda)
           z == Bubble(e)
<1>1. /\ agenda # <<>> /\ e.do = "pos" /\ agenda' = <<z>> \o Tail(agenda)
      /\ UNCHANGED <<build, taps, captured, held, hid>>
  BY DEF Bubbling, Doing, settings, engine, input
<1>2. Types /\ SeatedInv /\ BalanceInv
  BY LedgerHas
<1>3. e \in KeyEvent({"pos", "after", "keymap"})
  BY <1>1, <1>2, FirstCall, CallFields
<1>4. z \in Call(Slot) /\ z.do # "pressed" /\ \A b \in Binding : Worth(z, b) = Worth(e, b)
  BY <1>3, EventIs, Staged, StageWorth DEF Bubble
<1> HIDE DEF z
<1> QED
  BY <1>1, <1>2, <1>4, SwapHead

LEMMA PlainKeyBalances ==
  ASSUME Ledger, PlainKey
  PROVE  BalanceInv'
<1> DEFINE e == Head(agenda)
           c == [of |-> e.pos, as |-> "key"]
           z == Code(c, e.down, e.at)
<1>1. /\ agenda # <<>> /\ e.do = "keymap" /\ e.pos \notin HoldTaps /\ agenda' = <<z>> \o Tail(agenda)
      /\ UNCHANGED <<build, taps, captured, held, hid>>
  BY DEF PlainKey, Doing, settings, engine, input
<1>2. Types /\ SeatedInv /\ BalanceInv
  BY LedgerHas
<1>3. e \in KeyEvent({"pos", "after", "keymap"})
  BY <1>1, <1>2, FirstCall, CallFields
<1>4. z \in Sent
  BY <1>3 DEF Code, Sent, AnyBinding, KeyEvent, None
<1>5. z \in Call(Slot) /\ z.do = "code" /\ z.code = c /\ z.down = e.down
  <2>1. z.do = "code" /\ z.code = c /\ z.down = e.down
    BY DEF Code
  <2> HIDE DEF z
  <2> QED
    BY <1>4, <2>1 DEF Call
<1> HIDE DEF z
<1>6. ASSUME NEW b \in Binding PROVE Worth(z, b) = Worth(e, b)
  <2>1. Worth(z, b) = IF b = c THEN IF e.down THEN 1 ELSE -1 ELSE 0
    BY <1>5, CodeWorth
  <2>2. Means(e, b) <=> b = c
    BY <1>1 DEF Means, Event
  <2> QED
    BY <2>1, <2>2 DEF Worth
<1>7. e.do \notin {"code", "release", "pressed"} /\ z.do # "pressed"
  BY <1>1, <1>5
<1> QED
  BY <1>1, <1>2, <1>5, <1>6, <1>7, SwapHead

\* A press that is refused and a release of nothing are worth nothing.
LEMMA RefusedBalances ==
  ASSUME Ledger, PressRefused \/ ReleaseUnknown
  PROVE  BalanceInv'
<1> DEFINE e == Head(agenda)
<1>1. /\ agenda # <<>> /\ e.do = "keymap" /\ e.pos \in HoldTaps /\ agenda' = Tail(agenda)
      /\ UNCHANGED <<build, taps, captured, held, hid>>
  BY DEF PressRefused, ReleaseUnknown, Doing, settings, engine, input
<1>2. Types /\ BalanceInv /\ DOMAIN hid' = Binding
  BY <1>1, LedgerHas
<1>3. e \in KeyEvent({"pos", "after", "keymap"})
  BY <1>1, <1>2, FirstCall, CallFields
<1>4. ASSUME NEW b \in Binding
      PROVE  hid'[b] \in Int /\ Net(captured', b) \in Int /\ hid'[b] + Net(captured', b) = hid[b] + Net(captured, b) + Worth(e, b)
  <2>1. Worth(e, b) = 0
    BY <1>1, <1>3, StageWorth
  <2>2. hid[b] \in Int /\ Net(captured, b) \in Int /\ hid' = hid /\ captured' = captured
    BY <1>1, <1>2, SumIs
  <2> QED
    BY <2>1, <2>2
<1> QED
  BY <1>1, <1>2, <1>4, HeadGoes

\* A keycode reaches the host or is captured.
LEMMA KeycodeBalances ==
  ASSUME Ledger, Keycode, ~overflow'
  PROVE  BalanceInv'
<1> DEFINE e == Head(agenda)
<1>1. /\ agenda # <<>> /\ e.do = "code" /\ agenda' = Tail(agenda)
      /\ UNCHANGED <<build, taps, held>>
      /\ \/ Capture(e) /\ UNCHANGED hid
         \/ hid' = [hid EXCEPT ![e.code] = @ + (IF e.down THEN 1 ELSE -1)] /\ UNCHANGED captured
  BY DEF Keycode, Doing, settings, input
<1>2. Types /\ BalanceInv /\ DOMAIN hid = Binding
  BY LedgerHas
<1>3. e \in Sent
  BY <1>1, <1>2, FirstCall, CallFields
<1>4. DOMAIN hid' = Binding
  BY <1>1, <1>2
<1>5. ASSUME NEW b \in Binding
      PROVE  hid'[b] \in Int /\ Net(captured', b) \in Int /\ hid'[b] + Net(captured', b) = hid[b] + Net(captured, b) + Worth(e, b)
  <2>1. Worth(e, b) = IF b = e.code THEN IF e.down THEN 1 ELSE -1 ELSE 0
    BY <1>1, CodeWorth
  <2>2. hid[b] \in Int /\ Net(captured, b) \in Int
    BY <1>2, SumIs
  <2>3. CASE Capture(e) /\ UNCHANGED hid
    <3>1. [e EXCEPT !.from = None] \in Kept /\ Worth([e EXCEPT !.from = None], b) = Worth(e, b)
      <4> DEFINE y == [e EXCEPT !.from = None]
      <4>1. y \in Sent /\ y.do = "code" /\ y.code = e.code /\ y.down = e.down
        BY <1>3 DEF Sent, None
      <4> HIDE DEF y
      <4>2. y \in Kept
        BY <4>1 DEF Kept
      <4>3. Worth(y, b) = IF b = y.code THEN IF y.down THEN 1 ELSE -1 ELSE 0
        BY <4>1, CodeWorth
      <4>4. Worth(y, b) = Worth(e, b)
        BY <2>1, <4>1, <4>3
      <4> QED
        BY <4>2, <4>4 DEF y
    <3>2. Net(captured', b) = Net(captured, b) + Worth([e EXCEPT !.from = None], b)
      BY <1>2, <2>2, <2>3, <3>1, CaptureBooks
    <3>3. Worth(e, b) \in Int
      BY WorthIs
    <3>4. hid'[b] = hid[b]
      BY <2>3
    <3> QED
      BY <2>2, <3>1, <3>2, <3>3, <3>4
  <2>4. CASE hid' = [hid EXCEPT ![e.code] = @ + (IF e.down THEN 1 ELSE -1)] /\ UNCHANGED captured
    <3>1. hid'[b] = IF b = e.code THEN hid[b] + (IF e.down THEN 1 ELSE -1) ELSE hid[b]
      BY <1>2, <2>4
    <3>2. Net(captured', b) = Net(captured, b)
      BY <2>4
    <3> QED
      BY <2>1, <2>2, <3>1, <3>2
  <2> QED
    BY <1>1, <2>3, <2>4
<1>6. e.do # "pressed"
  BY <1>1
<1> QED
  BY <1>1, <1>2, <1>4, <1>5, <1>6, HeadGoes

\* The calls behind a decision are worth what the head was.
LEMMA RestWorth ==
  ASSUME Types, SeatedInv, BalanceInv, agenda # <<>>, Head(agenda).do \notin {"code", "release", "pressed"},
         NEW z \in Call(Slot), z.do # "pressed", NEW rest, rest = <<z>> \o Tail(agenda),
         \A b \in Binding : Worth(z, b) = Worth(Head(agenda), b), captured' = captured
  PROVE  /\ rest \in Seq(Call(Slot)) /\ NoPressed(rest) /\ NoPressed(agenda)
         /\ \A b \in Binding : Net(captured', b) \in Int /\ Net(captured', b) + Net(rest, b) = Net(captured, b) + Net(agenda, b)
<1> DEFINE t == Tail(agenda)
           C == Call(Slot)
<1>1. t \in Seq(C) /\ NoPressed(t) /\ NoPressed(agenda) /\ z \in C
  BY QuietHead, FirstCall
<1>2. NoPressed(<<z>> \o t) /\ <<z>> \o t \in Seq(Call(Slot))
  BY <1>1, CallSeats
<1>3. rest = <<z>> \o t
  OBVIOUS
<1> HIDE DEF C, t
<1>4. ASSUME NEW b \in Binding
      PROVE  Net(captured', b) \in Int /\ Net(captured', b) + Net(rest, b) = Net(captured, b) + Net(agenda, b)
  <2>1. Net(<<z>> \o t, b) = Worth(z, b) + Net(t, b)
    BY <1>1, NetCons
  <2>2. Net(captured, b) \in Int /\ Net(agenda, b) = Worth(Head(agenda), b) + Net(t, b)
    BY SumIs DEF t
  <2>3. Net(rest, b) = Net(agenda, b) /\ Net(captured', b) = Net(captured, b)
    BY <1>3, <2>1, <2>2
  <2> QED
    BY <2>2, <2>3
<1> QED
  BY <1>1, <1>2, <1>3, <1>4

LEMMA PairIs ==
  ASSUME NEW S, NEW x \in S, NEW y \in S
  PROVE  <<x, y>> = <<x>> \o <<y>>
<1> DEFINE a == <<x>> \o <<y>>
           b == <<x, y>>
<1>1. <<x>> \in Seq(S) /\ <<y>> \in Seq(S) /\ b \in Seq(S)
  OBVIOUS
<1>2. a \in Seq(S)
  BY <1>1
<1>3. Len(a) = 2 /\ Len(b) = 2
  OBVIOUS
<1>4. a[1] = x /\ a[2] = y
  OBVIOUS
<1>5. b[1] = x /\ b[2] = y
  OBVIOUS
<1> HIDE DEF a, b
<1>6. \A i \in 1 .. 2 : a[i] = b[i]
  <2>1. \A i \in 1 .. 2 : i = 1 \/ i = 2
    OBVIOUS
  <2> QED
    BY <1>4, <1>5, <2>1
<1>7. a = b
  BY <1>1, <1>2, <1>3, <1>6, SeqEqual
<1> QED
  BY <1>7 DEF a, b

LEMMA WhileUndecidedBalances ==
  ASSUME Ledger, WhileUndecided, ~overflow'
  PROVE  BalanceInv'
<1> DEFINE e == Head(agenda)
           u == taps[undecided]
           c == Config[u.pos]
           tp == IF c.onRelease # e.down /\ u.other = NoKey
                 THEN [taps EXCEPT ![undecided].other = e.pos] ELSE taps
           t == Tail(agenda)
           z == [e EXCEPT !.do = "after"]
           y == Bubble(e)
<1>1. /\ agenda # <<>> /\ e.do = "pos" /\ undecided # None
      /\ UNCHANGED <<build, held, hid>>
      /\ \/ taps' = tp /\ agenda' = <<y>> \o t /\ UNCHANGED captured
         \/ Decide(tp, undecided, "timer", <<z>> \o t) /\ UNCHANGED captured
         \/ CaptureOrBubble(tp, e, t)
  BY DEF WhileUndecided, Doing, settings, input
<1>2. /\ Types /\ SeatedInv /\ BalanceInv /\ SlowInv /\ undecided \in Slot /\ taps[undecided].pos \in HoldTaps
      /\ \A j, k \in Slot : taps[j].pos = taps[k].pos /\ taps[j].pos # NoKey => j = k
      /\ DOMAIN taps = Slot /\ \A j \in Slot : TapShape(taps[j])
  BY <1>1, LedgerHas
<1>3. e \in KeyEvent({"pos", "after", "keymap"}) /\ t \in Seq(Call(Slot))
  BY <1>1, <1>2, FirstCall, CallFields
<1>4. DOMAIN tp = Slot /\ \A j \in Slot : TapShape(tp[j]) /\ tp[j].pos = taps[j].pos /\ tp[j].status = taps[j].status
  <2>1. CASE tp = taps
    BY <1>2, <2>1
  <2>2. CASE tp = [taps EXCEPT ![undecided].other = e.pos]
    BY <1>2, <2>2 DEF TapShape
  <2> QED
    BY <2>1, <2>2
<1>5. /\ z \in Call(Slot) /\ z.do # "pressed" /\ \A b \in Binding : Worth(z, b) = Worth(e, b)
      /\ y \in Call(Slot) /\ y.do # "pressed" /\ \A b \in Binding : Worth(y, b) = Worth(e, b)
  BY <1>3, EventIs, Staged, StageWorth DEF Bubble
<1>6. e.do \notin {"code", "release", "pressed"} /\ e.do \in {"pos", "after"}
  BY <1>1
<1> HIDE DEF tp, z, y
<1>7. CASE taps' = tp /\ agenda' = <<y>> \o t /\ UNCHANGED captured
  <2>1. \A i \in Slot : taps'[i].pos = taps[i].pos /\ taps'[i].status = taps[i].status
    BY <1>4, <1>7
  <2> QED
    BY <1>1, <1>2, <1>5, <1>6, <1>7, <2>1, SwapHead
<1>8. CASE Decide(tp, undecided, "timer", <<z>> \o t) /\ UNCHANGED captured
  <2> DEFINE rest == <<z>> \o t
  <2>1. /\ rest \in Seq(Call(Slot)) /\ NoPressed(rest) /\ NoPressed(agenda)
        /\ \A b \in Binding : Net(captured', b) \in Int /\ Net(captured', b) + Net(rest, b) = Net(captured, b) + Net(agenda, b)
    BY <1>1, <1>2, <1>5, <1>6, <1>8, RestWorth
  <2>2. Decide(tp, undecided, "timer", rest)
    BY <1>8
  <2> HIDE DEF rest
  <2> QED
    BY <1>1, <1>2, <1>4, <2>1, <2>2, DecideBalances
<1>9. CASE CaptureOrBubble(tp, e, t)
  BY <1>1, <1>4, <1>6, <1>9, CaptureOrBubbleBalances
<1> QED
  BY <1>1, <1>7, <1>8, <1>9

LEMMA AfterTimerBalances ==
  ASSUME Ledger, AfterTimer, ~overflow'
  PROVE  BalanceInv'
<1> DEFINE e == Head(agenda)
           z == Bubble(e)
<1>1. /\ agenda # <<>> /\ e.do = "after"
      /\ UNCHANGED <<build, held, hid>>
      /\ \/ undecided = None /\ agenda' = <<z>> \o Tail(agenda) /\ UNCHANGED <<taps, captured>>
         \/ undecided # None /\ CaptureOrBubble(taps, e, Tail(agenda))
  BY DEF AfterTimer, Doing, settings, engine, input
<1>2. /\ Types /\ SeatedInv /\ BalanceInv
      /\ DOMAIN taps = Slot /\ \A j \in Slot : TapShape(taps[j])
  BY LedgerHas
<1>3. e \in KeyEvent({"pos", "after", "keymap"})
  BY <1>1, <1>2, FirstCall, CallFields
<1>4. z \in Call(Slot) /\ z.do # "pressed" /\ \A b \in Binding : Worth(z, b) = Worth(e, b)
  BY <1>3, EventIs, Staged, StageWorth DEF Bubble
<1>5. e.do \notin {"code", "release", "pressed"} /\ e.do \in {"pos", "after"}
  BY <1>1
<1> HIDE DEF z
<1>6. CASE undecided = None /\ agenda' = <<z>> \o Tail(agenda) /\ UNCHANGED <<taps, captured>>
  BY <1>1, <1>2, <1>4, <1>5, <1>6, SwapHead
<1>7. CASE undecided # None /\ CaptureOrBubble(taps, e, Tail(agenda))
  BY <1>1, <1>2, <1>5, <1>7, CaptureOrBubbleBalances
<1> QED
  BY <1>1, <1>6, <1>7

\* What leaves its place is under way again.
LEMMA ReleaseCapturedBalances ==
  ASSUME Ledger, ReleaseCaptured
  PROVE  BalanceInv'
<1> DEFINE e == Head(agenda)
           t == Tail(agenda)
<1>1. agenda # <<>> /\ e.do = "release" /\ UNCHANGED <<build, taps, held, hid>>
  BY DEF ReleaseCaptured, Doing, settings
<1>2. Types /\ BalanceInv /\ DOMAIN hid' = Binding /\ t \in Seq(Call(Slot))
  BY <1>1, LedgerHas, FirstCall
<1>3. \A b : Worth(e, b) = 0
  BY <1>1, NoWorth
<1>4. CASE agenda' = t /\ UNCHANGED captured
  <2>1. ASSUME NEW b \in Binding
        PROVE  hid'[b] \in Int /\ Net(captured', b) \in Int /\ hid'[b] + Net(captured', b) = hid[b] + Net(captured, b) + Worth(e, b)
    <3>1. hid[b] \in Int /\ Net(captured, b) \in Int /\ hid' = hid /\ captured' = captured
      BY <1>1, <1>2, <1>4, SumIs
    <3> QED
      BY <1>3, <3>1
  <2> QED
    BY <1>1, <1>2, <1>4, <2>1, HeadGoes
<1>5. ASSUME NEW j \in Place, Raises(j) PROVE BalanceInv'
  <2> DEFINE x == captured[j]
             z == [x EXCEPT !.from = j]
             r == Release(j + 1)
             C == Call(Slot)
  <2>1. x # Free /\ captured' = [captured EXCEPT ![j] = Free] /\ agenda' = <<z, r>> \o t
    BY <1>5 DEF Raises
  <2>2. x \in Kept /\ DOMAIN captured = Place /\ IsFiniteSet(DOMAIN captured) /\ j \in Nat \ {0}
    <3>1. DOMAIN captured = Place /\ Place = 1 .. MaxCaptured /\ MaxCaptured \in Int /\ x \in Kept
      BY <1>2, Basics
    <3>2. IsFiniteSet(1 .. MaxCaptured)
      BY <3>1, FS_Interval
    <3> QED
      BY <3>1, <3>2
  <2>3. z \in C /\ z.do # "pressed"
    <3>1. x \in Sent \cup KeyEvent({"pos"})
      BY <2>1, <2>2 DEF Kept
    <3>2. z \in Sent \cup KeyEvent({"pos"})
      BY <2>2, <3>1 DEF Sent, KeyEvent
    <3> QED
      BY <3>2 DEF Call, Sent, KeyEvent
  <2>4. r \in C /\ r.do = "release"
    BY <2>2 DEF Call, Release
  <2>5. \A b : Worth(z, b) = Worth(x, b) /\ Worth(r, b) = 0
    <3>1. x \in Kept \ {Free}
      BY <2>1, <2>2
    <3>2. r.do = "release"
      BY <2>4
    <3> HIDE DEF x, r
    <3>3. \A b : Worth(z, b) = Worth(x, b)
      BY <3>1, FromWorth
    <3>4. \A b : Worth(r, b) = 0
      BY <3>2, NoWorth
    <3> QED
      BY <3>3, <3>4
  <2>6. t \in Seq(C)
    BY <1>2
  <2> HIDE DEF x, z, r, C, t
  <2> DEFINE s == <<r>> \o t
  <2>7. agenda' = <<z>> \o s /\ s \in Seq(C) /\ ToSet(agenda') = {z, r} \cup ToSet(t)
    <3>1. <<z, r>> \o t = <<z>> \o s
      <4>1. <<z, r>> = <<z>> \o <<r>> /\ <<z>> \in Seq(C) /\ <<r>> \in Seq(C)
        <5>1. <<z, r>> = <<z>> \o <<r>>
          BY <2>3, <2>4, PairIs
        <5>2. <<z>> \in Seq(C) /\ <<r>> \in Seq(C)
          BY <2>3, <2>4
        <5> QED
          BY <5>1, <5>2
      <4> QED
        BY <2>6, <4>1
    <3>2. s \in Seq(C)
      BY <2>4, <2>6
    <3>3. ToSet(s) = {r} \cup ToSet(t)
      BY <2>4, <2>6, SetCons
    <3> HIDE DEF s
    <3>4. ToSet(<<z>> \o s) = {z} \cup ToSet(s)
      BY <2>3, <3>2, SetCons
    <3> QED
      BY <2>1, <3>1, <3>2, <3>3, <3>4
  <2>8. NoPressed(agenda') <=> NoPressed(agenda)
    <3>1. ToSet(agenda) = {e} \cup ToSet(t)
      BY <1>1, <1>2, FirstCall DEF t
    <3> QED
      BY <1>1, <2>3, <2>4, <2>7, <3>1 DEF NoPressed
  <2>9. ASSUME NEW b \in Binding PROVE hid'[b] \in Int /\ Sum(hid', agenda', captured', b) = Sum(hid, agenda, captured, b)
    <3>1. hid[b] \in Int /\ Net(captured, b) \in Int /\ Net(agenda, b) = Worth(e, b) + Net(t, b) /\ Net(t, b) \in Int
      BY <1>1, <1>2, SumIs DEF t
    <3>2. Net(s, b) = Worth(r, b) + Net(t, b)
      BY <2>4, <2>6, NetCons
    <3> HIDE DEF s
    <3>3. Net(<<z>> \o s, b) = Worth(z, b) + Net(s, b)
      BY <2>3, <2>7, NetCons
    <3> DEFINE cap == captured
    <3>4. j \in DOMAIN cap /\ IsFiniteSet(DOMAIN cap)
      BY <2>2
    <3> HIDE DEF cap
    <3>5. Net([cap EXCEPT ![j] = Free], b) = Net(cap, b) - Worth(cap[j], b) + Worth(Free, b)
      BY <3>4, NetPut
    <3>6. Worth(Free, b) = 0 /\ Worth(x, b) \in Int
      BY NoWorth, WorthIs DEF Free
    <3>7. Net(captured', b) = Net(captured, b) - Worth(x, b)
      BY <2>1, <3>1, <3>5, <3>6 DEF cap, x
    <3>8. Net(agenda', b) = Worth(x, b) + Net(t, b) /\ Net(agenda, b) = Net(t, b)
      BY <1>3, <2>5, <2>7, <3>1, <3>2, <3>3
    <3>9. hid' = hid
      BY <1>1
    <3> DEFINE w == Worth(x, b)
               a == Net(t, b)
               q == Net(captured, b)
               v == hid[b]
    <3>10. v + (w + a) + (q - w) = v + a + q
      <4>1. v \in Int /\ w \in Int /\ a \in Int /\ q \in Int
        BY <3>1, <3>6
      <4> HIDE DEF v, w, a, q
      <4> QED
        BY <4>1
    <3> QED
      BY <3>1, <3>7, <3>8, <3>9, <3>10 DEF Sum
  <2>10. \A i \in Slot : taps'[i].pos = taps[i].pos /\ taps'[i].status = taps[i].status
    BY <1>1
  <2> QED
    BY <1>1, <1>2, <2>8, <2>9, <2>10, Even
<1> QED
  BY <1>2, <1>4, <1>5, ReleaseCapturedTakes

LEMMA BindingReleasedBalances ==
  ASSUME Ledger, BindingReleased
  PROVE  BalanceInv'
<1> DEFINE e == Head(agenda)
<1>1. Types /\ SeatedInv /\ BalanceInv /\ SlowInv /\ DOMAIN taps = Slot /\ \A j \in Slot : TapShape(taps[j])
  BY LedgerHas
<1>2. /\ agenda # <<>> /\ e.do = "keymap" /\ e.pos \in HoldTaps
      /\ UNCHANGED <<build, captured, held, hid>>
  <2>1. UNCHANGED <<held, hid>>
    BY DEF BindingReleased, input
  <2> QED
    BY <1>1, <2>1, BindingReleasedFinds
<1>3. PICK i \in Slot :
         LET tp == [taps EXCEPT ![i].timer = Off]
             rest == <<Up(e, i)>> \o Tail(agenda)
         IN  /\ taps[i].pos = e.pos
             /\ rest \in Seq(Call(Slot)) /\ ToSet(rest) = {Up(e, i)} \cup ToSet(Tail(agenda)) /\ Ending(rest) = i
             /\ IF e.at > taps[i].at + timing[e.pos].term
                  THEN Decide(tp, i, "timer", rest)
                  ELSE taps' = tp /\ agenda' = rest /\ UNCHANGED <<undecided, lastTapped>>
  BY <1>1, BindingReleasedFinds
<1> DEFINE z == Up(e, i)
           tp == [taps EXCEPT ![i].timer = Off]
           rest == <<z>> \o Tail(agenda)
<1>4. e \in KeyEvent({"pos", "after", "keymap"})
  BY <1>1, <1>2, FirstCall, CallFields
<1>5. z \in Call(Slot) /\ z.do = "keyUp"
  BY <1>4 DEF Up, Call, KeyEvent
<1>6. \A b \in Binding : Worth(z, b) = Worth(e, b)
  <2>1. \A b : Worth(z, b) = 0
    BY <1>5, NoWorth
  <2>2. \A b \in Binding : Worth(e, b) = 0
    BY <1>2, <1>4, StageWorth
  <2> QED
    BY <2>1, <2>2
<1>7. taps[i].pos = e.pos /\ (Decide(tp, i, "timer", rest) \/ (taps' = tp /\ agenda' = rest))
  BY <1>3
<1>8. DOMAIN tp = Slot /\ \A j \in Slot : TapShape(tp[j]) /\ tp[j].pos = taps[j].pos /\ tp[j].status = taps[j].status
  BY <1>1 DEF TapShape
<1>9. \A j, k \in Slot : taps[j].pos = taps[k].pos /\ taps[j].pos # NoKey => j = k
  BY LedgerHas
<1>10. e.do \notin {"code", "release", "pressed"} /\ z.do # "pressed"
  BY <1>2, <1>5
<1> HIDE DEF tp, z
<1>11. CASE taps' = tp /\ agenda' = rest
  <2>1. \A j \in Slot : taps'[j].pos = taps[j].pos /\ taps'[j].status = taps[j].status
    BY <1>8, <1>11
  <2> QED
    BY <1>1, <1>2, <1>5, <1>6, <1>10, <1>11, <2>1, SwapHead
<1>12. CASE Decide(tp, i, "timer", rest)
  <2>1. /\ rest \in Seq(Call(Slot)) /\ NoPressed(rest) /\ NoPressed(agenda)
        /\ \A b \in Binding : Net(captured', b) \in Int /\ Net(captured', b) + Net(rest, b) = Net(captured, b) + Net(agenda, b)
    BY <1>1, <1>2, <1>5, <1>6, <1>10, RestWorth
  <2>2. taps[i].pos \in HoldTaps
    BY <1>2, <1>7
  <2> HIDE DEF rest
  <2> QED
    BY <1>1, <1>2, <1>8, <1>9, <1>12, <2>1, <2>2, DecideBalances
<1> QED
  BY <1>7, <1>11, <1>12

LEMMA EndsActive ==
  ASSUME Ledger, agenda # <<>>, Closes(Head(agenda)), Head(agenda).i \in Slot
  PROVE  taps[Head(agenda).i].pos \in HoldTaps
<1>1. 1 \in DOMAIN agenda /\ agenda[1] = Head(agenda)
  <2>1. agenda \in Seq(Call(Slot))
    BY LedgerHas DEF Types
  <2> QED
    BY <2>1, Behind
<1>2. taps[Head(agenda).i].pos # NoKey
  BY <1>1 DEF Ledger, LineInv, TapsIn, Ends
<1> QED
  BY <1>2, LedgerHas

LEMMA KeyUpDecisionBalances ==
  ASSUME Ledger, KeyUpDecision
  PROVE  BalanceInv'
<1> DEFINE e == Head(agenda)
           z == [e EXCEPT !.do = "released"]
           rest == <<z>> \o Tail(agenda)
           i == e.i
<1>1. Types /\ SeatedInv /\ BalanceInv /\ SlowInv /\ DOMAIN taps = Slot /\ \A j \in Slot : TapShape(taps[j])
  BY LedgerHas
<1>2. /\ agenda # <<>> /\ e.do = "keyUp" /\ i \in Slot /\ Decide(taps, i, "keyUp", rest)
      /\ UNCHANGED <<build, captured, held, hid>>
  BY <1>1, KeyUpMakes DEF KeyUpDecision, input
<1>3. z \in Call(Slot) /\ z.do = "released"
  <2>1. e \in [do : {"keyUp", "released"}, i : Slot, at : Int, from : Nat]
    BY <1>1, <1>2, FirstCall DEF Call, Sent, KeyEvent
  <2> QED
    BY <2>1 DEF Call
<1>4. taps[i].pos \in HoldTaps
  BY <1>2, EndsActive DEF Closes
<1>5. \A b \in Binding : Worth(z, b) = Worth(e, b)
  <2>1. z.do = "released" /\ e.do = "keyUp"
    BY <1>2, <1>3
  <2> HIDE DEF z, e
  <2>2. \A b : Worth(z, b) = 0
    BY <2>1, NoWorth
  <2>3. \A b : Worth(e, b) = 0
    BY <2>1, NoWorth
  <2> QED
    BY <2>2, <2>3
<1>6. e.do \notin {"code", "release", "pressed"} /\ z.do # "pressed"
  BY <1>2, <1>3
<1>7. \A j, k \in Slot : taps[j].pos = taps[k].pos /\ taps[j].pos # NoKey => j = k
  BY LedgerHas
<1> HIDE DEF z
<1>8. /\ rest \in Seq(Call(Slot)) /\ NoPressed(rest) /\ NoPressed(agenda)
      /\ \A b \in Binding : Net(captured', b) \in Int /\ Net(captured', b) + Net(rest, b) = Net(captured, b) + Net(agenda, b)
  BY <1>1, <1>2, <1>3, <1>5, <1>6, RestWorth
<1> HIDE DEF rest, i
<1> QED
  BY <1>1, <1>2, <1>4, <1>7, <1>8, DecideBalances

LEMMA TimerHandlerBalances ==
  ASSUME Ledger, NEW i \in Slot, TimerHandler(i)
  PROVE  BalanceInv'
<1> DEFINE tp == [taps EXCEPT ![i].timer = Off]
           rest == <<>>
<1>1. /\ Types /\ SeatedInv /\ BalanceInv /\ SlowInv /\ DOMAIN taps = Slot /\ \A j \in Slot : TapShape(taps[j])
      /\ \A j, k \in Slot : taps[j].pos = taps[k].pos /\ taps[j].pos # NoKey => j = k
  BY LedgerHas
<1>2. /\ agenda = <<>> /\ taps[i].timer # Off /\ Decide(tp, i, "timer", rest)
      /\ UNCHANGED <<build, captured, held, hid>>
  BY DEF TimerHandler, Idle, settings, input
<1>3. taps[i].pos \in HoldTaps
  <2>1. taps[i].pos = NoKey => taps[i] = Unused
    BY DEF Ledger, TimeInv, Timed, SlotsOK, SlotOK
  <2>2. taps[i].pos # NoKey
    BY <1>2, <2>1 DEF Unused
  <2> QED
    BY <2>2, LedgerHas
<1>4. DOMAIN tp = Slot /\ \A j \in Slot : TapShape(tp[j]) /\ tp[j].pos = taps[j].pos /\ tp[j].status = taps[j].status
  BY <1>1 DEF TapShape
<1>5. rest \in Seq(Call(Slot)) /\ NoPressed(rest) /\ NoPressed(agenda)
  BY <1>2 DEF NoPressed, ToSet
<1>6. ASSUME NEW b \in Binding
      PROVE  Net(captured', b) \in Int /\ Net(captured', b) + Net(rest, b) = Net(captured, b) + Net(agenda, b)
  <2>1. Net(captured, b) \in Int
    BY <1>1, SumIs
  <2> QED
    BY <1>2, <2>1, NetNone
<1> HIDE DEF tp, rest
<1> QED
  BY <1>1, <1>2, <1>3, <1>4, <1>5, <1>6, DecideBalances

\* A press or a release is worth what it changes of the keys held.
LEMMA KeyBalances ==
  ASSUME Ledger, NEW p \in Position, KeyDown(p) \/ KeyUp(p)
  PROVE  BalanceInv'
<1> DEFINE down == KeyDown(p)
<1>1. PICK x : /\ agenda = <<>> /\ agenda' = <<x>> /\ x.do = "pos" /\ x.pos = p
               /\ UNCHANGED <<build, taps, captured, hid>>
               /\ \/ x.down = TRUE /\ p \notin held /\ held' = held \cup {p}
                  \/ x.down = FALSE /\ p \in held /\ held' = held \ {p}
  <2>1. CASE KeyDown(p)
    <3> DEFINE y == Key(p, TRUE, now, serial')
    <3>1. /\ agenda = <<>> /\ agenda' = <<y>> /\ p \notin held /\ held' = held \cup {p}
          /\ UNCHANGED <<build, taps, captured, hid>>
      BY <2>1 DEF KeyDown, Idle, settings, engine
    <3>2. y.do = "pos" /\ y.pos = p /\ y.down = TRUE
      BY DEF Key
    <3> HIDE DEF y
    <3> QED
      BY <3>1, <3>2
  <2>2. CASE KeyUp(p)
    <3> DEFINE y == Key(p, FALSE, now, serial)
    <3>1. /\ agenda = <<>> /\ agenda' = <<y>> /\ p \in held /\ held' = held \ {p}
          /\ UNCHANGED <<build, taps, captured, hid>>
      BY <2>2 DEF KeyUp, Idle, settings, engine
    <3>2. y.do = "pos" /\ y.pos = p /\ y.down = FALSE
      BY DEF Key
    <3> HIDE DEF y
    <3> QED
      BY <3>1, <3>2
  <2> QED
    BY <2>1, <2>2
<1>2. Types /\ BalanceInv /\ DOMAIN hid = Binding /\ Statuses(taps)
  BY LedgerHas DEF BalanceInv, Balance
<1>3. NoPressed(agenda) /\ NoPressed(agenda')
  BY <1>1 DEF NoPressed, ToSet
<1>4. ASSUME NEW b \in Binding
      PROVE  hid'[b] \in Int /\ hid'[b] + Net(agenda', b) + Net(captured', b) = Owes(taps', agenda', held', b)
  <2>1. Net(agenda', b) = Worth(x, b) /\ Net(agenda, b) = 0
    BY <1>1, NetOne, NetNone
  <2>2. hid[b] \in Int /\ Net(captured, b) \in Int /\ hid[b] + Net(agenda, b) + Net(captured, b) = Owes(taps, agenda, held, b)
    BY <1>2, SumIs DEF BalanceInv, Balance
  <2>3. Worth(x, b) = IF b = [of |-> p, as |-> "key"] THEN IF x.down THEN 1 ELSE -1 ELSE 0
    BY <1>1 DEF Worth, Means, Event
  <2>4. (OnTap(taps', b.of) <=> OnTap(taps, b.of)) /\ (OnHold(taps', agenda', b.of) <=> OnHold(taps, agenda, b.of))
    BY <1>1, <1>3 DEF OnTap, OnHold, Holding
  <2>5. hid'[b] = hid[b] /\ Net(captured', b) = Net(captured, b)
    BY <1>1
  <2>6. Owes(taps', agenda', held', b) = Owes(taps, agenda, held, b) + Worth(x, b)
    <3>1. CASE b.as # "key"
      <4>1. b # [of |-> p, as |-> "key"]
        BY <3>1
      <4>2. Owes(taps', agenda', held', b) = Owes(taps, agenda, held, b)
        BY <2>4, <3>1 DEF Owes
      <4> QED
        BY <2>3, <4>1, <4>2, OwesNumber
    <3>2. CASE b.as = "key"
      <4>1. b = [of |-> p, as |-> "key"] <=> b.of = p
        BY <3>2, BindingIs
      <4>2. /\ Owes(taps', agenda', held', b) = IF b.of \in held' THEN 1 ELSE 0
            /\ Owes(taps, agenda, held, b) = IF b.of \in held THEN 1 ELSE 0
        BY <3>2 DEF Owes
      <4> QED
        BY <1>1, <2>3, <4>1, <4>2
    <3> QED
      BY <3>1, <3>2
  <2>7. Worth(x, b) \in Int /\ Owes(taps, agenda, held, b) \in Int
    BY WorthIs, OwesNumber
  <2> DEFINE w == Worth(x, b)
             q == Net(captured, b)
             v == hid[b]
             o == Owes(taps, agenda, held, b)
  <2>8. v + w + q = o + w
    <3>1. v \in Int /\ w \in Int /\ q \in Int /\ o \in Int /\ v + 0 + q = o
      BY <2>1, <2>2, <2>7
    <3> HIDE DEF v, w, q, o
    <3> QED
      BY <3>1
  <2> QED
    BY <2>1, <2>2, <2>5, <2>6, <2>8
<1>5. Balance(taps', agenda', captured', hid', held')
  BY <1>1, <1>2, <1>4 DEF Balance, Statuses
<1> QED
  BY <1>1, <1>5, BalanceNext

LEMMA QuietBalances ==
  ASSUME Ledger, UNCHANGED <<build, taps, agenda, captured, held, hid>>
  PROVE  BalanceInv'
<1>1. Balance(taps', agenda', captured', hid', held')
  <2>1. Balance(taps, agenda, captured, hid, held)
    BY DEF Ledger, BalanceInv
  <2> QED
    BY <2>1
<1> QED
  BY <1>1, BalanceNext

\* Only hold-tap i, on key p, changes, while no press is under way.
LEMMA OthersSame ==
  ASSUME NEW i \in Slot, NEW p, taps[i].pos \in {p, NoKey}, taps'[i].pos \in {p, NoKey},
         \A j \in Slot : j # i => taps'[j].pos = taps[j].pos /\ taps'[j].status = taps[j].status,
         (NoPressed(agenda) <=> NoPressed(agenda')) \/ \A j \in Slot : j # i /\ taps[j].pos # NoKey => taps[j].status # "undecided"
  PROVE  Elsewhere(p)
<1> SUFFICES ASSUME NEW j \in Slot, j # i PROVE AsBefore(taps[j], taps'[j], agenda, agenda')
  BY DEF Elsewhere
<1>1. CASE taps[j].pos = NoKey
  BY <1>1 DEF AsBefore
<1>2. CASE taps[j].pos # NoKey
  BY <1>2, HoldingSame
<1> QED
  BY <1>1, <1>2

\* The only hold-tap on its key.
LEMMA SoleIs ==
  ASSUME Ledger, NEW i \in Slot, taps[i].pos # NoKey
  PROVE  Sole(taps, i, taps[i].pos) /\ taps[i].pos \in HoldTaps /\ taps[i].pos \in Position /\ taps[i].at \in Int
<1>1. taps[i].pos \in HoldTaps /\ build \in Builds
  BY LedgerHas
<1>2. taps[i].at \in Int
  BY LedgerHas DEF TapShape
<1>3. \A j \in Slot : taps[j].pos = taps[i].pos => j = i
  BY LedgerHas
<1> QED
  BY <1>1, <1>2, <1>3, HoldTapsAre DEF Sole

\* What the calls cs are worth, and calls worth as much as those under way.
Gives(cs, p, tap, hold) == \A b \in Binding : Net(cs, b) = IF b = Tap(p) THEN tap ELSE IF b = Hold(p) THEN hold ELSE 0
Level(rest) == \A b \in Binding : Net(rest, b) = Net(agenda, b)

LEMMA PaidBy ==
  ASSUME Types, BalanceInv, UNCHANGED <<captured, hid>>,
         NEW p, NEW tap \in Int, NEW hold \in Int,
         NEW cs \in Seq(Call(Slot)), Gives(cs, p, tap, hold),
         NEW rest \in Seq(Call(Slot)), Level(rest), agenda' = cs \o rest
  PROVE  Paid(p, tap, hold)
<1> SUFFICES ASSUME NEW b \in Binding
             PROVE  /\ hid'[b] \in Int
                    /\ Sum(hid', agenda', captured', b) = Sum(hid, agenda, captured, b)
                            + (IF b = Tap(p) THEN tap ELSE IF b = Hold(p) THEN hold ELSE 0)
  BY DEF Paid
<1> DEFINE g == IF b = Tap(p) THEN tap ELSE IF b = Hold(p) THEN hold ELSE 0
           v == hid[b]
           a == Net(agenda, b)
           q == Net(captured, b)
           C == Call(Slot)
<1>1. v \in Int /\ a \in Int /\ q \in Int /\ g \in Int
  BY SumIs
<1>2. hid'[b] = v /\ Net(captured', b) = q /\ Net(cs, b) = g /\ Net(rest, b) = a
  BY DEF Gives, Level
<1>3. cs \in Seq(C) /\ rest \in Seq(C)
  OBVIOUS
<1> HIDE DEF g, v, a, q, C
<1>4. Net(cs \o rest, b) = Net(cs, b) + Net(rest, b)
  BY <1>3, NetJoin
<1>5. Net(agenda', b) = g + a
  BY <1>2, <1>4
<1>6. v + (g + a) + q = v + a + q + g
  BY <1>1
<1>7. hid'[b] + Net(agenda', b) + Net(captured', b) = v + a + q + g
  BY <1>2, <1>5, <1>6
<1>8. Sum(hid', agenda', captured', b) = Sum(hid, agenda, captured, b) + g
  BY <1>7 DEF Sum, v, a, q
<1> QED
  BY <1>1, <1>2, <1>8 DEF g

\* A retro tap that waits becomes a hold.
LEMMA UpdateRetroTapsBalances ==
  ASSUME Ledger, UpdateRetroTaps
  PROVE  BalanceInv'
<1> DEFINE R == RetroWaiting(Head(agenda).pos)
           i == Min(R)
           h == taps[i]
           p == h.pos
           c == Config[p]
           cs == PressBinding(h, "holdInterrupt")
           hold == IF c.early THEN 0 ELSE 1
           tap == 0
<1>1. /\ agenda # <<>> /\ Head(agenda).do = "pos" /\ R # {}
      /\ taps' = [taps EXCEPT ![i].status = "holdInterrupt"]
      /\ agenda' = cs \o agenda
      /\ UNCHANGED <<build, captured, held, hid>>
  BY DEF UpdateRetroTaps, Doing, settings, input
<1>2. i \in Slot /\ p # NoKey /\ c.retro /\ h.status = "holdTimer"
  <2>1. R \in SUBSET Nat
    BY DEF RetroWaiting, Slot
  <2>2. i \in R
    <3> HIDE DEF R
    <3> QED
      BY <1>1, <2>1, MinIs
  <2> QED
    BY <2>2 DEF RetroWaiting
<1> HIDE DEF R, i
<1>3. Types /\ SeatedInv /\ BalanceInv /\ build \in Builds /\ agenda \in Seq(Call(Slot)) /\ DOMAIN taps = Slot /\ DOMAIN hid' = Binding
  BY <1>1, LedgerHas DEF Types
<1>4. Sole(taps, i, p) /\ p \in HoldTaps /\ p \in Position /\ h.at \in Int /\ DOMAIN h = {"pos", "status", "at", "other", "timer"}
  BY <1>2, SoleIs, LedgerHas DEF TapShape
<1>5. NoPressed(agenda)
  BY <1>1, <1>3, QuietHead
<1>6. /\ cs \in Seq(Sent)
      /\ \A b : Net(cs, b) = IF ~c.early /\ b = Hold(p) THEN 1 ELSE 0
  <2> HIDE DEF h
  <2>1. cs \in Seq(Sent)
    BY <1>4, PressAt
  <2>2. ASSUME NEW b
        PROVE  Net(PressBinding(h, "holdInterrupt"), b) =
                 IF c.retro /\ "holdInterrupt" = "holdTimer" THEN 0
                 ELSE IF "holdInterrupt" \in {"holdTimer", "holdInterrupt"} THEN IF ~c.early /\ b = Hold(h.pos) THEN 1 ELSE 0
                 ELSE IF b = Tap(h.pos) THEN 1
                 ELSE IF c.early /\ ~c.linger /\ b = Hold(h.pos) THEN -1 ELSE 0
    BY <1>4, PressWorth
  <2>3. ASSUME NEW b PROVE Net(cs, b) = IF ~c.early /\ b = Hold(p) THEN 1 ELSE 0
    BY <2>2
  <2> QED
    BY <2>1, <2>3
<1> HIDE DEF cs
<1>7. NoPressed(agenda')
  BY <1>1, <1>3, <1>5, <1>6, CodesSeat
<1>8. Gives(cs, p, tap, hold) /\ Level(agenda) /\ cs \in Seq(Call(Slot))
  <2>1. Hold(p) # Tap(p)
    BY DEF Hold, Tap
  <2> QED
    BY <1>6, <2>1, SentIsCall DEF Gives, Level
<1>9. /\ taps'[i].pos = p /\ taps'[i].status = "holdInterrupt"
      /\ \A j \in Slot : j # i => taps'[j] = taps[j]
  BY <1>1, <1>2, <1>3, <1>4
<1>10. hold \in Int /\ tap \in Int
  OBVIOUS
<1>11. Paid(p, tap, hold)
  <2> HIDE DEF p, hold, tap
  <2> QED
    BY <1>1, <1>3, <1>8, <1>10, PaidBy
<1>12. Elsewhere(p)
  BY <1>2, <1>5, <1>7, <1>9, OthersSame
<1>13. Owing(p, tap, hold)
  <2>1. Sole(taps', i, p)
    BY <1>4, <1>9 DEF Sole
  <2>2. Holding(taps[i], agenda) <=> c.early
    BY <1>2 DEF Holding
  <2>3. Holding(taps'[i], agenda')
    BY <1>9 DEF Holding
  <2>4. taps[i].status = "holdTimer" /\ taps'[i].status = "holdInterrupt"
    BY <1>2, <1>9
  <2>5. ("holdTimer" = "tap") = FALSE /\ ("holdInterrupt" = "tap") = FALSE
    OBVIOUS
  <2> DEFINE q == p
  <2>6. Sole(taps, i, q) /\ Sole(taps', i, q)
    BY <1>4, <2>1
  <2> HIDE DEF q
  <2>7. /\ Owes(taps, agenda, held, Tap(q)) = IF taps[i].status = "tap" THEN 1 ELSE 0
        /\ Owes(taps, agenda, held, Hold(q)) = IF Holding(taps[i], agenda) THEN 1 ELSE 0
    BY <1>2, <2>6, OwesAt
  <2>8. /\ Owes(taps', agenda', held, Tap(q)) = IF taps'[i].status = "tap" THEN 1 ELSE 0
        /\ Owes(taps', agenda', held, Hold(q)) = IF Holding(taps'[i], agenda') THEN 1 ELSE 0
    BY <1>2, <2>6, OwesAt
  <2>9. Owes(taps', agenda', held, Tap(q)) = Owes(taps, agenda, held, Tap(q)) + tap
    BY <2>4, <2>7, <2>8
  <2>10. Owes(taps', agenda', held, Hold(q)) = Owes(taps, agenda, held, Hold(q)) + hold
    BY <2>2, <2>3, <2>7, <2>8
  <2>11. Owing(q, tap, hold)
    BY <2>9, <2>10 DEF Owing
  <2> QED
    BY <2>11 DEF q
<1>14. Statuses(taps')
  BY <1>3, <1>9 DEF Statuses, BalanceInv, Balance
<1> HIDE DEF p, hold, tap
<1> QED
  BY <1>1, <1>3, <1>4, <1>11, <1>12, <1>13, <1>14, Rebalance

\* The calls behind one that is worth nothing.
LEMMA LevelTail ==
  ASSUME Types, BalanceInv, agenda # <<>>, \A b \in Binding : Worth(Head(agenda), b) = 0
  PROVE  Level(Tail(agenda)) /\ Tail(agenda) \in Seq(Call(Slot))
<1>1. Tail(agenda) \in Seq(Call(Slot))
  BY FirstCall
<1>2. ASSUME NEW b \in Binding PROVE Net(Tail(agenda), b) = Net(agenda, b)
  <2> DEFINE t == Tail(agenda)
  <2>1. Net(agenda, b) = Worth(Head(agenda), b) + Net(t, b) /\ Net(t, b) \in Int
    BY SumIs
  <2>2. Worth(Head(agenda), b) = 0
    OBVIOUS
  <2> HIDE DEF t
  <2>3. Net(t, b) = Net(agenda, b)
    BY <2>1, <2>2
  <2> QED
    BY <2>3 DEF t
<1> QED
  BY <1>1, <1>2 DEF Level

\* An undecided hold-tap with a key is the one.
LEMMA UndecidedIs ==
  ASSUME Ledger, NEW j \in Slot, taps[j].pos # NoKey, taps[j].status = "undecided"
  PROVE  j = undecided
  BY DEF Ledger, TimeInv, Timed, SlotsOK, SlotOK

\* What is released was pressed.
LEMMA ReleasedBalances ==
  ASSUME Ledger, Released
  PROVE  BalanceInv'
<1> DEFINE e == Head(agenda)
           t == Tail(agenda)
           i == e.i
           h == taps[i]
           p == h.pos
           c == Config[p]
           retro == c.retro /\ h.status = "holdTimer"
           s == IF retro THEN "tap" ELSE h.status
           A == IF retro THEN PressBinding(h, "tap") ELSE <<>>
           B == ReleaseBinding(h, s)
           L == IF c.early /\ c.linger THEN <<Code(Hold(h.pos), FALSE, h.at)>> ELSE <<>>
           cs == A \o B
           tap == IF h.status = "tap" THEN -1 ELSE 0
           hold == IF h.status = "holdInterrupt" \/ (h.status = "holdTimer" /\ (c.early \/ ~c.retro)) THEN -1 ELSE 0
<1>1. /\ agenda # <<>> /\ e.do = "released" /\ taps' = [taps EXCEPT ![i] = Unused]
      /\ agenda' = A \o B \o L \o t
      /\ UNCHANGED <<build, captured, held, hid>>
  BY DEF Released, Doing, settings, input
<1>2. Types /\ SeatedInv /\ BalanceInv /\ SlowInv /\ build \in Builds /\ DOMAIN hid' = Binding
  BY <1>1, LedgerHas
<1>3. i \in Slot /\ t \in Seq(Call(Slot))
  BY <1>1, <1>2, FirstCall, CallFields
<1>4. p # NoKey
  <2>1. p \in HoldTaps
    BY <1>1, <1>3, EndsActive DEF Closes
  <2> QED
    BY <1>2, <2>1, HoldTapsAre
<1>5. Sole(taps, i, p) /\ p \in HoldTaps /\ p \in Position /\ h.at \in Int
  BY <1>3, <1>4, SoleIs
<1>6. h.status \in {"tap", "holdInterrupt", "holdTimer"}
  <2>1. h.status \in {"undecided", "tap", "holdInterrupt", "holdTimer"}
    BY <1>2, <1>3 DEF BalanceInv, Balance, Statuses
  <2>2. h.status # "undecided"
    <3>1. e \in Closing(ToSet(agenda), i)
      <4>1. e \in ToSet(agenda)
        BY <1>1, <1>2, FirstCall
      <4> QED
        BY <1>1, <4>1 DEF Closing, Closes
    <3>2. Ending(agenda) = None /\ None \notin Slot
      BY <1>1, <1>2, Basics DEF Ending
    <3>3. SlotOK(i, h, undecided, Ending(agenda), ToSet(agenda), ToSet(agenda) \cup ToSet(captured), now)
      BY <1>3 DEF Ledger, TimeInv, Timed, SlotsOK
    <3> QED
      BY <1>3, <1>4, <3>1, <3>2, <3>3 DEF SlotOK
  <2> QED
    BY <2>1, <2>2
<1>7. NoPressed(t) /\ NoPressed(agenda)
  BY <1>1, <1>2, QuietHead
<1>8. Level(t)
  <2>1. \A b \in Binding : Worth(e, b) = 0
    <3>1. e.do = "released"
      BY <1>1
    <3> HIDE DEF e
    <3> QED
      BY <3>1, NoWorth
  <2> QED
    BY <1>1, <1>2, <2>1, LevelTail
<1>9. c.early => ~c.linger
  BY <1>2, <1>5 DEF SlowInv
<1>10. /\ A \in Seq(Sent) /\ B \in Seq(Sent) /\ cs \in Seq(Sent) /\ L = <<>>
       /\ \A b : /\ Net(A, b) = IF retro THEN IF b = Tap(p) THEN 1 ELSE IF c.early /\ b = Hold(p) THEN -1 ELSE 0 ELSE 0
                 /\ Net(B, b) = IF retro \/ h.status = "tap" THEN IF b = Tap(p) THEN -1 ELSE 0 ELSE IF b = Hold(p) THEN -1 ELSE 0
  <2> HIDE DEF h
  <2>1. L = <<>>
    BY <1>9
  <2>2. PressBinding(h, "tap") \in Seq(Sent) /\ <<>> \in Seq(Sent)
    BY <1>5, PressAt
  <2>3. A \in Seq(Sent)
    BY <2>2
  <2>4. B \in Seq(Sent)
    BY <1>5, ReleaseWorth
  <2>5. cs \in Seq(Sent)
    <3> HIDE DEF A, B
    <3> QED
      BY <2>3, <2>4
  <2>6. ASSUME NEW b
        PROVE  Net(PressBinding(h, "tap"), b) =
                 IF c.retro /\ "tap" = "holdTimer" THEN 0
                 ELSE IF "tap" \in {"holdTimer", "holdInterrupt"} THEN IF ~c.early /\ b = Hold(h.pos) THEN 1 ELSE 0
                 ELSE IF b = Tap(h.pos) THEN 1
                 ELSE IF c.early /\ ~c.linger /\ b = Hold(h.pos) THEN -1 ELSE 0
    BY <1>5, PressWorth
  <2>7. ASSUME NEW b
        PROVE  Net(A, b) = IF retro THEN IF b = Tap(p) THEN 1 ELSE IF c.early /\ b = Hold(p) THEN -1 ELSE 0 ELSE 0
    <3>1. Net(PressBinding(h, "tap"), b) = IF b = Tap(p) THEN 1 ELSE IF c.early /\ b = Hold(p) THEN -1 ELSE 0
      BY <1>9, <2>6
    <3>2. Net(<<>>, b) = 0
      BY NetNone
    <3>3. CASE retro
      BY <3>1, <3>3
    <3>4. CASE ~retro
      BY <3>2, <3>4
    <3> QED
      BY <3>3, <3>4
  <2>8. ASSUME NEW b
        PROVE  Net(B, b) =
                 IF c.retro /\ s = "holdTimer" THEN 0
                 ELSE IF s \in {"holdTimer", "holdInterrupt"} THEN IF b = Hold(h.pos) THEN -1 ELSE 0
                 ELSE IF b = Tap(h.pos) THEN -1 ELSE 0
    <3> HIDE DEF s
    <3> QED
      BY <1>5, ReleaseWorth
  <2>9. ASSUME NEW b
        PROVE  Net(B, b) = IF retro \/ h.status = "tap" THEN IF b = Tap(p) THEN -1 ELSE 0 ELSE IF b = Hold(p) THEN -1 ELSE 0
    <3> HIDE DEF B
    <3> QED
      BY <1>6, <2>8
  <2> QED
    BY <2>1, <2>3, <2>4, <2>5, <2>7, <2>9
<1> HIDE DEF A, B, L
<1>11. Gives(cs, p, tap, hold)
  <2> SUFFICES ASSUME NEW b \in Binding PROVE Net(cs, b) = IF b = Tap(p) THEN tap ELSE IF b = Hold(p) THEN hold ELSE 0
    BY DEF Gives
  <2>1. Net(cs, b) = Net(A, b) + Net(B, b)
    BY <1>10, NetJoin
  <2>2. Hold(p) # Tap(p)
    BY DEF Hold, Tap
  <2> HIDE DEF cs
  <2> QED
    BY <1>6, <1>10, <2>1, <2>2
<1>12. agenda' = cs \o t
  <2>1. cs \o <<>> = cs
    <3> HIDE DEF cs
    <3> QED
      BY <1>10
  <2> QED
    BY <1>1, <1>10, <2>1
<1>13. cs \in Seq(Call(Slot)) /\ NoPressed(agenda')
  <2> HIDE DEF cs
  <2>1. cs \in Seq(Call(Slot))
    BY <1>10, SentIsCall
  <2> QED
    BY <1>3, <1>7, <1>10, <1>12, <2>1, CodesSeat
<1> HIDE DEF cs
<1>14. /\ taps'[i].pos = NoKey /\ taps'[i].status = "undecided"
       /\ \A j \in Slot : j # i => taps'[j] = taps[j]
  <2>1. DOMAIN taps = Slot
    BY LedgerHas
  <2> QED
    BY <1>1, <1>3, <2>1 DEF Unused
<1>15. tap \in Int /\ hold \in Int
  OBVIOUS
<1>16. Elsewhere(p)
  BY <1>3, <1>7, <1>13, <1>14, OthersSame
<1>17. Owing(p, tap, hold)
  <2>1. \A j \in Slot : taps'[j].pos # p
    BY <1>4, <1>5, <1>14 DEF Sole
  <2>2. Holding(taps[i], agenda) <=> (h.status = "holdInterrupt" \/ (h.status = "holdTimer" /\ (c.early \/ ~c.retro)))
    BY <1>6 DEF Holding
  <2> DEFINE q == p
  <2>3. Sole(taps, i, q) /\ \A j \in Slot : taps'[j].pos # q
    BY <1>5, <2>1
  <2> HIDE DEF q
  <2>4. /\ Owes(taps, agenda, held, Tap(q)) = IF taps[i].status = "tap" THEN 1 ELSE 0
        /\ Owes(taps, agenda, held, Hold(q)) = IF Holding(taps[i], agenda) THEN 1 ELSE 0
    BY <1>3, <2>3, OwesAt
  <2>5. Owes(taps', agenda', held, Tap(q)) = 0 /\ Owes(taps', agenda', held, Hold(q)) = 0
    BY <2>3, OwesNothing
  <2>6. Owes(taps', agenda', held, Tap(q)) = Owes(taps, agenda, held, Tap(q)) + tap
    BY <2>4, <2>5
  <2>7. Owes(taps', agenda', held, Hold(q)) = Owes(taps, agenda, held, Hold(q)) + hold
    BY <2>2, <2>4, <2>5
  <2>8. Owing(q, tap, hold)
    BY <2>6, <2>7 DEF Owing
  <2> QED
    BY <2>8 DEF q
<1>18. Statuses(taps')
  BY <1>2, <1>14 DEF Statuses, BalanceInv, Balance
<1> HIDE DEF p, tap, hold
<1>19. Paid(p, tap, hold)
  BY <1>1, <1>2, <1>3, <1>8, <1>11, <1>12, <1>13, <1>15, PaidBy
<1> QED
  BY <1>1, <1>2, <1>5, <1>16, <1>17, <1>18, <1>19, Rebalance

\* A hold-tap that presses its hold early does so last.
LEMMA PressedBalances ==
  ASSUME Ledger, Pressed
  PROVE  BalanceInv'
<1> DEFINE e == Head(agenda)
           t == Tail(agenda)
           i == e.i
           h == taps[i]
           p == h.pos
           early == h.status = "undecided" /\ i = undecided /\ Config[h.pos].early
           code == Code(Hold(h.pos), TRUE, h.at)
           cs == IF early THEN <<code>> ELSE <<>>
           tap == 0
           hold == IF early THEN 1 ELSE 0
<1>1. /\ agenda # <<>> /\ e.do = "pressed" /\ agenda' = cs \o t
      /\ \E T : taps' = [taps EXCEPT ![i].timer = T]
      /\ UNCHANGED <<build, captured, held, hid>>
  BY DEF Pressed, Doing, settings, input
<1>2. Types /\ SeatedInv /\ BalanceInv /\ build \in Builds /\ DOMAIN hid' = Binding /\ DOMAIN taps = Slot
  BY <1>1, LedgerHas
<1>3. i \in Slot /\ t \in Seq(Call(Slot))
  BY <1>1, <1>2, FirstCall, CallFields
<1>4. p # NoKey /\ undecided \in {None, i}
  BY <1>1, <1>2, PressedBehind
<1>5. Sole(taps, i, p) /\ p \in HoldTaps /\ p \in Position /\ h.at \in Int
  BY <1>3, <1>4, SoleIs
<1>6. NoPressed(t) /\ ~NoPressed(agenda)
  <2>1. e \in ToSet(agenda)
    BY <1>1, <1>2, FirstCall
  <2> QED
    BY <1>1, <1>2, <2>1, PressedBehind DEF Ahead, NoPressed
<1>7. Level(t)
  <2>1. \A b \in Binding : Worth(e, b) = 0
    <3>1. e.do = "pressed"
      BY <1>1
    <3> HIDE DEF e
    <3> QED
      BY <3>1, NoWorth
  <2> QED
    BY <1>1, <1>2, <2>1, LevelTail
<1>8. /\ \A j \in Slot : taps'[j].pos = taps[j].pos /\ taps'[j].status = taps[j].status
  <2>1. PICK T : taps' = [taps EXCEPT ![i].timer = T]
    BY <1>1
  <2>2. \A j \in Slot : TapShape(taps[j])
    BY LedgerHas
  <2> QED
    BY <1>2, <1>3, <2>1, <2>2 DEF TapShape
<1>9. \A j \in Slot : j # i /\ taps[j].pos # NoKey => taps[j].status # "undecided"
  <2> SUFFICES ASSUME NEW j \in Slot, j # i, taps[j].pos # NoKey, taps[j].status = "undecided" PROVE FALSE
    OBVIOUS
  <2>1. j = undecided
    BY UndecidedIs
  <2> QED
    BY <1>2, <1>4, <2>1, Basics
<1>10. early <=> h.status = "undecided" /\ Config[p].early
  BY <1>3, <1>4, UndecidedIs
<1>11. cs \in Seq(Sent) /\ \A b : Net(cs, b) = IF early /\ b = Hold(p) THEN 1 ELSE 0
  <2>1. code \in Sent /\ code.do = "code" /\ code.code = Hold(p) /\ code.down
    <3>1. code \in Sent
      <4> HIDE DEF h
      <4> QED
        BY <1>5, CodeIs
    <3> QED
      BY <3>1 DEF Code
  <2> HIDE DEF code
  <2>2. <<code>> \in Seq(Sent) /\ <<>> \in Seq(Sent)
    BY <2>1
  <2>3. ASSUME NEW b PROVE Net(<<code>>, b) = IF b = Hold(p) THEN 1 ELSE 0
    <3>1. Worth(code, b) = IF b = Hold(p) THEN 1 ELSE 0
      BY <2>1, CodeWorth
    <3> QED
      BY <3>1, NetOne
  <2>4. ASSUME NEW b PROVE Net(<<>>, b) = 0
    BY NetNone
  <2> HIDE DEF early
  <2> QED
    BY <2>2, <2>3, <2>4
<1> HIDE DEF cs
<1>12. Gives(cs, p, tap, hold) /\ cs \in Seq(Call(Slot))
  <2>1. Hold(p) # Tap(p)
    BY DEF Hold, Tap
  <2> HIDE DEF early
  <2> QED
    BY <1>11, <2>1, SentIsCall DEF Gives
<1>13. NoPressed(agenda')
  BY <1>1, <1>3, <1>6, <1>11, CodesSeat
<1>14. hold \in Int /\ tap \in Int
  OBVIOUS
<1>15. Elsewhere(p)
  <2>1. taps[i].pos \in {p, NoKey} /\ taps'[i].pos \in {p, NoKey}
    BY <1>3, <1>8
  <2> HIDE DEF p
  <2> QED
    BY <1>3, <1>8, <1>9, <2>1, OthersSame
<1>16. Owing(p, tap, hold)
  <2>1. Sole(taps', i, p)
    BY <1>3, <1>5, <1>8 DEF Sole
  <2>2. (Holding(taps'[i], agenda') <=> Holding(taps[i], agenda) \/ early) /\ (early => ~Holding(taps[i], agenda))
    BY <1>3, <1>6, <1>8, <1>10, <1>13 DEF Holding
  <2>3. taps'[i].status = taps[i].status
    BY <1>3, <1>8
  <2> DEFINE q == p
  <2>4. Sole(taps, i, q) /\ Sole(taps', i, q)
    BY <1>5, <2>1
  <2> HIDE DEF q, early
  <2>5. /\ Owes(taps, agenda, held, Tap(q)) = IF taps[i].status = "tap" THEN 1 ELSE 0
        /\ Owes(taps, agenda, held, Hold(q)) = IF Holding(taps[i], agenda) THEN 1 ELSE 0
    BY <1>3, <2>4, OwesAt
  <2>6. /\ Owes(taps', agenda', held, Tap(q)) = IF taps'[i].status = "tap" THEN 1 ELSE 0
        /\ Owes(taps', agenda', held, Hold(q)) = IF Holding(taps'[i], agenda') THEN 1 ELSE 0
    BY <1>3, <2>4, OwesAt
  <2>7. Owes(taps', agenda', held, Tap(q)) = Owes(taps, agenda, held, Tap(q)) + tap
    BY <2>3, <2>5, <2>6
  <2>8. Owes(taps', agenda', held, Hold(q)) = Owes(taps, agenda, held, Hold(q)) + hold
    BY <2>2, <2>5, <2>6
  <2>9. Owing(q, tap, hold)
    BY <2>7, <2>8 DEF Owing
  <2> QED
    BY <2>9 DEF q
<1>17. Statuses(taps')
  BY <1>2, <1>8 DEF Statuses, BalanceInv, Balance
<1> HIDE DEF p, tap, hold
<1>18. Paid(p, tap, hold)
  BY <1>1, <1>2, <1>3, <1>7, <1>12, <1>14, PaidBy
<1> QED
  BY <1>1, <1>2, <1>5, <1>15, <1>16, <1>17, <1>18, Rebalance

\* A hold-tap that presses its hold early is not made a tap by a key before it.
LEMMA EarlyIsNoQuickTap ==
  ASSUME Ledger, agenda # <<>>, NEW e, e = Head(agenda), Event(e), e.down, e.pos \in HoldTaps, QuickTap(e.pos, e.at)
  PROVE  ~Config[e.pos].early
<1>1. Counts(e) /\ e \in ToSet(agenda) \cup ToSet(captured)
  <2>1. Types
    BY LedgerHas
  <2> QED
    BY <2>1, FirstCall DEF Ledger, SettingsInv, Counts
<1>2. PICK f \in Int : Floor(f, ToSet(agenda) \cup ToSet(captured), taps, lastTapped, now)
  BY DEF Ledger, TimeInv, Timed
<1>3. lastTapped.at \in Int /\ lastTapped.at <= f /\ f <= e.at
  BY <1>1, <1>2 DEF Floor
<1>4. timing[e.pos].idle \in Int /\ timing[e.pos].quick \in Int
  BY DEF Ledger, SettingsInv
<1>5. e.at \in Int
  <2>1. Types
    BY LedgerHas
  <2>2. e \in KeyEvent({"pos", "after", "keymap"})
    BY <2>1, FirstCall, CallFields DEF Event
  <2> QED
    BY <2>2, EventHas
<1>6. Config[e.pos].early => timing[e.pos].quick <= 0 /\ timing[e.pos].idle <= 0
  BY DEF Ledger, SlowInv
<1> QED
  BY <1>3, <1>4, <1>5, <1>6 DEF QuickTap

\* A press is owed nothing yet, except by a quick tap.
LEMMA BindingPressedBalances ==
  ASSUME Ledger, BindingPressed
  PROVE  BalanceInv'
<1> DEFINE e == Head(agenda)
           t == Tail(agenda)
           free == {j \in Slot : taps[j].pos = NoKey}
           i == Min(free)
           p == e.pos
           h == [Unused EXCEPT !.pos = e.pos, !.at = e.at]
           quick == QuickTap(e.pos, e.at) /\ Outcome(timing[e.pos].flavor, "quickTap") = "tap"
           P == [do |-> "pressed", i |-> i]
           rest == <<P>> \o t
           r == Release(1)
           A == PressBinding(h, "tap")
           cs == IF quick THEN A \o <<r>> ELSE <<>>
           C == Call(Slot)
           tap == IF quick THEN 1 ELSE 0
           hold == 0
<1>1. /\ agenda # <<>> /\ e.do = "keymap" /\ undecided = None /\ free # {} /\ e.down /\ p \in HoldTaps
      /\ taps' = [taps EXCEPT ![i] = [h EXCEPT !.status = IF quick THEN "tap" ELSE "undecided"]]
      /\ agenda' = cs \o rest
      /\ UNCHANGED <<build, captured, held, hid>>
  BY DEF BindingPressed, Doing, settings, input
<1> HIDE DEF cs
<1>2. Types /\ SeatedInv /\ BalanceInv /\ build \in Builds /\ DOMAIN hid' = Binding /\ DOMAIN taps = Slot
  BY <1>1, LedgerHas
<1>3. t \in Seq(C) /\ e \in KeyEvent({"pos", "after", "keymap"}) /\ Event(e)
  BY <1>1, <1>2, FirstCall, CallFields, EventHas
<1>4. i \in Slot /\ taps[i].pos = NoKey
  <2>1. free \in SUBSET Nat
    BY DEF Slot
  <2>2. i \in free
    <3> HIDE DEF free
    <3> QED
      BY <1>1, <2>1, MinIs
  <2> QED
    BY <2>2
<1> HIDE DEF free, i
<1>5. /\ p # NoKey /\ p \in Position /\ e.at \in Int /\ h.pos = p /\ h.at = e.at
      /\ DOMAIN h = {"pos", "status", "at", "other", "timer"}
  BY <1>1, <1>2, <1>3, EventHas, HoldTapsAre DEF Unused
<1>6. quick => ~Config[p].early
  BY <1>1, <1>3, EarlyIsNoQuickTap
<1>7. P \in C /\ P.do = "pressed" /\ r \in C /\ r.do = "release"
  BY <1>4 DEF Call, Release
<1>8. Level(rest) /\ rest \in Seq(C)
  <2>1. ASSUME NEW b \in Binding PROVE Worth(e, b) = 0
    BY <1>1, <1>3, StageWorth
  <2>2. Level(t)
    BY <1>1, <1>2, <2>1, LevelTail
  <2>3. \A b : Worth(P, b) = 0
    BY <1>7, NoWorth
  <2> HIDE DEF P, C, t
  <2>4. ASSUME NEW b \in Binding PROVE Net(<<P>> \o t, b) = Net(t, b)
    <3>1. Net(<<P>> \o t, b) = Worth(P, b) + Net(t, b) /\ Net(t, b) \in Int
      BY <1>3, <1>7, NetCons
    <3> QED
      BY <2>3, <3>1
  <2>5. <<P>> \o t \in Seq(C)
    BY <1>3, <1>7, Before1
  <2> QED
    BY <2>2, <2>4, <2>5 DEF Level
<1>9. A \in Seq(Sent) /\ (quick => \A b : Net(A, b) = IF b = Tap(p) THEN 1 ELSE 0)
  <2>1. h.pos \in Position \cup {NoKey} /\ h.at \in Int
    BY <1>5
  <2> HIDE DEF h
  <2>2. A \in Seq(Sent)
    BY <2>1, PressAt
  <2>3. ASSUME NEW b
        PROVE  Net(PressBinding(h, "tap"), b) =
                 IF Config[h.pos].retro /\ "tap" = "holdTimer" THEN 0
                 ELSE IF "tap" \in {"holdTimer", "holdInterrupt"} THEN IF ~Config[h.pos].early /\ b = Hold(h.pos) THEN 1 ELSE 0
                 ELSE IF b = Tap(h.pos) THEN 1
                 ELSE IF Config[h.pos].early /\ ~Config[h.pos].linger /\ b = Hold(h.pos) THEN -1 ELSE 0
    BY <2>1, PressWorth
  <2>4. ASSUME quick, NEW b PROVE Net(A, b) = IF b = Tap(p) THEN 1 ELSE 0
    <3>1. ~Config[h.pos].early /\ Tap(h.pos) = Tap(p)
      BY <1>5, <1>6, <2>4
    <3> QED
      BY <2>3, <3>1
  <2> HIDE DEF A, quick
  <2> QED
    BY <2>2, <2>4
<1>10. A \in Seq(C)
  BY <1>9, SentIsCall
<1> HIDE DEF h, A, quick
<1>11. cs \in Seq(C) /\ \A b : Net(cs, b) = IF quick /\ b = Tap(p) THEN 1 ELSE 0
  <2> HIDE DEF r, C
  <2>1. <<r>> \in Seq(C) /\ <<>> \in Seq(C)
    BY <1>7
  <2>2. \A b : Net(<<r>>, b) = 0
    <3>1. \A b : Worth(r, b) = 0
      BY <1>7, NoWorth
    <3> QED
      BY <3>1, NetOne
  <2>3. ASSUME quick, NEW b PROVE Net(A \o <<r>>, b) = IF b = Tap(p) THEN 1 ELSE 0
    <3>1. Net(A \o <<r>>, b) = Net(A, b) + Net(<<r>>, b)
      BY <1>10, <2>1, NetJoin
    <3> QED
      BY <1>9, <2>2, <2>3, <3>1
  <2>4. A \o <<r>> \in Seq(C)
    BY <1>10, <2>1
  <2>5. \A b : Net(<<>>, b) = 0
    BY NetNone
  <2>6. CASE quick
    BY <2>3, <2>4, <2>6 DEF cs
  <2>7. CASE ~quick
    BY <2>1, <2>5, <2>7 DEF cs
  <2> QED
    BY <2>6, <2>7
<1>12. Gives(cs, p, tap, hold)
  BY <1>11 DEF Gives
<1>13. ~NoPressed(agenda')
  <2> HIDE DEF P, t, C
  <2>1. ToSet(rest) = {P} \cup ToSet(t)
    BY <1>3, <1>7, SetCons
  <2> HIDE DEF rest
  <2>2. ToSet(cs \o rest) = ToSet(cs) \cup ToSet(rest)
    BY <1>8, <1>11, SetJoin
  <2> QED
    BY <1>1, <1>7, <2>1, <2>2 DEF NoPressed
<1>14. /\ taps'[i].pos = p /\ taps'[i].status = (IF quick THEN "tap" ELSE "undecided")
       /\ \A j \in Slot : j # i => taps'[j] = taps[j]
  BY <1>1, <1>2, <1>4, <1>5
<1>15. \A j \in Slot : taps[j].pos # p
  <2> SUFFICES ASSUME NEW j \in Slot, taps[j].pos = p PROVE FALSE
    OBVIOUS
  <2>1. Counts(e)
    BY <1>1, <1>3 DEF Ledger, SettingsInv, Counts
  <2> QED
    BY <1>1, <2>1, PressedFirst DEF Ledger
<1>16. Elsewhere(p)
  <2>1. \A j \in Slot : taps[j].pos # NoKey => taps[j].status # "undecided"
    BY <1>1, <1>2, UndecidedIs, Basics
  <2>2. taps[i].pos \in {p, NoKey} /\ taps'[i].pos \in {p, NoKey}
    BY <1>4, <1>14
  <2> HIDE DEF p
  <2> QED
    BY <1>4, <1>14, <2>1, <2>2, OthersSame
<1>17. Owing(p, tap, hold)
  <2> DEFINE q == p
  <2>1. Sole(taps', i, q) /\ \A j \in Slot : taps[j].pos # q
    BY <1>14, <1>15 DEF Sole
  <2>2. ~Holding(taps'[i], agenda')
    BY <1>13, <1>14 DEF Holding
  <2> HIDE DEF q
  <2>3. Owes(taps, agenda, held, Tap(q)) = 0 /\ Owes(taps, agenda, held, Hold(q)) = 0
    BY <2>1, OwesNothing
  <2>4. /\ Owes(taps', agenda', held, Tap(q)) = IF taps'[i].status = "tap" THEN 1 ELSE 0
        /\ Owes(taps', agenda', held, Hold(q)) = IF Holding(taps'[i], agenda') THEN 1 ELSE 0
    BY <1>4, <2>1, OwesAt
  <2>5. Owes(taps', agenda', held, Tap(q)) = Owes(taps, agenda, held, Tap(q)) + tap
    BY <1>14, <2>3, <2>4
  <2>6. Owes(taps', agenda', held, Hold(q)) = Owes(taps, agenda, held, Hold(q)) + hold
    BY <2>2, <2>3, <2>4
  <2>7. Owing(q, tap, hold)
    BY <2>5, <2>6 DEF Owing
  <2> QED
    BY <2>7 DEF q
<1>18. Statuses(taps')
  BY <1>2, <1>14 DEF Statuses, BalanceInv, Balance
<1>19. tap \in Int /\ hold \in Int
  OBVIOUS
<1> HIDE DEF p, tap, hold, rest, C
<1>20. Paid(p, tap, hold)
  <2>1. cs \in Seq(Call(Slot)) /\ rest \in Seq(Call(Slot))
    BY <1>8, <1>11 DEF C
  <2> QED
    BY <1>1, <1>2, <1>8, <1>12, <1>19, <2>1, PaidBy
<1> QED
  BY <1>1, <1>2, <1>16, <1>17, <1>18, <1>20, Rebalance

\* No edit changes what Steady says.
LEMMA SlowKeeps ==
  ASSUME Steady, Types, SettingsInv, SlowInv, [Next]_vars
  PROVE  SlowInv'
<1>1. CASE UNCHANGED <<build, timing>>
  BY <1>1 DEF SlowInv, HoldTaps, Config
<1>2. ASSUME NEW p \in HoldTaps, NEW f \in DOMAIN Edits[p], NEW v \in Edits[p][f], CopyField(p, f, v)
      PROVE  SlowInv'
  <2>1. build' = build /\ timing' = [timing EXCEPT ![p][f] = v]
    BY <1>2 DEF CopyField
  <2>2. HoldTaps' = HoldTaps /\ Config' = Config
    BY <2>1 DEF HoldTaps, Config
  <2>3. Config[p].early /\ f \in {"quick", "idle"} => v <= 0
    BY DEF Steady, Types, HoldTaps, Config, Edits
  <2>4. ASSUME NEW q \in HoldTaps, Config[q].early
        PROVE  timing'[q].quick <= 0 /\ timing'[q].idle <= 0
    <3>1. timing[q].quick <= 0 /\ timing[q].idle <= 0 /\ q \in DOMAIN timing /\ DOMAIN timing[q] = {"term", "quick", "idle", "flavor"}
      BY <2>4 DEF SlowInv, SettingsInv
    <3>2. CASE q = p
      <4>1. timing'[p] = [timing[p] EXCEPT ![f] = v]
        BY <2>1, <3>1, <3>2
      <4> QED
        BY <2>3, <2>4, <3>1, <3>2, <4>1
    <3>3. CASE q # p
      BY <2>1, <3>1, <3>3
    <3> QED
      BY <3>2, <3>3
  <2>5. \A q \in HoldTaps : Config[q].early => ~Config[q].linger
    BY DEF SlowInv
  <2> QED
    BY <2>1, <2>2, <2>4, <2>5 DEF SlowInv
<1>3. CASE Work
  <2>1. UNCHANGED <<build, timing>>
    BY <1>3 DEF Work, UpdateRetroTaps, Bubbling, WhileUndecided, AfterTimer, ReleaseCaptured, Keycode, PlainKey,
                PressRefused, BindingPressed, Pressed, ReleaseUnknown, BindingReleased, KeyUpDecision, Released, settings
  <2> QED
    BY <1>1, <2>1
<1>4. CASE \E i \in Slot : TimerHandler(i)
  BY <1>1, <1>4 DEF TimerHandler, settings
<1>5. CASE \E p \in Position : KeyDown(p) \/ KeyUp(p)
  BY <1>1, <1>5 DEF KeyDown, KeyUp, settings
<1>6. CASE Tick
  BY <1>1, <1>6 DEF Tick, settings
<1>7. CASE UNCHANGED vars
  BY <1>1, <1>7 DEF vars
<1> QED
  BY <1>2, <1>3, <1>4, <1>5, <1>6, <1>7 DEF Next

LEMMA InitSlow ==
  ASSUME Steady, Init
  PROVE  SlowInv
  BY HoldTapAssumption DEF Steady, Init, SlowInv, HoldTaps, Config, DtTiming

LEMMA InitBalance ==
  ASSUME Init
  PROVE  BalanceInv
<1>1. /\ taps = [i \in Slot |-> Unused] /\ captured = [j \in Place |-> Free] /\ agenda = <<>>
      /\ hid = [b \in Binding |-> 0] /\ held = {} /\ build \in Builds
  BY DEF Init
<1>2. \A i \in Slot : taps[i].pos = NoKey /\ taps[i].status = "undecided"
  BY <1>1 DEF Unused
<1>3. ASSUME NEW b \in Binding PROVE Owes(taps, agenda, held, b) = 0
  <2>1. b.of # NoKey
    BY <1>1, HoldTapsAre DEF Binding
  <2> QED
    BY <1>1, <1>2, <2>1 DEF Owes, OnTap, OnHold
<1>4. ASSUME NEW b PROVE Net(captured, b) = 0
  <2>1. \A j \in DOMAIN captured : captured[j] = Free
    BY <1>1
  <2>2. Worth(Free, b) = 0
    BY NoWorth DEF Free
  <2>3. Spots(captured, b, 1) = {} /\ Spots(captured, b, -1) = {}
    BY <2>1, <2>2 DEF Spots
  <2>4. Cardinality(Spots(captured, b, 1)) = 0
    BY <2>3, FS_EmptySet
  <2>5. Cardinality(Spots(captured, b, -1)) = 0
    BY <2>3, FS_EmptySet
  <2> QED
    BY <2>4, <2>5 DEF Net
<1>5. ASSUME NEW b PROVE Net(agenda, b) = 0
  BY <1>1, NetNone
<1>6. \A b \in Binding : hid[b] = 0
  BY <1>1
<1>7. Statuses(taps) /\ DOMAIN hid = Binding
  BY <1>1, <1>2 DEF Statuses
<1> QED
  BY <1>3, <1>4, <1>5, <1>6, <1>7 DEF BalanceInv, Balance

LEMMA BalanceKeeps ==
  ASSUME Ledger, ~overflow', [Next]_vars
  PROVE  BalanceInv'
<1>1. CASE Work
  <2>1. CASE UpdateRetroTaps
    BY <2>1, UpdateRetroTapsBalances
  <2>2. CASE Bubbling
    BY <2>2, BubblingBalances
  <2>3. CASE WhileUndecided
    BY <2>3, WhileUndecidedBalances
  <2>4. CASE AfterTimer
    BY <2>4, AfterTimerBalances
  <2>5. CASE ReleaseCaptured
    BY <2>5, ReleaseCapturedBalances
  <2>6. CASE Keycode
    BY <2>6, KeycodeBalances
  <2>7. CASE PlainKey
    BY <2>7, PlainKeyBalances
  <2>8. CASE PressRefused \/ ReleaseUnknown
    BY <2>8, RefusedBalances
  <2>9. CASE BindingPressed
    BY <2>9, BindingPressedBalances
  <2>10. CASE Pressed
    BY <2>10, PressedBalances
  <2>11. CASE BindingReleased
    BY <2>11, BindingReleasedBalances
  <2>12. CASE KeyUpDecision
    BY <2>12, KeyUpDecisionBalances
  <2>13. CASE Released
    BY <2>13, ReleasedBalances
  <2> QED
    BY <1>1, <2>1, <2>2, <2>3, <2>4, <2>5, <2>6, <2>7, <2>8, <2>9, <2>10, <2>11, <2>12, <2>13 DEF Work
<1>2. CASE \E i \in Slot : TimerHandler(i)
  BY <1>2, TimerHandlerBalances
<1>3. CASE \E p \in Position : KeyDown(p) \/ KeyUp(p)
  BY <1>3, KeyBalances
<1>4. CASE UNCHANGED <<build, taps, agenda, captured, held, hid>>
  BY <1>4, QuietBalances
<1>5. CASE Tick
  BY <1>4, <1>5 DEF Tick, settings, engine
<1>6. CASE \E p \in HoldTaps : \E f \in DOMAIN Edits[p] : \E v \in Edits[p][f] : CopyField(p, f, v)
  BY <1>4, <1>6 DEF CopyField, engine, input
<1>7. CASE UNCHANGED vars
  BY <1>4, <1>7 DEF vars
<1> QED
  BY <1>1, <1>2, <1>3, <1>5, <1>6, <1>7 DEF Next

-----------------------------------------------------------------------------
(* The theorems. *)

BindingsInv == TimesInv /\ SlowInv /\ (overflow \/ BalanceInv)

LEMMA BindingsHold ==
  ASSUME Calm, Plain, Punctual, Steady
  PROVE  Spec => []BindingsInv
<1>1. Init => SlowInv /\ BalanceInv
  BY InitSlow, InitBalance
<1>2. TimesInv /\ BindingsInv /\ [Next]_vars /\ TimesInv' => BindingsInv'
  <2> SUFFICES ASSUME TimesInv, TimesInv', BindingsInv, [Next]_vars PROVE BindingsInv'
    OBVIOUS
  <2>1. Types /\ SettingsInv /\ SlowInv
    BY DEF TimesInv, LinesInv, CallsInv, OwnedInv, BindingsInv
  <2>2. SlowInv'
    BY <2>1, SlowKeeps
  <2>3. overflow' \/ BalanceInv'
    <3>1. CASE overflow
      BY <3>1, OverflowStays
    <3>2. CASE ~overflow
      BY <3>2, BalanceKeeps DEF BindingsInv, TimesInv, LinesInv, Ledger
    <3> QED
      BY <3>1, <3>2
  <2> QED
    BY <2>2, <2>3 DEF BindingsInv
<1>3. TimesInv /\ SlowInv /\ BalanceInv => BindingsInv
  BY DEF BindingsInv
<1>4. Spec => []TimesInv
  BY TimesHold
<1> QED
  BY <1>1, <1>2, <1>3, <1>4, PTL DEF Spec

\* Between two events what is counted is what is pressed or captured.
LEMMA PressingIs ==
  ASSUME Types, BalanceInv, Idle, NEW p \in HoldTaps, NEW b \in {Hold(p), Tap(p)}
  PROVE  Pressing(b) = Owes(taps, agenda, held, b)
<1>1. b \in Binding /\ b.as # "key"
  BY DEF Hold, Tap, Binding
<1>2. Net(agenda, b) = 0
  BY NetNone DEF Idle
<1>3. ASSUME NEW j \in Place
      PROVE  /\ Worth(captured[j], b) = 1 <=> captured[j].do = "code" /\ captured[j].code = b /\ captured[j].down = TRUE
             /\ Worth(captured[j], b) = -1 <=> captured[j].do = "code" /\ captured[j].code = b /\ captured[j].down = FALSE
  <2> DEFINE x == captured[j]
  <2>1. x = Free \/ x \in Sent \/ x \in KeyEvent({"pos"})
    BY DEF Types, Kept
  <2>2. Means(x, b) <=> x.do = "code" /\ x.code = b
    BY <1>1 DEF Means
  <2>3. x.do = "code" => x.down \in BOOLEAN
    BY <2>1 DEF Sent, Free, KeyEvent
  <2> HIDE DEF x
  <2>4. /\ Worth(x, b) = 1 <=> x.do = "code" /\ x.code = b /\ x.down = TRUE
        /\ Worth(x, b) = -1 <=> x.do = "code" /\ x.code = b /\ x.down = FALSE
    BY <2>2, <2>3 DEF Worth
  <2> QED
    BY <2>4 DEF x
<1>4. DOMAIN captured = Place
  BY DEF Types
<1>5. Captured(b, TRUE) = Cardinality(Spots(captured, b, 1))
  <2>1. {j \in Place : captured[j].do = "code" /\ captured[j].code = b /\ captured[j].down = TRUE} = Spots(captured, b, 1)
    BY <1>3, <1>4 DEF Spots
  <2> QED
    BY <2>1 DEF Captured
<1>6. Captured(b, FALSE) = Cardinality(Spots(captured, b, -1))
  <2>1. {j \in Place : captured[j].do = "code" /\ captured[j].code = b /\ captured[j].down = FALSE} = Spots(captured, b, -1)
    BY <1>3, <1>4 DEF Spots
  <2> QED
    BY <2>1 DEF Captured
<1> DEFINE m == Cardinality(Spots(captured, b, 1))
           k == Cardinality(Spots(captured, b, -1))
           v == hid[b]
           o == Owes(taps, agenda, held, b)
<1>7. m \in Nat /\ k \in Nat
  <2>1. IsFiniteSet(Place)
    <3>1. build \in Builds
      BY DEF Types
    <3>2. MaxCaptured \in Nat
      BY <3>1, HoldTapAssumption DEF MaxCaptured
    <3> QED
      BY <3>2, FS_Interval DEF Place
  <2>2. Spots(captured, b, 1) \in SUBSET Place /\ Spots(captured, b, -1) \in SUBSET Place
    BY <1>4 DEF Spots
  <2> QED
    BY <2>1, <2>2, FS_Subset, FS_CardinalityType
<1>8. v \in Int /\ v + 0 + (m - k) = o
  BY <1>1, <1>2 DEF BalanceInv, Balance, Net
<1>9. Pressing(b) = v + m - k
  BY <1>5, <1>6 DEF Pressing
<1> HIDE DEF m, k, v, o
<1>10. v + m - k = o
  BY <1>7, <1>8
<1> QED
  BY <1>9, <1>10 DEF o

\* Between two events each hold-tap has pressed the one binding it was decided for, on
\* any calm, plain, punctual and steady keyboard, until an event is lost to a full array:
\* what each key owes is what is pressed, under way or captured, whatever was captured,
\* decided and raised again in between.
THEOREM BindingsAreAsDecided ==
  ASSUME Calm, Plain, Punctual, Steady
  PROVE  Spec => [](overflow \/ BindingsFollowDecisions)
<1>1. TimesInv /\ BindingsInv => overflow \/ BindingsFollowDecisions
  <2> SUFFICES ASSUME TimesInv, BindingsInv, ~overflow, Idle, NEW p \in HoldTaps
               PROVE  /\ Pressing(Tap(p)) = IF \E i \in {j \in Slot : taps[j].pos = p} : taps[i].status \in {"tap"} THEN 1 ELSE 0
                      /\ Pressing(Hold(p)) =
                           IF \/ \E i \in {j \in Slot : taps[j].pos = p} : taps[i].status \in {"holdInterrupt"}
                              \/ /\ \E i \in {j \in Slot : taps[j].pos = p} : taps[i].status \in {"holdTimer"}
                                 /\ (Config[p].early \/ ~Config[p].retro)
                              \/ (\E i \in {j \in Slot : taps[j].pos = p} : taps[i].status \in {"undecided"}) /\ Config[p].early
                              \/ (\E i \in {j \in Slot : taps[j].pos = p} : taps[i].status \in {"tap"}) /\ Config[p].early /\ Config[p].linger
                           THEN 1 ELSE 0
    BY DEF BindingsFollowDecisions
  <2>1. Types /\ BalanceInv /\ (Config[p].early => ~Config[p].linger)
    BY DEF TimesInv, LinesInv, CallsInv, OwnedInv, BindingsInv, SlowInv
  <2>2. NoPressed(agenda)
    BY DEF Idle, NoPressed, ToSet
  <2>3. Pressing(Tap(p)) = Owes(taps, agenda, held, Tap(p)) /\ Pressing(Hold(p)) = Owes(taps, agenda, held, Hold(p))
    BY <2>1, PressingIs
  <2>4. /\ Tap(p).as = "tap" /\ Tap(p).of = p
        /\ Hold(p).as = "hold" /\ Hold(p).of = p
    BY DEF Tap, Hold
  <2>5. Owes(taps, agenda, held, Tap(p)) = IF OnTap(taps, p) THEN 1 ELSE 0
    BY <2>4 DEF Owes
  <2>6. Owes(taps, agenda, held, Hold(p)) = IF OnHold(taps, agenda, p) THEN 1 ELSE 0
    BY <2>4 DEF Owes
  <2>7. OnTap(taps, p) <=> \E i \in {j \in Slot : taps[j].pos = p} : taps[i].status \in {"tap"}
    BY DEF OnTap
  <2>8. OnHold(taps, agenda, p) <=>
           \/ \E i \in {j \in Slot : taps[j].pos = p} : taps[i].status \in {"holdInterrupt"}
           \/ /\ \E i \in {j \in Slot : taps[j].pos = p} : taps[i].status \in {"holdTimer"}
              /\ (Config[p].early \/ ~Config[p].retro)
           \/ (\E i \in {j \in Slot : taps[j].pos = p} : taps[i].status \in {"undecided"}) /\ Config[p].early
    BY <2>2 DEF OnHold, Holding
  <2> QED
    BY <2>1, <2>3, <2>5, <2>6, <2>7, <2>8
<1>2. Spec => []TimesInv
  BY TimesHold
<1>3. Spec => []BindingsInv
  BY BindingsHold
<1> QED
  BY <1>1, <1>2, <1>3, PTL

\* Once every key is up nothing is left of them, on any calm, plain, punctual and steady
\* keyboard: no hold-tap active or undecided, no event captured, and no binding still
\* pressed, unless an event was lost to a full array.
THEOREM NothingIsLeftStuck ==
  ASSUME Calm, Plain, Punctual, Steady
  PROVE  Spec => []NothingStuck
<1>1. TimesInv /\ BindingsInv /\ CapturedHasOwner /\ UndecidedIsTimed => NothingStuck
  <2> SUFFICES ASSUME TimesInv, BindingsInv, CapturedHasOwner, UndecidedIsTimed, Idle, held = {}, ~overflow
               PROVE  /\ undecided = None /\ \A i \in Slot : taps[i] = Unused
                      /\ \A j \in Place : captured[j] = Free
                      /\ \A b \in Binding : hid[b] = 0
    BY DEF NothingStuck
  <2>1. Types /\ LineInv /\ TimeInv /\ BalanceInv /\ build \in Builds
    BY DEF TimesInv, LinesInv, CallsInv, OwnedInv, BindingsInv, Types
  <2>2. undecided = None
    BY DEF UndecidedIsTimed
  <2>3. \A j \in Place : captured[j] = Free
    BY <2>2 DEF CapturedHasOwner
  <2>4. DOMAIN agenda = {} /\ DOMAIN captured = Place /\ DOMAIN taps = Slot
    BY <2>1 DEF Idle, Types
  <2>5. ASSUME NEW i \in Slot, taps[i].pos # NoKey PROVE FALSE
    <3> DEFINE ks == Keys(taps)
               q == taps[i].pos
    <3>1. i \in DOMAIN ks /\ ks[i] = q /\ q # NoKey /\ ~Ends(agenda, i)
      BY <2>4, <2>5 DEF Keys, Ends
    <3>2. EventsInv(Events(agenda, captured), held, serial, seen, ActiveKeys(agenda, ks))
      BY <2>1 DEF LineInv, Going
    <3> HIDE DEF ks, q
    <3>3. q \in ActiveKeys(agenda, ks)
      BY <3>1, ActiveAre
    <3>4. PICK z \in Events(agenda, captured) : z.pos = q
      BY <3>2, <3>3 DEF EventsInv, Follows
    <3>5. PICK j \in DOMAIN captured : Counts(captured[j])
      BY <2>4, <3>4, EventsAre
    <3> QED
      BY <2>3, <2>4, <3>5 DEF Counts, Event, Free
  <2>6. \A i \in Slot : taps[i] = Unused
    BY <2>1, <2>5 DEF TimeInv, Timed, SlotsOK, SlotOK
  <2>7. ASSUME NEW b \in Binding PROVE hid[b] = 0
    <3>1. b.of # NoKey
      BY <2>1, HoldTapsAre DEF Binding
    <3>2. Owes(taps, agenda, held, b) = 0
      BY <2>5, <3>1 DEF Owes, OnTap, OnHold
    <3>3. Net(agenda, b) = 0
      BY NetNone DEF Idle
    <3>4. Net(captured, b) = 0
      <4>1. \A j \in DOMAIN captured : Worth(captured[j], b) = 0
        BY <2>3, <2>4, NoWorth DEF Free
      <4>2. Spots(captured, b, 1) = {} /\ Spots(captured, b, -1) = {}
        BY <4>1 DEF Spots
      <4>3. Cardinality(Spots(captured, b, 1)) = 0
        BY <4>2, FS_EmptySet
      <4>4. Cardinality(Spots(captured, b, -1)) = 0
        BY <4>2, FS_EmptySet
      <4> QED
        BY <4>3, <4>4 DEF Net
    <3> QED
      BY <2>1, <3>2, <3>3, <3>4 DEF BalanceInv, Balance
  <2> QED
    BY <2>2, <2>3, <2>6, <2>7
<1>2. Spec => []TimesInv
  BY TimesHold
<1>3. Spec => []BindingsInv
  BY BindingsHold
<1>4. Spec => []CapturedHasOwner
  BY NothingStaysCaptured
<1>5. Spec => []UndecidedIsTimed
  BY UndecidedEnds
<1> QED
  BY <1>1, <1>2, <1>3, <1>4, <1>5, PTL

=============================================================================
