----------------------------- MODULE EditorsProofs -----------------------------
(***************************************************************************)
(* Proofs about the forms: what a form shows, what it sends and what it     *)
(* drafts, for any fields, values and places, any number of calls under way *)
(* and of events.                                                           *)
(***************************************************************************)
EXTENDS Editors, FiniteSetTheorems, SequenceTheorems, WellFoundedInduction, TLAPS

\* A call under way; what an operation sends; what nobody else sends.
OpShape(c) ==
    /\ DOMAIN c = {"at", "served", "place", "sends", "mine", "sure"}
    /\ (\E S : c.sends \in Seq(S)) /\ Len(c.sends) >= 1
    /\ form \notin OneByOne => Len(c.sends) = 1

CallShape(c) ==
    /\ {"at", "served"} \subseteq DOMAIN c
    /\ c.at \in {"op", "state", "features", "parse"} /\ c.served \in BOOLEAN
    /\ c.at = "op" => OpShape(c)
    /\ c.at = "parse" => form = "macro"

Calls ==
    /\ calls = [l \in Lane |-> calls[l]]
    /\ \A l \in Lane : calls[l] = Free \/ CallShape(calls[l])
    /\ \A l, m \in Lane : calls[l].at = "op" /\ calls[m].at = "op" => l = m

\* Each reply belongs to a call that waits for it.
Replies ==
    /\ \E S : replies \in Seq(S)
    /\ \A k \in 1 .. Len(replies) :
          /\ replies[k].to \in Lane
          /\ calls[replies[k].to] # Free /\ calls[replies[k].to].served
          /\ \A j \in 1 .. Len(replies) : replies[j].to = replies[k].to => j = k

\* The drafts and the ghost have the cards of the form, the drafts its fields.
DraftShape ==
    /\ form \in Forms
    /\ drafts = [c \in Card |-> [f \in Field |-> drafts[c][f]]]
    /\ touched = [c \in Card |-> touched[c]]

\* An untouched field of a draft is that of the document.
DraftsFollow == \A c \in Card : \A f \in Field \ touched[c] : drafts[c][f] = Seed(doc[place][c])[f]

\* A field that is sent was touched, or is what the keyboard holds.
Held(v) == IF v = None THEN FirstBinding ELSE v
SendsInv(c) ==
    c.at = "op" => \A i \in 1 .. Len(c.sends) : \A x \in DOMAIN c.sends[i] : \A f \in DOMAIN c.sends[i][x] :
        \/ f \in c.mine[x]
        \/ /\ form \notin OneByOne /\ f \in Field
           /\ c.sure /\ ~c.served => c.sends[i][x][f] = Held(dev[c.place][x][f])

\* The document that a form opens on will be read, or was lost, or a reply brings it, the
\* last one of them as the keyboard has it, or it is there.
Read == IF form = "key" THEN "state" ELSE "features"
Reads(c) ==
    \/ c.at = "op"
    \/ c.at = "state" /\ form # "key"
    \/ c.at = Read /\ ~c.served
Brings(c) == c.at = Read /\ c.served
Bringing == {k \in 1 .. Len(replies) : Brings(calls[replies[k].to])}

DocInv ==
    \/ \E l \in Lane : Reads(calls[l])
    \/ missed
    \/ \E k \in Bringing : ~replies[k].ok
    \/ \E k \in Bringing : replies[k].doc = dev /\ \A j \in Bringing : j <= k
    \/ Bringing = {} /\ doc = dev

EditorsInv ==
    /\ Calls /\ Replies /\ DraftShape
    /\ DraftsFollow
    /\ \A l \in Lane : SendsInv(calls[l])
    /\ DocInv

-----------------------------------------------------------------------------
(* The wires. *)

LEMMA FreeIsNone == \A c : CallShape(c) => c # Free
  BY DEF CallShape, Free

LEMMA NotCalled == Free.at = "free" /\ ~Reads(Free) /\ ~Brings(Free)
  BY DEF Free, Reads, Brings, Read

\* What a reply adds.
LEMMA Replied ==
  ASSUME Calls, Replies, NEW l \in Lane, NEW what, "free" \notin what, Asked(l, what),
         NEW ok, NEW d, Reply(l, ok, d)
  PROVE  LET n == Len(replies) + 1
             c == [calls[l] EXCEPT !.served = TRUE]
         IN  /\ Len(replies) \in Nat /\ Len(replies') = n
             /\ \A k \in 1 .. Len(replies) :
                   /\ replies'[k] = replies[k] /\ replies[k].to \in Lane \ {l}
                   /\ calls'[replies[k].to] = calls[replies[k].to]
             /\ replies'[n].to = l /\ replies'[n].ok = ok /\ replies'[n].doc = d
             /\ calls[l].at \in what /\ calls[l].served = FALSE /\ CallShape(calls[l])
             /\ calls'[l] = c /\ CallShape(c) /\ c.at = calls[l].at /\ c.served = TRUE
             /\ \A m \in Lane \ {l} : calls'[m] = calls[m]
             /\ form' = form => Calls' /\ Replies'
<1> DEFINE r == [to |-> l, ok |-> ok, doc |-> d]
           n == Len(replies) + 1
           c == [calls[l] EXCEPT !.served = TRUE]
<1>1. calls[l].at \in what /\ calls[l].served = FALSE /\ CallShape(calls[l])
  BY DEF Calls, CallShape, Asked, Free
<1>2. calls' = [calls EXCEPT ![l] = c] /\ replies' = Append(replies, r)
  BY DEF Reply
<1>3. c.at = calls[l].at /\ c.served = TRUE /\ CallShape(c)
  <2>1. c.at = calls[l].at /\ c.served = TRUE /\ DOMAIN c = DOMAIN calls[l]
    BY <1>1 DEF CallShape
  <2>2. c.at = "op" => c.sends = calls[l].sends
    BY <1>1, <2>1 DEF CallShape, OpShape
  <2> HIDE DEF c
  <2> QED
    BY <1>1, <2>1, <2>2 DEF CallShape, OpShape
<1>4. calls'[l] = c /\ (\A m \in Lane \ {l} : calls'[m] = calls[m]) /\ calls' = [m \in Lane |-> calls'[m]]
  BY <1>2 DEF Calls
<1>5. PICK S : replies \in Seq(S)
  BY DEF Replies
<1>6. /\ Len(replies) \in Nat /\ Len(replies') = n
      /\ replies' \in Seq(S \cup {r})
      /\ \A k \in 1 .. Len(replies) : replies'[k] = replies[k]
      /\ replies'[n] = r
  BY <1>2, <1>5
<1>7. \A k \in 1 .. Len(replies) : replies[k].to \in Lane \ {l}
  BY <1>1 DEF Replies
<1> HIDE DEF c
<1>8. ASSUME form' = form PROVE Calls'
  <2>1. \A m \in Lane : calls'[m].at = calls[m].at
    BY <1>3, <1>4
  <2>2. \A m \in Lane : calls'[m] = Free \/ CallShape(calls'[m])
    BY <1>3, <1>4 DEF Calls
  <2>3. \A x : CallShape(x)' <=> CallShape(x)
    BY <1>8 DEF CallShape, OpShape
  <2>4. \A m \in Lane : calls'[m] = Free \/ CallShape(calls[m])'
    BY <1>8, <2>2 DEF CallShape, OpShape
  <2> QED
    BY <1>4, <2>1, <2>4 DEF Calls
<1>9. Replies'
  <2>1. ASSUME NEW k \in 1 .. n
        PROVE  /\ replies'[k].to \in Lane
               /\ calls'[replies'[k].to] # Free /\ calls'[replies'[k].to].served
               /\ \A j \in 1 .. n : replies'[j].to = replies'[k].to => j = k
    <3>1. CASE k = n
      BY <1>3, <1>4, <1>6, <1>7, <3>1, FreeIsNone
    <3>2. CASE k \in 1 .. Len(replies)
      BY <1>4, <1>6, <1>7, <3>2 DEF Replies
    <3> QED
      BY <1>6, <3>1, <3>2
  <2> QED
    BY <1>6, <2>1 DEF Replies
<1>10. \A k \in 1 .. Len(replies) : calls'[replies[k].to] = calls[replies[k].to]
  BY <1>4, <1>7
<1> QED
  BY <1>1, <1>3, <1>4, <1>6, <1>7, <1>8, <1>9, <1>10 DEF c

\* What the first reply leaves when it arrives.
LEMMA Resumed ==
  ASSUME Calls, Replies, 1 \in DOMAIN replies, Take(1), NEW c, GoOn(replies[1].to, c)
  PROVE  LET l == replies[1].to
         IN  /\ l \in Lane /\ CallShape(calls[l]) /\ calls[l].served = TRUE
             /\ calls'[l] = c
             /\ \A m \in Lane \ {l} : calls'[m] = calls[m]
             /\ Len(replies) \in Nat /\ 1 \in 1 .. Len(replies) /\ Len(replies') = Len(replies) - 1
             /\ \A j \in 1 .. Len(replies') :
                   /\ j + 1 \in 1 .. Len(replies) /\ replies'[j] = replies[j + 1]
                   /\ replies[j + 1].to \in Lane \ {l}
                   /\ calls'[replies[j + 1].to] = calls[replies[j + 1].to]
             /\ form' = form /\ (c = Free \/ (CallShape(c) /\ (c.at = "op" => calls[l].at = "op")))
                => Calls' /\ Replies'
<1> DEFINE l == replies[1].to
<1>1. PICK S : replies \in Seq(S)
  BY DEF Replies
<1>2. 1 \in 1 .. Len(replies) /\ Len(replies) \in Nat
  BY <1>1
<1>3. l \in Lane /\ CallShape(calls[l]) /\ calls[l].served = TRUE
  BY <1>2 DEF Replies, Calls, CallShape
<1>4. calls'[l] = c /\ (\A m \in Lane \ {l} : calls'[m] = calls[m]) /\ calls' = [m \in Lane |-> calls'[m]]
  BY <1>3 DEF Calls, GoOn
<1>5. replies' = Tail(replies)
  <2> DEFINE a == SubSeq(replies, 1, 0)
             b == SubSeq(replies, 2, Len(replies))
  <2>1. RemoveAt(replies, 1) = a \o b
    BY DEF RemoveAt
  <2>2. a = <<>> /\ b = Tail(replies) /\ b \in Seq(S)
    BY <1>1, <1>2
  <2> HIDE DEF a, b
  <2>3. a \o b = b
    BY <2>2, ConcatEmptySeq
  <2> QED
    BY <2>1, <2>2, <2>3 DEF Take
<1>6. /\ replies' \in Seq(S) /\ Len(replies') = Len(replies) - 1
      /\ \A j \in 1 .. Len(replies') : j + 1 \in 1 .. Len(replies) /\ replies'[j] = replies[j + 1]
  BY <1>1, <1>2, <1>5
<1>7. \A j \in 1 .. Len(replies') : replies[j + 1].to \in Lane \ {l}
  <2> SUFFICES ASSUME NEW j \in 1 .. Len(replies') PROVE replies[j + 1].to \in Lane \ {l}
    OBVIOUS
  <2>1. j + 1 \in 1 .. Len(replies) /\ j + 1 # 1
    BY <1>6
  <2> QED
    BY <1>2, <2>1 DEF Replies
<1>8. \A j \in 1 .. Len(replies') : calls'[replies[j + 1].to] = calls[replies[j + 1].to]
  BY <1>4, <1>7
<1>9. ASSUME form' = form, c = Free \/ (CallShape(c) /\ (c.at = "op" => calls[l].at = "op"))
      PROVE  Calls' /\ Replies'
  <2>1. \A m \in Lane : calls'[m].at = "op" => calls[m].at = "op"
    BY <1>4, <1>9, NotCalled
  <2>2. \A m \in Lane : calls'[m] = Free \/ CallShape(calls'[m])
    BY <1>4, <1>9 DEF Calls
  <2>3. \A m \in Lane : calls'[m] = Free \/ CallShape(calls[m])'
    BY <1>9, <2>2 DEF CallShape, OpShape
  <2>4. Calls'
    BY <1>4, <2>1, <2>3 DEF Calls
  <2>5. ASSUME NEW j \in 1 .. Len(replies')
        PROVE  /\ replies'[j].to \in Lane
               /\ calls'[replies'[j].to] # Free /\ calls'[replies'[j].to].served
    BY <1>6, <1>7, <1>8 DEF Replies
  <2>6. ASSUME NEW j \in 1 .. Len(replies'), NEW i \in 1 .. Len(replies'), replies'[i].to = replies'[j].to
        PROVE  i = j
    <3>0. /\ i + 1 \in 1 .. Len(replies) /\ j + 1 \in 1 .. Len(replies)
          /\ replies[i + 1].to = replies[j + 1].to
      BY <1>6, <2>6
    <3>1. i + 1 = j + 1
      BY <3>0 DEF Replies
    <3> QED
      BY <1>6, <3>1
  <2>7. Replies'
    BY <1>6, <2>5, <2>6 DEF Replies
  <2> QED
    BY <2>4, <2>7
<1> QED
  BY <1>2, <1>3, <1>4, <1>6, <1>7, <1>8, <1>9

\* What a call that starts adds.
LEMMA Started ==
  ASSUME Calls, Replies, NEW c, CallShape(c), c.at = "op" => ~Busy, Start(c), UNCHANGED <<replies, form>>
  PROVE  \E l \in Lane :
             /\ calls[l] = Free /\ calls'[l] = c
             /\ \A m \in Lane \ {l} : calls'[m] = calls[m]
             /\ \A k \in 1 .. Len(replies) : replies[k].to \in Lane /\ calls'[replies[k].to] = calls[replies[k].to]
             /\ Calls' /\ Replies'
<1>1. PICK l \in Lane : calls[l] = Free /\ calls' = [calls EXCEPT ![l] = c]
  BY DEF Start, UnderWay
<1>2. calls'[l] = c /\ (\A m \in Lane \ {l} : calls'[m] = calls[m]) /\ calls' = [m \in Lane |-> calls'[m]]
  BY <1>1 DEF Calls
<1>3. \A k \in 1 .. Len(replies) : replies[k].to \in Lane /\ calls'[replies[k].to] = calls[replies[k].to]
  BY <1>1, <1>2 DEF Replies
<1>4. \A m \in Lane : calls'[m] = Free \/ CallShape(calls[m])'
  <2>1. \A m \in Lane : calls'[m] = Free \/ CallShape(calls'[m])
    BY <1>2 DEF Calls
  <2> QED
    BY <2>1 DEF CallShape, OpShape
<1>5. \A m, n \in Lane : calls'[m].at = "op" /\ calls'[n].at = "op" => m = n
  BY <1>2 DEF Calls, Busy
<1>6. Calls'
  BY <1>2, <1>4, <1>5 DEF Calls
<1>7. Replies'
  BY <1>3 DEF Replies
<1> QED
  BY <1>1, <1>2, <1>3, <1>6, <1>7

-----------------------------------------------------------------------------
(* The document of the form is fresh. *)

\* A call that starts hides nothing that would be read, and makes up for what it forgives.
LEMMA StartDoc ==
  ASSUME EditorsInv, NEW c, CallShape(c), c.at = "op" => ~Busy, Start(c), UNCHANGED <<replies, form, dev, doc>>,
         missed' = missed \/ Reads(c)
  PROVE  DocInv'
<1>1. PICK l \in Lane :
         /\ calls[l] = Free /\ calls'[l] = c
         /\ \A m \in Lane \ {l} : calls'[m] = calls[m]
         /\ \A k \in 1 .. Len(replies) : replies[k].to \in Lane /\ calls'[replies[k].to] = calls[replies[k].to]
         /\ Calls' /\ Replies'
  BY Started DEF EditorsInv
<1>2. \A x : (Reads(x)' <=> Reads(x)) /\ (Brings(x)' <=> Brings(x))
  BY DEF Reads, Brings, Read
<1>3. Bringing' = Bringing
  <2>1. \A k \in 1 .. Len(replies) : Brings(calls[replies[k].to])' <=> Brings(calls[replies[k].to])
    BY <1>1 DEF Brings, Read
  <2> QED
    BY <2>1 DEF Bringing
<1>4. \A m \in Lane : Reads(calls[m]) => Reads(calls'[m])
  BY <1>1, NotCalled
<1>5. CASE Reads(c)
  <2>1. Reads(calls[l])'
    BY <1>1, <1>5 DEF Reads, Read
  <2> QED
    BY <2>1 DEF DocInv
<1>6. CASE ~Reads(c)
  <2>1. missed' = missed
    BY <1>6
  <2>2. ASSUME NEW m \in Lane, Reads(calls[m]) PROVE Reads(calls[m])'
    BY <1>4, <2>2 DEF Reads, Read
  <2> QED
    BY <1>3, <2>1, <2>2 DEF EditorsInv, DocInv
<1> QED
  BY <1>5, <1>6

\* A call that is served: it will still have the document read, or its reply brings it, or
\* it has nothing to do with it.
LEMMA ServeDoc ==
  ASSUME EditorsInv, NEW l \in Lane, NEW what, "free" \notin what, Asked(l, what),
         NEW ok, NEW d, Reply(l, ok, d), UNCHANGED <<form, doc, missed>>,
         calls[l].at = "op" \/ (dev' = dev /\ (ok => d = dev \/ calls[l].at = "parse"))
  PROVE  DocInv'
<1> DEFINE n == Len(replies) + 1
           c == [calls[l] EXCEPT !.served = TRUE]
<1>1. /\ Len(replies) \in Nat /\ Len(replies') = n
      /\ \A k \in 1 .. Len(replies) :
            /\ replies'[k] = replies[k] /\ replies[k].to \in Lane \ {l}
            /\ calls'[replies[k].to] = calls[replies[k].to]
      /\ replies'[n].to = l /\ replies'[n].ok = ok /\ replies'[n].doc = d
      /\ calls[l].at \in what /\ calls[l].served = FALSE /\ CallShape(calls[l])
      /\ calls'[l] = c /\ CallShape(c) /\ c.at = calls[l].at /\ c.served = TRUE
      /\ \A m \in Lane \ {l} : calls'[m] = calls[m]
  BY Replied DEF EditorsInv
<1> HIDE DEF c
<1>2. \A k \in 1 .. Len(replies) : k \in Bringing' <=> k \in Bringing
  BY <1>1 DEF Bringing, Brings, Read
<1>3. Bringing' \subseteq 1 .. n /\ (n \in Bringing' <=> Brings(c)) /\ Bringing \subseteq 1 .. Len(replies)
  BY <1>1 DEF Bringing, Brings, Read
<1>4. CASE Reads(c)
  <2>1. Reads(calls[l])'
    BY <1>1, <1>4 DEF Reads, Read
  <2> QED
    BY <2>1 DEF DocInv
<1>5. CASE ~Reads(c) /\ Brings(c)
  <2>1. n \in Bringing' /\ \A j \in Bringing' : j <= n
    BY <1>1, <1>3, <1>5
  <2>2. dev' = dev /\ (ok => d = dev)
    BY <1>1, <1>5 DEF Reads, Brings, Read
  <2>3. CASE ok
    BY <1>1, <2>1, <2>2, <2>3 DEF DocInv
  <2>4. CASE ~ok
    BY <1>1, <2>1, <2>4 DEF DocInv
  <2> QED
    BY <2>3, <2>4
<1>6. CASE ~Reads(c) /\ ~Brings(c)
  <2>0. \A k \in Bringing' : k \in 1 .. Len(replies)
    BY <1>1, <1>3, <1>6
  <2>1. Bringing' = Bringing
    BY <1>2, <1>3, <2>0
  <2>2. dev' = dev
    BY <1>1, <1>6 DEF Reads
  <2>3. ~Reads(calls[l])
    BY <1>1, <1>6 DEF Reads, Brings, Read
  <2>4. ASSUME NEW m \in Lane, Reads(calls[m]) PROVE Reads(calls[m])'
    BY <1>1, <2>3, <2>4 DEF Reads, Read
  <2>5. \A k \in Bringing : replies'[k] = replies[k]
    BY <1>1, <1>3
  <2> QED
    BY <2>1, <2>2, <2>4, <2>5 DEF EditorsInv, DocInv
<1> QED
  BY <1>4, <1>5, <1>6

\* A call that goes on with the first reply: what it would have read it still reads, or has
\* lost; what the reply brings is the document; nothing else changes it.
LEMMA ResumeDoc ==
  ASSUME EditorsInv, 1 \in DOMAIN replies, Take(1), NEW c, GoOn(replies[1].to, c),
         UNCHANGED <<form, dev>>, missed => missed',
         Reads(calls[replies[1].to]) => Reads(c) \/ missed',
         Brings(calls[replies[1].to]) => missed' \/ Reads(c) \/ (replies[1].ok /\ doc' = replies[1].doc),
         ~Brings(calls[replies[1].to]) => missed' \/ Reads(c) \/ doc' = doc
  PROVE  DocInv'
<1> DEFINE l == replies[1].to
<1>1. /\ l \in Lane /\ calls'[l] = c
      /\ \A m \in Lane \ {l} : calls'[m] = calls[m]
      /\ Len(replies) \in Nat /\ 1 \in 1 .. Len(replies) /\ Len(replies') = Len(replies) - 1
      /\ \A j \in 1 .. Len(replies') :
            /\ j + 1 \in 1 .. Len(replies) /\ replies'[j] = replies[j + 1]
            /\ calls'[replies[j + 1].to] = calls[replies[j + 1].to]
  BY Resumed DEF EditorsInv
<1>2. \A j \in 1 .. Len(replies') : j \in Bringing' <=> j + 1 \in Bringing
  BY <1>1 DEF Bringing, Brings, Read
<1>3. /\ Bringing \subseteq 1 .. Len(replies) /\ Bringing' \subseteq 1 .. Len(replies')
      /\ 1 \in Bringing <=> Brings(calls[l])
  BY <1>1 DEF Bringing
<1>4. \A k \in Bringing : k # 1 => k - 1 \in Bringing' /\ replies'[k - 1] = replies[k]
  <2> SUFFICES ASSUME NEW k \in Bringing, k # 1 PROVE k - 1 \in Bringing' /\ replies'[k - 1] = replies[k]
    OBVIOUS
  <2>1. k - 1 \in 1 .. Len(replies') /\ (k - 1) + 1 = k
    BY <1>1, <1>3
  <2> QED
    BY <1>1, <1>2, <2>1
<1>5. CASE missed'
  BY <1>5 DEF DocInv
<1>6. CASE Reads(c)
  <2>1. PICK m \in Lane : calls'[m] = c
    BY <1>1
  <2>2. Reads(calls[m])'
    BY <1>6, <2>1 DEF Reads, Read
  <2> QED
    BY <2>2 DEF DocInv
<1>7. CASE ~missed' /\ ~Reads(c)
  <2>1. ~missed /\ ~Reads(calls[l])
    BY <1>7
  <2>2. ASSUME NEW m \in Lane, Reads(calls[m]) PROVE DocInv'
    <3>1. Reads(calls[m])'
      BY <1>1, <2>1, <2>2 DEF Reads, Read
    <3> QED
      BY <3>1 DEF DocInv
  <2>3. ASSUME NEW k \in Bringing, ~replies[k].ok PROVE DocInv'
    <3>1. k # 1
      BY <1>3, <1>7, <2>3
    <3> QED
      BY <1>4, <2>3, <3>1 DEF DocInv
  <2>4. ASSUME NEW k \in Bringing, replies[k].doc = dev, \A j \in Bringing : j <= k PROVE DocInv'
    <3>1. CASE k = 1
      <4>1. Bringing' = {}
        BY <1>1, <1>2, <1>3, <2>4, <3>1
      <4>2. doc' = dev'
        BY <1>3, <1>7, <2>4, <3>1
      <4> QED
        BY <4>1, <4>2 DEF DocInv
    <3>2. CASE k # 1
      <4>1. k - 1 \in Bringing' /\ replies'[k - 1].doc = dev'
        BY <1>4, <2>4, <3>2
      <4>2. \A j \in Bringing' : j <= k - 1
        BY <1>1, <1>2, <1>3, <2>4
      <4> QED
        BY <4>1, <4>2 DEF DocInv
    <3> QED
      BY <3>1, <3>2
  <2>5. ASSUME Bringing = {}, doc = dev PROVE DocInv'
    <3>1. Bringing' = {}
      BY <1>2, <1>3, <2>5
    <3>2. doc' = dev'
      BY <1>3, <1>7, <2>5
    <3> QED
      BY <3>1, <3>2 DEF DocInv
  <2> QED
    BY <2>1, <2>2, <2>3, <2>4, <2>5 DEF EditorsInv, DocInv
<1> QED
  BY <1>5, <1>6, <1>7

-----------------------------------------------------------------------------
(* What the user does. *)

\* The fields a form takes one by one are its own, each one that was changed.
LEMMA Places ==
  ASSUME NEW N \in Nat, NEW kept \in SUBSET (1 .. N), NEW n \in 1 .. Cardinality(kept)
  PROVE  \E i \in kept : Cardinality({j \in kept : j <= i}) = n
<1> DEFINE upTo(i) == {j \in kept : j <= i}
           f == [i \in kept |-> Cardinality(upTo(i))]
           m == Cardinality(kept)
<1>1. IsFiniteSet(kept) /\ m \in Nat
  <2>1. IsFiniteSet(1 .. N)
    BY FS_Interval
  <2>2. IsFiniteSet(kept)
    BY <2>1, FS_Subset
  <2> QED
    BY <2>2, FS_CardinalityType
<1>2. \A i \in kept : IsFiniteSet(upTo(i)) /\ Cardinality(upTo(i)) \in Nat /\ Cardinality(upTo(i)) <= m
  BY <1>1, FS_Subset, FS_CardinalityType
<1>3. \A i \in kept : Cardinality(upTo(i)) # 0
  <2> SUFFICES ASSUME NEW i \in kept, Cardinality(upTo(i)) = 0 PROVE FALSE
    OBVIOUS
  <2>1. upTo(i) = {}
    BY <1>2, FS_EmptySet
  <2>2. i \in upTo(i)
    OBVIOUS
  <2> QED
    BY <2>1, <2>2
<1>4. ASSUME NEW i \in kept, NEW j \in kept, i < j
      PROVE  Cardinality(upTo(i)) # Cardinality(upTo(j))
  <2>0. i \in Int /\ j \in Int /\ kept \subseteq Int
    OBVIOUS
  <2>1. upTo(i) \in SUBSET upTo(j) /\ j \in upTo(j) /\ j \notin upTo(i)
    <3>1. \A x \in kept : x <= i => x <= j
      BY <1>4, <2>0
    <3>2. j <= j /\ ~(j <= i)
      BY <1>4, <2>0
    <3> QED
      BY <3>1, <3>2
  <2> HIDE DEF upTo
  <2>2. Cardinality(upTo(i)) = Cardinality(upTo(j)) => upTo(i) = upTo(j)
    BY <1>2, <2>1, FS_Subset
  <2> QED
    BY <2>1, <2>2
<1>5. \A i \in kept, j \in kept : f[i] = f[j] => i = j
  <2> SUFFICES ASSUME NEW i \in kept, NEW j \in kept, f[i] = f[j], i # j PROVE FALSE
    OBVIOUS
  <2>1. i < j \/ j < i
    OBVIOUS
  <2> QED
    BY <1>4, <2>1
<1>6. f \in [kept -> 1 .. m]
  BY <1>1, <1>2, <1>3
<1> HIDE DEF f, m
<1>7. f \in Injection(kept, 1 .. m)
  BY <1>5, <1>6 DEF Injection, IsInjective
<1>8. IsFiniteSet(1 .. m) /\ Cardinality(1 .. m) = m
  BY <1>1, FS_Interval
<1>9. f \in Surjection(kept, 1 .. m)
  BY <1>7, <1>8, FS_Injection DEF m
<1>10. PICK i \in kept : f[i] = n
  BY <1>9 DEF Surjection, m
<1> QED
  BY <1>10 DEF f

LEMMA FieldsAreSeq == form \in Forms => Fields \in Seq(Field) /\ DOMAIN Fields = 1 .. Len(Fields) /\ Len(Fields) \in Nat
<1> SUFFICES ASSUME form \in Forms PROVE \E S : Fields \in Seq(S)
  BY DEF Field, ToSet
<1>1. form \in {"key", "encoder", "combo", "holdtap", "condlayer", "macro", "trackball"}
  BY EditorsAssumption DEF EditorsAssumption
<1>2. Plain \in Seq(STRING)
  BY EditorsAssumption DEF EditorsAssumption
<1>3. CASE form = "key"
  <2>1. Fields = <<"binding">>
    BY <1>3 DEF Fields
  <2>2. Fields \in Seq({"binding"})
    BY <2>1
  <2> QED
    BY <2>2
<1>4. CASE form \in {"encoder", "combo"}
  <2>1. Fields = <<"binding", Plain[1]>>
    BY <1>4 DEF Fields
  <2>2. Fields \in Seq({"binding", Plain[1]})
    BY <2>1
  <2> QED
    BY <2>2
<1>5. CASE form = "macro"
  <2>1. Fields = <<"steps">>
    BY <1>5 DEF Fields
  <2>2. Fields \in Seq({"steps"})
    BY <2>1
  <2> QED
    BY <2>2
<1>6. CASE form \in {"holdtap", "condlayer", "trackball"}
  BY <1>2, <1>6 DEF Fields
<1> QED
  BY <1>1, <1>3, <1>4, <1>5, <1>6

LEMMA InOrderFields ==
  ASSUME form \in Forms, NEW kept
  PROVE  LET s == InOrderOf(kept) IN \E n \in Nat : DOMAIN s = 1 .. n /\ \A i \in 1 .. n : s[i] \in Field \cap kept
<1> DEFINE at == {i \in DOMAIN Fields : Fields[i] \in kept}
           nth(n) == CHOOSE i \in at : Cardinality({j \in at : j <= i}) = n
           m == Cardinality(at)
           s == InOrderOf(kept)
<1>1. Fields \in Seq(Field) /\ DOMAIN Fields = 1 .. Len(Fields) /\ Len(Fields) \in Nat
  BY FieldsAreSeq
<1>2. at \in SUBSET (1 .. Len(Fields)) /\ \A i \in at : Fields[i] \in Field \cap kept
  BY <1>1
<1>3. m \in Nat
  <2>1. IsFiniteSet(1 .. Len(Fields))
    BY <1>1, FS_Interval
  <2> HIDE DEF at
  <2>2. IsFiniteSet(at)
    BY <1>2, <2>1, FS_Subset
  <2> QED
    BY <2>2, FS_CardinalityType
<1>4. s = [n \in 1 .. m |-> Fields[nth(n)]]
  BY DEF InOrderOf
<1>5. \A n \in 1 .. m : nth(n) \in at
  <2> SUFFICES ASSUME NEW n \in 1 .. m PROVE nth(n) \in at
    OBVIOUS
  <2> HIDE DEF at
  <2>1. \E i \in at : Cardinality({j \in at : j <= i}) = n
    BY <1>1, <1>2, Places
  <2> QED
    BY <2>1
<1> HIDE DEF at, nth, m, s
<1>6. DOMAIN s = 1 .. m /\ \A i \in 1 .. m : s[i] \in Field \cap kept
  BY <1>2, <1>4, <1>5
<1> QED
  BY <1>3, <1>6 DEF s

LEMMA SureShows == EditorsInv /\ Sure => doc = dev
<1> SUFFICES ASSUME EditorsInv, Sure PROVE doc = dev
  OBVIOUS
<1>1. \A l \in Lane : calls[l] = Free
  BY DEF Sure, Quiet, UnderWay
<1>2. \A l \in Lane : ~Reads(calls[l])
  BY <1>1, NotCalled
<1>3. Bringing = {}
  BY <1>1, NotCalled DEF Bringing, EditorsInv, Replies
<1> QED
  BY <1>2, <1>3 DEF EditorsInv, DocInv, Sure

\* A step that changes the drafts alone, and one that starts a call.
FormStep ==
    /\ UNCHANGED <<form, dev, doc, missed, calls, replies>>
    /\ DraftShape' /\ DraftsFollow'

CallStep(c) ==
    /\ CallShape(c) /\ c.served = FALSE /\ SendsInv(c)
    /\ c.at = "op" => ~Busy
    /\ Start(c)
    /\ UNCHANGED <<forms, dev, replies>>
    /\ missed' = missed \/ Reads(c)

LEMMA ShowSteps == ASSUME DraftShape, NEW p, Show(p) PROVE FormStep
<1>1. UNCHANGED <<form, dev, doc, missed, calls, replies>> /\ Card' = Card /\ Field' = Field
  BY DEF Show, Card, Field, Fields
<1>2. \A c \in Card : drafts'[c] = Seed(doc[place'][c]) /\ drafts' = [x \in Card |-> Seed(doc[place'][x])]
  BY DEF Show, Seeds
<1>3. touched' = [c \in Card |-> {}]
  BY DEF Show, Untouched
<1>4. \A c \in Card : DOMAIN Seed(doc[place'][c]) = Field
  BY DEF Seed
<1>5. drafts' = [c \in Card |-> [f \in Field |-> drafts'[c][f]]]
  <2>1. \A c \in Card : drafts'[c] = [f \in Field |-> drafts'[c][f]]
    <3> SUFFICES ASSUME NEW c \in Card PROVE drafts'[c] = [f \in Field |-> drafts'[c][f]]
      OBVIOUS
    <3> DEFINE held == doc[place'][c]
    <3>1. drafts'[c] = Seed(held)
      BY <1>2
    <3> HIDE DEF held
    <3> QED
      BY <3>1 DEF Seed
  <2>2. drafts' = [c \in Card |-> drafts'[c]]
    BY DEF Show, Seeds
  <2> QED
    BY <2>1, <2>2
<1>6. DraftShape'
  BY <1>1, <1>3, <1>5 DEF DraftShape
<1>7. DraftsFollow'
  <2>1. \A held : Seed(held)' = Seed(held)
    BY <1>1 DEF Seed
  <2>2. \A c \in Card, f \in Field : drafts'[c][f] = Seed(doc'[place'][c])[f]
    BY <1>1, <1>2
  <2> QED
    BY <1>1, <2>1, <2>2 DEF DraftsFollow, Seed
<1> QED
  BY <1>1, <1>6, <1>7 DEF FormStep

LEMMA DraftSteps ==
  ASSUME DraftShape, DraftsFollow, NEW c \in Card, NEW f \in Field, NEW v, Draft(c, f, v)
  PROVE  FormStep
<1>1. /\ UNCHANGED <<form, place, dev, doc, missed, calls, replies>>
      /\ drafts' = [drafts EXCEPT ![c][f] = v]
      /\ touched' = [touched EXCEPT ![c] = @ \cup {f}]
  BY DEF Draft, drawn
<1>2. Card' = Card /\ Field' = Field
  BY <1>1 DEF Card, Field, Fields
<1>3. /\ DraftShape
      /\ DOMAIN drafts = Card /\ DOMAIN drafts[c] = Field
  BY DEF DraftShape
<1>4. /\ \A x \in Card \ {c} : drafts'[x] = drafts[x]
      /\ drafts'[c] = [drafts[c] EXCEPT ![f] = v]
      /\ DOMAIN drafts' = Card
  BY <1>1, <1>3
<1>5. /\ \A x \in Card, y \in Field : (x # c \/ y # f) => drafts'[x][y] = drafts[x][y]
      /\ DOMAIN drafts'[c] = Field
  BY <1>3, <1>4
<1>6. drafts' = [x \in Card |-> [y \in Field |-> drafts'[x][y]]]
  <2>1. \A x \in Card : drafts'[x] = [y \in Field |-> drafts'[x][y]]
    <3>1. \A x \in Card : drafts[x] = [y \in Field |-> drafts[x][y]]
      BY <1>3 DEF DraftShape
    <3> QED
      BY <1>3, <1>4, <3>1
  <2>2. drafts' = [x \in Card |-> drafts'[x]]
    BY <1>1, <1>3
  <2> QED
    BY <2>1, <2>2
<1>7. touched' = [x \in Card |-> touched'[x]] /\ f \in touched'[c] /\ \A x \in Card : touched[x] \subseteq touched'[x]
  BY <1>1, <1>3 DEF DraftShape
<1>8. DraftShape'
  BY <1>1, <1>2, <1>3, <1>6, <1>7 DEF DraftShape
<1>9. DraftsFollow'
  <2>1. \A held : Seed(held)' = Seed(held)
    BY <1>2 DEF Seed
  <2>2. ASSUME NEW x \in Card, NEW y \in Field \ touched'[x] PROVE drafts'[x][y] = Seed(doc[place][x])[y]
    <3>1. (x # c \/ y # f) /\ y \in Field \ touched[x]
      BY <1>7
    <3> QED
      BY <1>5, <3>1 DEF DraftsFollow
  <2> QED
    BY <1>1, <1>2, <2>1, <2>2 DEF DraftsFollow, Seed
<1> QED
  BY <1>1, <1>8, <1>9 DEF FormStep

LEMMA ChangeSteps ==
  ASSUME EditorsInv, NEW sends, NEW mine, Change(sends, mine),
         NEW S, sends \in Seq(S), Len(sends) >= 1, form \notin OneByOne => Len(sends) = 1,
         \A i \in 1 .. Len(sends) : \A x \in DOMAIN sends[i] : \A f \in DOMAIN sends[i][x] :
             \/ f \in mine[x]
             \/ form \notin OneByOne /\ x \in Card /\ f \in Field \ touched[x] /\ sends[i][x][f] = drafts[x][f]
  PROVE  \E c : CallStep(c)
<1> DEFINE c == [at |-> "op", served |-> FALSE, place |-> place, sends |-> sends, mine |-> mine, sure |-> Sure]
<1>1. ~Busy /\ Start(c) /\ UNCHANGED <<forms, dev, replies>> /\ missed' = missed
  BY DEF Change
<1>2. /\ c.at = "op" /\ c.served = FALSE /\ c.place = place /\ c.sends = sends /\ c.mine = mine /\ c.sure = Sure
      /\ DOMAIN c = {"at", "served", "place", "sends", "mine", "sure"}
  OBVIOUS
<1> HIDE DEF c
<1>3. CallShape(c)
  BY <1>2 DEF CallShape, OpShape
<1>4. ASSUME NEW x \in Card, NEW f \in Field \ touched[x], Sure PROVE drafts[x][f] = Held(dev[place][x][f])
  BY <1>4, SureShows DEF EditorsInv, DraftsFollow, Seed, Held
<1>5. SendsInv(c)
  BY <1>2, <1>4 DEF SendsInv
<1> QED
  BY <1>1, <1>2, <1>3, <1>5 DEF CallStep

\* The cards and fields of each form.
LEMMA FormFields ==
  ASSUME form \in Forms
  PROVE  /\ form \in {"key", "combo", "holdtap", "macro", "trackball"} => Card = {"it"}
         /\ form \in {"encoder", "condlayer"} => Card = Entry
         /\ form = "key" => Field = {"binding"}
         /\ form \in {"encoder", "combo"} => Field = {"binding", Plain[1]}
         /\ form = "macro" => Field = {"steps"}
         /\ form = "trackball" => Plain[1] \in Field
<1>1. \A x, y : ToSet(<<x>>) = {x} /\ ToSet(<<x, y>>) = {x, y}
  BY DEF ToSet
<1>2. Plain[1] \in ToSet(Plain)
  BY EditorsAssumption DEF EditorsAssumption, ToSet
<1>3. CASE form = "key"
  BY <1>1, <1>3 DEF Card, Field, Fields
<1>4. CASE form = "encoder"
  BY <1>1, <1>4 DEF Card, Field, Fields
<1>5. CASE form = "combo"
  BY <1>1, <1>5 DEF Card, Field, Fields
<1>6. CASE form = "macro"
  BY <1>1, <1>6 DEF Card, Field, Fields
<1>7. CASE form = "holdtap"
  BY <1>7 DEF Card
<1>8. CASE form = "condlayer"
  BY <1>8 DEF Card
<1>9. CASE form = "trackball"
  BY <1>2, <1>9 DEF Card, Field, Fields
<1> QED
  BY <1>3, <1>4, <1>5, <1>6, <1>7, <1>8, <1>9, EditorsAssumption DEF EditorsAssumption

\* Everything a card holds, or its changed fields one by one.
LEMMA WholeSteps ==
  ASSUME EditorsInv, NEW c \in Card, form \notin OneByOne, ApplyWhole(c)
  PROVE  \E x : CallStep(x)
<1> DEFINE sends == <<All(c, drafts[c])>>
<1>1. Change(sends, touched)
  BY DEF ApplyWhole
<1>2. sends \in Seq({All(c, drafts[c])}) /\ Len(sends) = 1 /\ sends[1] = All(c, drafts[c])
  OBVIOUS
<1>3. DOMAIN drafts[c] = Field
  BY DEF EditorsInv, DraftShape
<1>4. DOMAIN sends[1] = {c} /\ sends[1][c] = drafts[c]
  BY <1>2 DEF All
<1> HIDE DEF sends
<1>5. \A i \in 1 .. Len(sends) : \A x \in DOMAIN sends[i] : \A f \in DOMAIN sends[i][x] :
         \/ f \in touched[x]
         \/ form \notin OneByOne /\ x \in Card /\ f \in Field \ touched[x] /\ sends[i][x][f] = drafts[x][f]
  BY <1>2, <1>3, <1>4
<1> QED
  BY <1>1, <1>2, <1>5, ChangeSteps

LEMMA ChangedSteps ==
  ASSUME EditorsInv, Card = {"it"}, form \in OneByOne, ApplyChanged
  PROVE  \E x : CallStep(x)
<1> DEFINE fields == Changed("it")
           sends == [i \in DOMAIN fields |-> Set("it", fields[i], drafts["it"][fields[i]])]
<1>1. fields # <<>> /\ Change(sends, touched)
  BY DEF ApplyChanged
<1>2. PICK n \in Nat : DOMAIN fields = 1 .. n /\ \A i \in 1 .. n : fields[i] \in touched["it"]
  <2> DEFINE kept == {f \in Field : drafts["it"][f] # Seed(doc[place]["it"])[f]}
  <2>1. kept \subseteq touched["it"]
    BY DEF EditorsInv, DraftsFollow
  <2>2. fields = InOrderOf(kept)
    BY DEF Changed
  <2>3. form \in Forms
    BY DEF EditorsInv, DraftShape
  <2> HIDE DEF kept, fields
  <2>4. \E n \in Nat : DOMAIN fields = 1 .. n /\ \A i \in 1 .. n : fields[i] \in Field \cap kept
    BY <2>2, <2>3, InOrderFields
  <2> QED
    BY <2>1, <2>4
<1>3. n # 0
  <2>1. fields = [i \in DOMAIN fields |-> fields[i]]
    BY DEF Changed, InOrderOf
  <2> HIDE DEF fields
  <2>2. n = 0 => fields = <<>>
    BY <1>2, <2>1
  <2> QED
    BY <1>1, <2>2
<1> HIDE DEF fields
<1>4. /\ DOMAIN sends = 1 .. n
      /\ \A i \in 1 .. n : sends[i] = Set("it", fields[i], drafts["it"][fields[i]])
  BY <1>2
<1>5. sends \in Seq({sends[i] : i \in 1 .. n}) /\ Len(sends) = n
  BY <1>2
<1>6. \A i \in 1 .. n : DOMAIN sends[i] = {"it"} /\ DOMAIN sends[i]["it"] = {fields[i]}
  BY <1>4 DEF Set
<1> HIDE DEF sends
<1>7. \A i \in 1 .. Len(sends) : \A x \in DOMAIN sends[i] : \A f \in DOMAIN sends[i][x] : f \in touched[x]
  BY <1>2, <1>5, <1>6
<1>8. Len(sends) >= 1
  BY <1>3, <1>5
<1> QED
  BY <1>1, <1>5, <1>7, <1>8, ChangeSteps

\* One request for fields that count as touched.
LEMMA MineSteps ==
  ASSUME EditorsInv, NEW set, NEW mine, Change(<<set>>, mine),
         \A x \in DOMAIN set : DOMAIN set[x] \subseteq mine[x]
  PROVE  \E x : CallStep(x)
<1> DEFINE sends == <<set>>
<1>1. sends \in Seq({set}) /\ Len(sends) = 1 /\ sends[1] = set
  OBVIOUS
<1>2. Change(sends, mine)
  OBVIOUS
<1> HIDE DEF sends
<1> QED
  BY <1>1, <1>2, ChangeSteps

LEMMA ResetSteps ==
  ASSUME EditorsInv, NEW these \in SUBSET Card, ToDevicetree(these)
  PROVE  \E x : CallStep(x)
<1> DEFINE set == [x \in these |-> Devicetree]
           mine == [x \in Card |-> Field]
<1>1. Change(<<set>>, mine)
  BY DEF ToDevicetree
<1>2. \A x \in DOMAIN set : DOMAIN set[x] \subseteq mine[x]
  BY DEF Devicetree
<1> HIDE DEF set, mine
<1> QED
  BY <1>1, <1>2, MineSteps

LEMMA OneFieldSteps ==
  ASSUME EditorsInv, Card = {"it"}, NEW set, NEW f, DOMAIN set = {"it"}, DOMAIN set["it"] = {f},
         Change(<<set>>, Mine("it", {f}))
  PROVE  \E x : CallStep(x)
<1>1. Mine("it", {f})["it"] = {f}
  BY DEF Mine, Untouched
<1> QED
  BY <1>1, MineSteps

LEMMA UserSteps ==
  ASSUME EditorsInv, User
  PROVE  FormStep \/ \E c : CallStep(c)
<1> DEFINE Goal == FormStep \/ \E c : CallStep(c)
<1>1. form \in Forms
  BY DEF EditorsInv, DraftShape
<1>2. /\ form \in {"key", "combo", "holdtap", "macro", "trackball"} => Card = {"it"}
      /\ form = "key" => Field = {"binding"}
      /\ form \in {"encoder", "combo"} => Field = {"binding", Plain[1]}
      /\ form = "macro" => Field = {"steps"}
      /\ form = "trackball" => Plain[1] \in Field
  BY <1>1, FormFields
<1>3. ASSUME NEW p, Show(p) PROVE Goal
  BY <1>3, ShowSteps DEF EditorsInv
<1>4. ASSUME NEW c \in Card, NEW f \in Field, NEW v, Draft(c, f, v) PROVE Goal
  BY <1>4, DraftSteps DEF EditorsInv
<1>5. ASSUME NEW c \in Card, EditBinding(c), "binding" \in Field PROVE Goal
  BY <1>4, <1>5 DEF EditBinding
<1>6. ASSUME NEW c \in Card, NEW f \in Field, SetField(c, f) PROVE Goal
  BY <1>4, <1>6 DEF SetField
<1>7. ASSUME NEW c \in Card, form \notin OneByOne, ApplyWhole(c) PROVE Goal
  BY <1>7, WholeSteps
<1>8. ASSUME form \in {"combo", "holdtap", "trackball"}, ApplyChanged PROVE Goal
  BY <1>2, <1>8, ChangedSteps DEF OneByOne
<1>9. ASSUME NEW these \in SUBSET Card, ToDevicetree(these) PROVE Goal
  BY <1>9, ResetSteps
<1>10. ASSUME Card = {"it"}, NEW set, NEW f, DOMAIN set = {"it"}, DOMAIN set["it"] = {f},
              Change(<<set>>, Mine("it", {f}))
       PROVE  Goal
  BY <1>10, OneFieldSteps
<1> SUFFICES Goal
  OBVIOUS
<1> HIDE DEF Goal
<1>11. ASSUME NEW p \in Place, SelectInInspector(p) \/ SelectSensor(p) \/ SelectSlot(p) \/ SelectProcessor(p)
       PROVE  Goal
  BY <1>3, <1>11 DEF SelectInInspector, SelectSensor, SelectSlot, SelectProcessor
<1>12. ASSUME NEW c \in Card, EditDirection(c) \/ EditCondlayer(c)
       PROVE  Goal
  BY <1>2, <1>5, <1>6, <1>12 DEF EditDirection, EditCondlayer
<1>13. ASSUME NEW c \in Card, ApplyDirection(c) \/ ApplyCondlayer(c)
       PROVE  Goal
  BY <1>7, <1>13 DEF ApplyDirection, ApplyCondlayer, OneByOne
<1>14. CASE \/ \E c \in Card : ResetCondlayer(c)
            \/ ResetEncoder \/ ResetCombo \/ ResetHoldtap \/ ResetTrackball
  BY <1>9, <1>14 DEF ResetCondlayer, ResetEncoder, ResetCombo, ResetHoldtap, ResetTrackball
<1>15. CASE EditKey \/ EditCombo \/ EditHoldtap \/ TypeNumber
  BY <1>2, <1>5, <1>6, <1>15 DEF EditKey, EditCombo, EditHoldtap, TypeNumber
<1>16. CASE ApplyKey \/ ApplyMacro
  BY <1>2, <1>7, <1>16 DEF ApplyKey, ApplyMacro, OneByOne
<1>17. CASE ApplyCombo \/ ApplyHoldtap \/ LeaveNumber
  BY <1>8, <1>17 DEF ApplyCombo, ApplyHoldtap, LeaveNumber
<1>18. ASSUME NEW f \in Field, NEW v \in Value, Choose1(f, v) PROVE Goal
  <2>1. DOMAIN Set("it", f, v) = {"it"} /\ DOMAIN Set("it", f, v)["it"] = {f}
    BY DEF Set
  <2> QED
    BY <1>2, <1>10, <1>18, <2>1 DEF Choose1
<1>19. ASSUME NEW b \in Transparent, MakeTransparent(b) PROVE Goal
  <2> DEFINE set == Set("it", "binding", Binding(b, 0, 0))
  <2>1. DOMAIN set = {"it"} /\ DOMAIN set["it"] = {"binding"}
    BY DEF Set
  <2>2. form = "key" /\ Change(<<set>>, Mine("it", {"binding"}))
    BY <1>19 DEF MakeTransparent
  <2> HIDE DEF set
  <2> QED
    BY <1>2, <1>10, <2>1, <2>2
<1>20. CASE Clear
  <2> DEFINE set == All("it", [steps |-> <<>>])
  <2>1. DOMAIN set = {"it"} /\ DOMAIN set["it"] = {"steps"}
    BY DEF All
  <2>2. form = "macro" /\ Change(<<set>>, Mine("it", {"steps"}))
    BY <1>20 DEF Clear
  <2> HIDE DEF set
  <2> QED
    BY <1>2, <1>10, <2>1, <2>2
<1>21. CASE EditRows
  <2>1. form = "macro" /\ Card = {"it"} /\ Field = {"steps"}
    BY <1>2, <1>21 DEF EditRows
  <2>2. PICK rows : SetRows(rows)
    BY <1>21 DEF EditRows, AddRow, PatchRow, MoveRow, DeleteRow
  <2> QED
    BY <1>4, <2>1, <2>2 DEF SetRows
<1>22. ASSUME NEW rows, Parse(rows) PROVE Goal
  <2> DEFINE c == [at |-> "parse", served |-> FALSE, steps |-> rows]
  <2>1. c.at = "parse" /\ c.served = FALSE /\ {"at", "served"} \subseteq DOMAIN c
    OBVIOUS
  <2>2. form = "macro" /\ Start(c) /\ UNCHANGED <<forms, dev, missed, replies>>
    BY <1>22 DEF Parse
  <2> HIDE DEF c
  <2>3. CallStep(c)
    BY <2>1, <2>2 DEF CallStep, CallShape, SendsInv
  <2> QED
    BY <2>3 DEF Goal
<1>23. CASE Refresh
  <2>1. Reading.at = "state" /\ Reading.served = FALSE /\ {"at", "served"} \subseteq DOMAIN Reading
    BY DEF Reading
  <2>2. Start(Reading) /\ UNCHANGED <<forms, dev, replies>>
    BY <1>23 DEF Refresh
  <2>3. Reads(Reading)
    BY <2>1 DEF Reads, Read
  <2>4. CallStep(Reading)
    BY <2>1, <2>2, <2>3 DEF CallStep, CallShape, SendsInv
  <2> QED
    BY <2>4 DEF Goal
<1> QED
  BY <1>11, <1>12, <1>13, <1>14, <1>15, <1>16, <1>17, <1>18, <1>19, <1>20, <1>21, <1>22, <1>23 DEF User, Goal

-----------------------------------------------------------------------------
(* Every step keeps the invariant. *)

LEMMA InitEditorsInv == Init => EditorsInv
<1> SUFFICES ASSUME Init PROVE EditorsInv
  OBVIOUS
<1>1. calls = [l \in Lane |-> Free] /\ replies = <<>> /\ form \in Forms /\ doc = dev
  BY DEF Init
<1>2. Calls /\ Replies /\ \A l \in Lane : SendsInv(calls[l])
  <2>1. replies \in Seq({})
    BY <1>1
  <2> QED
    BY <1>1, <2>1, NotCalled DEF Calls, Replies, SendsInv
<1>3. DraftShape
  <2>1. touched = [c \in Card |-> {}]
    BY DEF Init, Untouched
  <2>2. drafts = [c \in Card |-> drafts[c]] /\ \A c \in Card : drafts[c] = Seed(doc[place][c])
    BY DEF Init, Seeds
  <2>3. ASSUME NEW c \in Card PROVE drafts[c] = [f \in Field |-> drafts[c][f]]
    <3> DEFINE held == doc[place][c]
    <3>1. drafts[c] = Seed(held)
      BY <2>2
    <3> HIDE DEF held
    <3> QED
      BY <3>1 DEF Seed
  <2> QED
    BY <1>1, <2>1, <2>2, <2>3 DEF DraftShape
<1>4. DraftsFollow
  BY DEF Init, Seeds, DraftsFollow
<1>5. DocInv
  BY <1>1 DEF DocInv, Bringing
<1> QED
  BY <1>2, <1>3, <1>4, <1>5 DEF EditorsInv

\* The form's part of the invariant, while nothing of the form changes.
LEMMA SameForm ==
  ASSUME DraftShape, DraftsFollow, UNCHANGED <<form, place, doc, drafts, touched>>
  PROVE  DraftShape' /\ DraftsFollow' /\ Card' = Card /\ Field' = Field
<1>1. Card' = Card /\ Field' = Field
  BY DEF Card, Field, Fields
<1>2. DraftShape'
  BY <1>1 DEF DraftShape
<1>3. \A held : Seed(held)' = Seed(held)
  BY <1>1 DEF Seed
<1>4. DraftsFollow'
  BY <1>1, <1>3 DEF DraftsFollow, Seed
<1> QED
  BY <1>1, <1>2, <1>4

LEMMA SameSends ==
  ASSUME UNCHANGED <<form, dev>>, NEW c, SendsInv(c), NEW l \in Lane, calls'[l] = c
  PROVE  SendsInv(calls[l])'
<1>1. Field' = Field
  BY DEF Field, Fields
<1> QED
  BY <1>1 DEF SendsInv, Held

LEMMA CallStepInv == ASSUME EditorsInv, NEW c, CallStep(c) PROVE EditorsInv'
<1>1. UNCHANGED <<form, dev, doc, place, drafts, touched, replies>>
  BY DEF CallStep, forms, drawn
<1>2. PICK l \in Lane :
         /\ calls[l] = Free /\ calls'[l] = c
         /\ \A m \in Lane \ {l} : calls'[m] = calls[m]
         /\ \A k \in 1 .. Len(replies) : replies[k].to \in Lane /\ calls'[replies[k].to] = calls[replies[k].to]
         /\ Calls' /\ Replies'
  BY <1>1, Started DEF EditorsInv, CallStep
<1>3. DocInv'
  BY <1>1, StartDoc DEF CallStep
<1>4. DraftShape' /\ DraftsFollow'
  BY <1>1, SameForm DEF EditorsInv
<1>5. ASSUME NEW m \in Lane PROVE SendsInv(calls[m])'
  <2>1. SendsInv(c) /\ SendsInv(calls[m])
    BY DEF CallStep, EditorsInv
  <2>2. CASE m = l
    BY <1>1, <1>2, <2>1, <2>2, SameSends
  <2>3. CASE m # l
    BY <1>1, <1>2, <2>1, <2>3, SameSends
  <2> QED
    BY <2>2, <2>3
<1> QED
  BY <1>2, <1>3, <1>4, <1>5 DEF EditorsInv

LEMMA FormStepInv == ASSUME EditorsInv, FormStep PROVE EditorsInv'
<1>1. UNCHANGED <<form, dev, doc, missed, calls, replies>> /\ DraftShape' /\ DraftsFollow'
  BY DEF FormStep
<1>2. Calls' /\ Replies'
  BY <1>1 DEF EditorsInv, Calls, Replies, CallShape, OpShape
<1>3. ASSUME NEW m \in Lane PROVE SendsInv(calls[m])'
  BY <1>1, SameSends DEF EditorsInv
<1>4. DocInv'
  BY <1>1 DEF EditorsInv, DocInv, Bringing, Reads, Brings, Read
<1> QED
  BY <1>1, <1>2, <1>3, <1>4 DEF EditorsInv

\* A step of the server: a request is carried out, or a document read.
LEMMA ServeStepInv ==
  ASSUME EditorsInv, NEW l \in Lane, NEW what, "free" \notin what, Asked(l, what),
         NEW ok, NEW d, Reply(l, ok, d), UNCHANGED <<forms, missed>>,
         calls[l].at = "op" \/ (dev' = dev /\ (ok => d = dev \/ calls[l].at = "parse"))
  PROVE  EditorsInv'
<1> DEFINE n == Len(replies) + 1
           c == [calls[l] EXCEPT !.served = TRUE]
<1>0. UNCHANGED <<form, doc, place, drafts, touched>>
  BY DEF forms, drawn
<1>1. /\ calls[l].at \in what /\ calls[l].served = FALSE /\ CallShape(calls[l])
      /\ calls'[l] = c /\ c.at = calls[l].at /\ c.served = TRUE
      /\ \A m \in Lane \ {l} : calls'[m] = calls[m]
      /\ Calls' /\ Replies'
  BY <1>0, Replied DEF EditorsInv
<1>2. c.at = "op" => c.sends = calls[l].sends /\ c.mine = calls[l].mine
  BY <1>1 DEF CallShape, OpShape
<1> HIDE DEF c
<1>3. DocInv'
  BY <1>0, ServeDoc
<1>4. DraftShape' /\ DraftsFollow'
  BY <1>0, SameForm DEF EditorsInv
<1>5. ASSUME NEW m \in Lane PROVE SendsInv(calls[m])'
  <2>1. SendsInv(calls[m])
    BY DEF EditorsInv
  <2>2. CASE m = l
    <3>1. Field' = Field
      BY <1>0 DEF Field, Fields
    <3>2. calls'[m] = c
      BY <1>1, <2>2
    <3>3. c.at = "op" => \A i \in 1 .. Len(c.sends) : \A x \in DOMAIN c.sends[i] : \A f \in DOMAIN c.sends[i][x] :
             f \in c.mine[x] \/ (form \notin OneByOne /\ f \in Field)
      BY <1>1, <1>2, <2>1, <2>2 DEF SendsInv
    <3> QED
      BY <1>0, <1>1, <3>1, <3>2, <3>3 DEF SendsInv
  <2>3. CASE m # l /\ dev' = dev
    BY <1>0, <1>1, <2>1, <2>3, SameSends
  <2>4. CASE m # l /\ calls[l].at = "op"
    <3>1. calls'[m].at # "op"
      BY <1>1, <2>4 DEF EditorsInv, Calls
    <3> QED
      BY <3>1 DEF SendsInv
  <2> QED
    BY <2>2, <2>3, <2>4
<1> QED
  BY <1>1, <1>3, <1>4, <1>5 DEF EditorsInv

LEMMA ServeInv == ASSUME EditorsInv, NEW l \in Lane, Serve(l) PROVE EditorsInv'
<1>1. CASE ServeSet(l)
  <2>1. Asked(l, {"op"}) /\ calls[l].at = "op" /\ UNCHANGED <<forms, missed>>
    BY <1>1 DEF ServeSet, Asked
  <2>2. PICK ok, d : Reply(l, ok, d)
    BY <1>1 DEF ServeSet
  <2> QED
    BY <2>1, <2>2, ServeStepInv
<1>2. CASE ServeRead(l)
  <2> DEFINE what == {"state", "features", "parse"}
  <2>1. Asked(l, what) /\ "free" \notin what /\ UNCHANGED <<forms, missed>> /\ dev' = dev
    BY <1>2 DEF ServeRead
  <2>2. PICK ok, d : Reply(l, ok, d) /\ (ok => d = dev \/ calls[l].at = "parse")
    BY <1>2 DEF ServeRead
  <2> HIDE DEF what
  <2> QED
    BY <2>1, <2>2, ServeStepInv
<1> QED
  BY <1>1, <1>2 DEF Serve

\* A call of the page goes on: what it sends next, and what the form shows.
LEMMA ResumeStepInv ==
  ASSUME EditorsInv, 1 \in DOMAIN replies, Take(1), NEW c, GoOn(replies[1].to, c),
         c = Free \/ (CallShape(c) /\ (c.at = "op" => calls[replies[1].to].at = "op")),
         SendsInv(c), UNCHANGED <<form, dev>>, DraftShape', DraftsFollow', DocInv'
  PROVE  EditorsInv'
<1>1. PICK l \in Lane :
         /\ calls'[l] = c
         /\ \A m \in Lane \ {l} : calls'[m] = calls[m]
         /\ Calls' /\ Replies'
  BY Resumed DEF EditorsInv
<1>2. ASSUME NEW m \in Lane PROVE SendsInv(calls[m])'
  <2>1. SendsInv(calls[m])
    BY DEF EditorsInv
  <2>2. CASE m = l
    BY <1>1, <2>2, SameSends
  <2>3. CASE m # l
    BY <1>1, <2>1, <2>3, SameSends
  <2> QED
    BY <2>2, <2>3
<1> QED
  BY <1>1, <1>2 DEF EditorsInv

\* A form that opens anew follows the new document.
LEMMA Reseeded ==
  ASSUME DraftShape, DraftsFollow, Reseed, UNCHANGED <<form, place>>
  PROVE  DraftShape' /\ DraftsFollow'
<1>1. Card' = Card /\ Field' = Field
  BY DEF Card, Field, Fields
<1> DEFINE kept(c, f) == Kept(c, f)
           seeds(c) == Seed(doc'[place][c])
           keeps(c) == {f \in touched[c] : kept(c, f)}
<1>2. /\ drafts' = [c \in Card |-> [f \in Field |-> IF kept(c, f) THEN drafts[c][f] ELSE seeds(c)[f]]]
      /\ touched' = [c \in Card |-> keeps(c)]
  BY DEF Reseed
<1>3. \A c, f : kept(c, f) => doc'[place][c][f] = doc[place][c][f]
  BY DEF Kept
<1>4. \A c \in Card, f \in Field : seeds(c)[f] = Held(doc'[place][c][f])
  BY DEF Seed, Held
<1>5. \A c \in Card, f \in Field : f \in touched[c] \/ drafts[c][f] = Held(doc[place][c][f])
  BY DEF DraftsFollow, Seed, Held
<1> HIDE DEF kept, seeds, keeps
<1>6. \A c \in Card : drafts'[c] = [f \in Field |-> IF kept(c, f) THEN drafts[c][f] ELSE seeds(c)[f]]
  BY <1>2
<1>7. \A c \in Card, f \in Field : drafts'[c][f] = IF kept(c, f) THEN drafts[c][f] ELSE seeds(c)[f]
  BY <1>6
<1>8. DraftShape'
  <2>1. \A c \in Card : drafts'[c] = [f \in Field |-> drafts'[c][f]]
    BY <1>6
  <2>2. drafts' = [c \in Card |-> drafts'[c]] /\ touched' = [c \in Card |-> touched'[c]]
    BY <1>2
  <2>3. drafts' = [c \in Card |-> [f \in Field |-> drafts'[c][f]]]
    BY <2>1, <2>2
  <2> QED
    BY <1>1, <2>2, <2>3 DEF DraftShape
<1>9. \A c \in Card, f \in Field : f \in touched'[c] <=> f \in touched[c] /\ kept(c, f)
  BY <1>2 DEF keeps
<1>10. ASSUME NEW c \in Card, NEW f \in Field \ touched'[c] PROVE drafts'[c][f] = Held(doc'[place][c][f])
  <2>1. CASE kept(c, f)
    BY <1>3, <1>5, <1>7, <1>9, <2>1
  <2>2. CASE ~kept(c, f)
    BY <1>4, <1>7, <2>2
  <2> QED
    BY <2>1, <2>2
<1>11. DraftsFollow'
  BY <1>1, <1>10 DEF DraftsFollow, Seed, Held
<1> QED
  BY <1>8, <1>11

\* The steps of a parsed text are the draft now.
LEMMA ParsedForm ==
  ASSUME DraftShape, DraftsFollow, NEW k, CallShape(calls[replies[k].to]), Parsed(k)
  PROVE  DraftShape' /\ DraftsFollow'
<1>1. calls[replies[k].to].at = "parse" /\ UNCHANGED <<form, place, doc>>
  BY DEF Parsed, drawn
<1>2. CASE UNCHANGED <<drafts, touched>>
  BY <1>1, <1>2, SameForm
<1>3. CASE drafts' = All("it", [steps |-> replies[k].doc]) /\ touched' = [it |-> {"steps"}]
  <2>1. form = "macro" /\ Card = {"it"} /\ Field = {"steps"} /\ form \in Forms
    BY <1>1, FormFields DEF CallShape, DraftShape
  <2>2. Card' = {"it"} /\ Field' = {"steps"}
    BY <1>1, <2>1 DEF Card, Field, Fields
  <2>3. /\ drafts' = [c \in {"it"} |-> [f \in {"steps"} |-> drafts'[c][f]]]
        /\ touched' = [c \in {"it"} |-> touched'[c]] /\ touched'["it"] = {"steps"}
    BY <1>3 DEF All
  <2> QED
    BY <1>1, <2>1, <2>2, <2>3 DEF DraftShape, DraftsFollow
<1> QED
  BY <1>2, <1>3 DEF Parsed

LEMMA ResumeInv == ASSUME EditorsInv, Resume, InOrder = TRUE PROVE EditorsInv'
<1>1. /\ 1 \in DOMAIN replies /\ Take(1) /\ UNCHANGED dev
      /\ SetAnswered(1) \/ StateRead(1) \/ FeaturesRead(1) \/ ReloadFailed(1) \/ Parsed(1)
  BY DEF Resume, Arrives
<1>2. Calls /\ Replies /\ DraftShape /\ DraftsFollow /\ form \in Forms
  BY DEF EditorsInv, DraftShape
<1> DEFINE l == replies[1].to
           was == calls[l]
<1>3. l \in Lane /\ CallShape(was) /\ was.served = TRUE /\ SendsInv(was)
  <2>1. 1 \in 1 .. Len(replies)
    BY <1>1, <1>2 DEF Replies
  <2> QED
    BY <1>2, <2>1 DEF Replies, Calls, CallShape, EditorsInv
<1>4. SendsInv(Free) /\ SendsInv(Reading) /\ CallShape(Reading) /\ Reading.at = "state" /\ Reads(Reading)
  BY NotCalled DEF SendsInv, Reading, CallShape, Reads, Read
<1>5. form = "key" \/ form # "key"
  OBVIOUS
<1>6. ASSUME SetAnswered(1)
      PROVE  EditorsInv'
  <2>1. was.at = "op" /\ UNCHANGED <<forms, missed>> /\ UNCHANGED <<form, place, doc, drafts, touched>>
    BY <1>6 DEF SetAnswered, forms, drawn
  <2>2. DraftShape' /\ DraftsFollow'
    BY <1>2, <2>1, SameForm
  <2> DEFINE c == IF replies[1].ok /\ Len(was.sends) > 1
                  THEN [was EXCEPT !.sends = Tail(@), !.served = FALSE] ELSE Reading
  <2>3. GoOn(l, c)
    BY <1>6 DEF SetAnswered
  <2>4. /\ CallShape(c) /\ SendsInv(c) /\ Reads(c)
    <3>1. CASE replies[1].ok /\ Len(was.sends) > 1
      <4> DEFINE d == [was EXCEPT !.sends = Tail(@), !.served = FALSE]
      <4>1. OpShape(was) /\ DOMAIN was = {"at", "served", "place", "sends", "mine", "sure"}
        BY <1>3, <2>1 DEF CallShape, OpShape
      <4>2. d.at = "op" /\ d.served = FALSE /\ d.sends = Tail(was.sends) /\ d.mine = was.mine /\ DOMAIN d = DOMAIN was
        BY <2>1, <4>1
      <4>4. PICK S : was.sends \in Seq(S)
        BY <4>1 DEF OpShape
      <4>3. form \in OneByOne
        <5> DEFINE n == Len(was.sends)
        <5>0. n \in Nat /\ n > 1
          BY <3>1, <4>4
        <5> HIDE DEF n
        <5>2. n # 1
          BY <5>0
        <5>1. Len(was.sends) # 1
          BY <5>2 DEF n
        <5> QED
          BY <4>1, <5>1 DEF OpShape
      <4>5. /\ Tail(was.sends) \in Seq(S) /\ Len(Tail(was.sends)) >= 1
            /\ \A i \in 1 .. Len(Tail(was.sends)) : i + 1 \in 1 .. Len(was.sends) /\ Tail(was.sends)[i] = was.sends[i + 1]
        BY <3>1, <4>4
      <4>6. c = d
        BY <3>1
      <4> HIDE DEF d, c
      <4>7. CallShape(d)
        BY <4>1, <4>2, <4>3, <4>5 DEF CallShape, OpShape
      <4>8. SendsInv(d)
        <5>1. \A i \in 1 .. Len(was.sends) : \A x \in DOMAIN was.sends[i] : \A f \in DOMAIN was.sends[i][x] :
                 f \in was.mine[x]
          BY <1>3, <2>1, <4>3 DEF SendsInv
        <5>2. ASSUME NEW i \in 1 .. Len(d.sends), NEW x \in DOMAIN d.sends[i], NEW f \in DOMAIN d.sends[i][x]
              PROVE  f \in d.mine[x]
          <6>1. i + 1 \in 1 .. Len(was.sends) /\ d.sends[i] = was.sends[i + 1]
            BY <4>2, <4>5
          <6> QED
            BY <4>2, <5>1, <5>2, <6>1
        <5> QED
          BY <5>2 DEF SendsInv
      <4> QED
        BY <4>2, <4>6, <4>7, <4>8 DEF Reads
    <3>2. CASE ~(replies[1].ok /\ Len(was.sends) > 1)
      BY <1>4, <3>2
    <3> QED
      BY <3>1, <3>2
  <2> HIDE DEF c
  <2>5. DocInv'
    BY <1>1, <2>1, <2>3, <2>4, ResumeDoc
  <2> QED
    BY <1>1, <2>1, <2>2, <2>3, <2>4, <2>5, ResumeStepInv
<1>7. ASSUME StateRead(1)
      PROVE  EditorsInv'
  <2> DEFINE c == Then(was, "features")
  <2>1. was.at = "state" /\ replies[1].ok /\ GoOn(l, c) /\ missed' = missed /\ UNCHANGED <<form, place>>
    BY <1>7 DEF StateRead, drawn
  <2>2. c.at = "features" /\ c.served = FALSE /\ DOMAIN c = DOMAIN was
    BY <1>3 DEF Then, CallShape
  <2> HIDE DEF c
  <2>3. CallShape(c) /\ SendsInv(c)
    BY <1>3, <2>2 DEF CallShape, SendsInv
  <2>4. CASE form = "key"
    <3>1. doc' = replies[1].doc /\ Reseed
      BY <1>7, <2>4 DEF StateRead
    <3>2. DraftShape' /\ DraftsFollow'
      BY <1>2, <2>1, <3>1, Reseeded
    <3>3. ~Reads(was) /\ Brings(was)
      BY <1>3, <2>1, <2>4 DEF Reads, Brings, Read
    <3>4. DocInv'
      BY <1>1, <2>1, <3>1, <3>3, ResumeDoc
    <3> QED
      BY <1>1, <2>1, <2>2, <2>3, <3>2, <3>4, ResumeStepInv
  <2>5. CASE form # "key"
    <3>1. UNCHANGED <<doc, drafts, touched>>
      BY <1>7, <2>5 DEF StateRead
    <3>2. DraftShape' /\ DraftsFollow'
      BY <1>2, <2>1, <3>1, SameForm
    <3>3. Reads(c)
      BY <2>2, <2>5 DEF Reads, Read
    <3>4. DocInv'
      BY <1>1, <2>1, <3>1, <3>3, ResumeDoc
    <3> QED
      BY <1>1, <2>1, <2>2, <2>3, <3>2, <3>4, ResumeStepInv
  <2> QED
    BY <2>4, <2>5
<1>8. ASSUME FeaturesRead(1)
      PROVE  EditorsInv'
  <2>1. was.at = "features" /\ replies[1].ok /\ GoOn(l, Free) /\ missed' = missed /\ UNCHANGED <<form, place>>
    BY <1>8 DEF FeaturesRead, drawn
  <2>2. ~Reads(was)
    BY <1>3, <2>1 DEF Reads, Read
  <2>3. CASE form = "key"
    <3>1. UNCHANGED <<doc, drafts, touched>>
      BY <1>8, <2>3 DEF FeaturesRead
    <3>2. DraftShape' /\ DraftsFollow'
      BY <1>2, <2>1, <3>1, SameForm
    <3>3. ~Brings(was)
      BY <2>1, <2>3 DEF Brings, Read
    <3>4. DocInv'
      BY <1>1, <2>1, <2>2, <3>1, <3>3, ResumeDoc
    <3> QED
      BY <1>1, <1>4, <2>1, <3>2, <3>4, ResumeStepInv
  <2>4. CASE form # "key"
    <3>1. doc' = replies[1].doc /\ Reseed
      BY <1>8, <2>4 DEF FeaturesRead
    <3>2. DraftShape' /\ DraftsFollow'
      BY <1>2, <2>1, <3>1, Reseeded
    <3>3. Brings(was)
      BY <1>3, <2>1, <2>4 DEF Brings, Read
    <3>4. DocInv'
      BY <1>1, <2>1, <2>2, <3>1, <3>3, ResumeDoc
    <3> QED
      BY <1>1, <1>4, <2>1, <3>2, <3>4, ResumeStepInv
  <2> QED
    BY <2>3, <2>4
<1>9. ASSUME ReloadFailed(1)
      PROVE  EditorsInv'
  <2>1. GoOn(l, Free) /\ missed' = TRUE /\ UNCHANGED <<form, place, doc, drafts, touched>>
    BY <1>9 DEF ReloadFailed, forms, drawn
  <2>2. DraftShape' /\ DraftsFollow' /\ DocInv'
    BY <1>2, <2>1, SameForm DEF DocInv
  <2> QED
    BY <1>1, <1>4, <2>1, <2>2, ResumeStepInv
<1>10. ASSUME Parsed(1)
       PROVE  EditorsInv'
  <2>1. was.at = "parse" /\ GoOn(l, Free) /\ missed' = missed /\ UNCHANGED <<form, place, doc>>
    BY <1>10 DEF Parsed, drawn
  <2>2. ~Reads(was) /\ ~Brings(was)
    BY <2>1 DEF Reads, Brings, Read
  <2>3. DocInv'
    BY <1>1, <2>1, <2>2, ResumeDoc
  <2>4. DraftShape' /\ DraftsFollow'
    BY <1>2, <1>3, <1>10, ParsedForm
  <2> QED
    BY <1>1, <1>4, <2>1, <2>3, <2>4, ResumeStepInv
<1> QED
  BY <1>1, <1>6, <1>7, <1>8, <1>9, <1>10

LEMMA StepEditorsInv == InOrder = TRUE /\ EditorsInv /\ [Next]_editorVars => EditorsInv'
<1> SUFFICES ASSUME InOrder = TRUE, EditorsInv, [Next]_editorVars PROVE EditorsInv'
  OBVIOUS
<1>1. CASE User
  BY <1>1, UserSteps, FormStepInv, CallStepInv
<1>2. CASE Resume
  BY <1>2, ResumeInv
<1>3. ASSUME NEW l \in Lane, Serve(l) PROVE EditorsInv'
  BY <1>3, ServeInv
<1>4. CASE UNCHANGED editorVars
  <2>1. /\ UNCHANGED <<form, dev, doc, missed, calls, replies>>
        /\ UNCHANGED <<form, place, doc, drafts, touched>>
    BY <1>4 DEF editorVars
  <2>2. FormStep
    BY <2>1, SameForm DEF FormStep, EditorsInv
  <2> QED
    BY <2>2, FormStepInv
<1> QED
  BY <1>1, <1>2, <1>3, <1>4 DEF Next

\* If replies arrive in order, a form on a quiet page where no reload has failed shows what
\* the keyboard does in every field the user has not touched, whatever was sent and answered
\* before and whichever requests failed.
THEOREM FormsShowTheKeyboard == InOrder = TRUE => (Spec => []FormShowsKeyboard)
<1> SUFFICES ASSUME InOrder = TRUE PROVE Spec => []FormShowsKeyboard
  OBVIOUS
<1>1. EditorsInv => FormShowsKeyboard
  <2> SUFFICES ASSUME EditorsInv, Sure
               PROVE  \A c \in Card : \A f \in Field \ touched[c] : drafts[c][f] = Seed(dev[place][c])[f]
    BY DEF FormShowsKeyboard
  <2> QED
    BY SureShows DEF EditorsInv, DraftsFollow
<1> QED
  BY <1>1, InitEditorsInv, StepEditorsInv, PTL DEF Spec

\* Opening a form and applying it writes nothing the user did not change: what is sent for
\* a field nobody touched is, in the forms that send all of them, what the keyboard holds
\* when the request is carried out.
THEOREM UntouchedFieldsStay == InOrder = TRUE => (Spec => []UntouchedStays)
<1> SUFFICES ASSUME InOrder = TRUE PROVE Spec => []UntouchedStays
  OBVIOUS
<1>1. EditorsInv => UntouchedStays
  <2> SUFFICES ASSUME EditorsInv, NEW l \in Lane, Asked(l, {"op"}),
                      NEW c \in DOMAIN Head(calls[l].sends), NEW f \in DOMAIN Head(calls[l].sends)[c]
               PROVE  \/ f \in calls[l].mine[c]
                      \/ /\ form \notin OneByOne
                         /\ calls[l].sure => Head(calls[l].sends)[c][f] = Seed(dev[calls[l].place][c])[f]
    BY DEF UntouchedStays
  <2>1. calls[l].at = "op" /\ ~calls[l].served
    BY DEF Asked
  <2>2. OpShape(calls[l]) /\ SendsInv(calls[l])
    BY <2>1, NotCalled DEF EditorsInv, Calls, CallShape
  <2>3. Head(calls[l].sends) = calls[l].sends[1] /\ 1 \in 1 .. Len(calls[l].sends)
    BY <2>2 DEF OpShape
  <2>4. \/ f \in calls[l].mine[c]
        \/ /\ form \notin OneByOne /\ f \in Field
           /\ calls[l].sure => calls[l].sends[1][c][f] = Held(dev[calls[l].place][c][f])
    BY <2>1, <2>2, <2>3 DEF SendsInv
  <2> QED
    BY <2>3, <2>4 DEF Seed, Held
<1> QED
  BY <1>1, InitEditorsInv, StepEditorsInv, PTL DEF Spec

-----------------------------------------------------------------------------
(* Keycodes: the modifiers leave the key alone.                              *)

LEMMA Divided ==
  ASSUME NEW n \in Int, NEW K \in Nat \ {0}
  PROVE  n \div K \in Int /\ n % K \in 0 .. K - 1 /\ n = K * (n \div K) + (n % K)
  OBVIOUS

LEMMA Remainder ==
  ASSUME NEW K \in Nat \ {0}, NEW b \in 0 .. K - 1, NEW t \in Int
  PROVE  (b + K * t) % K = b
<1> DEFINE n == b + K * t
           q == n \div K
           r == n % K
<1>1. n \in Int
  OBVIOUS
<1>2. q \in Int /\ r \in 0 .. K - 1 /\ n = K * q + r
  BY <1>1, Divided
<1>3. b - r = K * (q - t)
  BY <1>2
<1>4. q - t >= 1 => K * (q - t) >= K
  BY <1>2
<1>5. t - q >= 1 => K * (t - q) >= K
  BY <1>2
<1>6. K * (q - t) = 0 - K * (t - q)
  BY <1>2
<1>7. q = t
  <2> DEFINE x == K * (q - t)
             y == K * (t - q)
  <2>1. b - r = x /\ x = 0 - y /\ (q - t >= 1 => x >= K) /\ (t - q >= 1 => y >= K)
    BY <1>3, <1>4, <1>5, <1>6
  <2>2. x \in Int /\ y \in Int
    BY <1>2
  <2> HIDE DEF x, y, q, r
  <2> QED
    BY <1>2, <2>1, <2>2
<1>8. K * (q - t) = 0
  BY <1>2, <1>7
<1> QED
  BY <1>2, <1>3, <1>8

LEMMA WordBase ==
  ASSUME NEW b \in 0 .. KeyCount - 1, NEW t \in Int
  PROVE  Base(Signed(b + KeyCount * t)) = b
<1> DEFINE n == b + KeyCount * t
           q == n \div Words
           r == n % Words
<1>1. KeyCount \in Nat \ {0} /\ Words = 256 * KeyCount /\ Words \in Nat \ {0}
  BY KeycodesAssumption DEF KeycodesAssumption, Words
<1>2. n \in Int
  BY <1>1
<1>3. q \in Int /\ r \in Int /\ n = Words * q + r
  <2> HIDE DEF n
  <2>1. Words \in Nat \ {0}
    BY <1>1
  <2> QED
    BY <1>2, <2>1, Divided
<1>4. Signed(n) \in {r, r - Words}
  BY DEF Signed
<1>5. n = b + KeyCount * t
  OBVIOUS
<1> HIDE DEF n, q, r
<1>6. Words * q = KeyCount * (256 * q)
  BY <1>1, <1>3
<1>7. r = b + KeyCount * (t - 256 * q)
  BY <1>1, <1>3, <1>5, <1>6
<1>8. r - Words = b + KeyCount * (t - 256 * q - 256)
  BY <1>1, <1>3, <1>7
<1>9. \E u \in Int : Signed(n) = b + KeyCount * u
  BY <1>3, <1>4, <1>7, <1>8
<1> QED
  BY <1>1, <1>5, <1>9, Remainder DEF Base

LEMMA JoinedBase ==
  ASSUME NEW base, NEW mods, Base(base) \in 0 .. KeyCount - 1
  PROVE  Base(JoinMods(base, mods)) = Base(base)
<1> DEFINE on(m) == IF m \in mods THEN 1 ELSE 0
           byte == on("LC") + 2 * on("LS") + 4 * on("LA") + 8 * on("LG")
                   + 16 * on("RC") + 32 * on("RS") + 64 * on("RA") + 128 * on("RG")
           bit(m) == IF m \in mods THEN ModBit[m] ELSE 0
<1>1. KeyCount \in Nat \ {0}
  BY KeycodesAssumption DEF KeycodesAssumption
<1>2. \A m : on(m) \in {0, 1}
  OBVIOUS
<1>3. /\ bit("LC") = KeyCount * on("LC") /\ bit("LS") = KeyCount * (2 * on("LS"))
      /\ bit("LA") = KeyCount * (4 * on("LA")) /\ bit("LG") = KeyCount * (8 * on("LG"))
      /\ bit("RC") = KeyCount * (16 * on("RC")) /\ bit("RS") = KeyCount * (32 * on("RS"))
      /\ bit("RA") = KeyCount * (64 * on("RA")) /\ bit("RG") = KeyCount * (128 * on("RG"))
  BY <1>1 DEF ModBit
<1>4. JoinMods(base, mods) = Signed(Base(base) + bit("LC") + bit("LS") + bit("LA") + bit("LG")
                                    + bit("RC") + bit("RS") + bit("RA") + bit("RG"))
  BY DEF JoinMods
<1> HIDE DEF on, bit
<1>5. byte \in Int
  BY <1>2
<1>6. Base(base) + bit("LC") + bit("LS") + bit("LA") + bit("LG")
        + bit("RC") + bit("RS") + bit("RA") + bit("RG") = Base(base) + KeyCount * byte
  BY <1>1, <1>2, <1>3
<1> HIDE DEF byte
<1> QED
  BY <1>4, <1>5, <1>6, WordBase

-----------------------------------------------------------------------------
(* Parameters that mean something. *)

\* In the metadata no other kind is described before a constant.
ConstantsFirst ==
    \A b \in Behavior, i \in {1, 2} :
        LET descs == Meta[b][i]
        IN  OfType(descs, {"constant"}) # {} => First(descs, {"constant"} \cup Drawn).type = "constant"

\* The values that a new binding starts with: the key A has a code, there is a layer 0.
StartsKnown == Base(KeyA) \in KeyBases /\ 0 \in Layers

\* A binding of a behavior of the keyboard whose parameters mean something to it.
Proper(b) ==
    /\ b.behavior \in Behavior
    /\ b = Binding(b.behavior, b.param[1], b.param[2])
    /\ BindingFits(b)

\* The keyboard's own bindings do, those that the page writes by themselves too.
GivenFit == Proper(FirstBinding) /\ \A b \in Transparent : Proper(Binding(b, 0, 0))

LEMMA LeastNumber ==
  ASSUME NEW S \in SUBSET Nat, S # {}
  PROVE  \E m \in S : \A n \in S : m <= n
<1>1. \E m \in S : \A n \in S : ~ (<<n, m>> \in OpToRel(<, Nat))
  BY NatLessThanWellFounded, WFMin, Zenon
<1>2. PICK m \in S : \A n \in S : ~ (<<n, m>> \in OpToRel(<, Nat))
  BY <1>1
<1>3. ASSUME NEW n \in S
      PROVE  m <= n
  <2>1. ~ (<<n, m>> \in OpToRel(<, Nat))
    BY <1>2
  <2> QED
    BY <2>1 DEF OpToRel
<1> QED
  BY <1>3

LEMMA FirstIsOne ==
  ASSUME NEW descs, NEW types, DOMAIN descs \subseteq Nat, OfType(descs, types) # {}
  PROVE  \E i \in OfType(descs, types) : First(descs, types) = descs[i]
<1>1. OfType(descs, types) \in SUBSET Nat
  BY DEF OfType
<1>2. \E i \in OfType(descs, types) : \A j \in OfType(descs, types) : i <= j
  BY <1>1, LeastNumber
<1> QED
  BY <1>2 DEF First

LEMMA DefaultFits ==
  ASSUME ConstantsFirst, StartsKnown, NEW b \in Behavior, NEW i \in {1, 2}
  PROVE  Fits(Meta[b][i], DefaultParam(Meta[b][i]))
<1> DEFINE descs == Meta[b][i]
           known == {"constant"} \cup Drawn
<1>1. DOMAIN descs \subseteq Nat
  BY BindingsAssumption DEF BindingsAssumption
<1>2. OfType(descs, {"constant"}) # {} => First(descs, known).type = "constant"
  BY DEF ConstantsFirst
<1> SUFFICES Fits(descs, DefaultParam(descs))
  OBVIOUS
<1> HIDE DEF descs
<1>3. CASE OfType(descs, {"constant"}) # {}
  <2>1. OfType(descs, known) # {}
    BY <1>3 DEF OfType
  <2>2. PICK j \in OfType(descs, known) : First(descs, known) = descs[j]
    BY <1>1, <2>1, FirstIsOne
  <2>3. j \in OfType(descs, {"constant"}) /\ DefaultParam(descs) = descs[j].value
    BY <1>2, <1>3, <2>1, <2>2 DEF OfType, DefaultParam
  <2>4. ParamKind(descs) = "constant"
    BY <1>3 DEF ParamKind
  <2>5. descs[j].value \in Constants(descs)
    BY <2>3 DEF Constants
  <2> QED
    BY <2>3, <2>4, <2>5 DEF Fits
<1>4. CASE OfType(descs, {"constant"}) = {} /\ OfType(descs, Drawn) = {}
  <2>1. ParamKind(descs) = "none"
    BY <1>4 DEF ParamKind
  <2> QED
    BY <2>1 DEF Fits
<1>5. CASE OfType(descs, {"constant"}) = {} /\ OfType(descs, Drawn) # {}
  <2> DEFINE d == First(descs, Drawn)
  <2>1. OfType(descs, known) = OfType(descs, Drawn)
    BY <1>5 DEF OfType
  <2>2. First(descs, known) = d
    BY <2>1 DEF First
  <2>3. d.type \in Drawn
    BY <1>1, <1>5, FirstIsOne DEF OfType
  <2>4. ParamKind(descs) = d.type
    BY <1>5 DEF ParamKind
  <2>5. /\ d.type = "hid_usage" => DefaultParam(descs) = KeyA
        /\ d.type = "layer_id" => DefaultParam(descs) = 0
    BY <1>5, <2>1, <2>2 DEF DefaultParam
  <2> HIDE DEF d
  <2> QED
    BY <2>3, <2>4, <2>5 DEF Fits, Drawn, StartsKnown
<1> QED
  BY <1>3, <1>4, <1>5

LEMMA ClicksKeepKeys ==
  ASSUME NEW v, Base(v) \in KeyBases, NEW w \in Clicks(v)
  PROVE  Base(w) \in KeyBases
<1>1. ASSUME NEW n \in KeyName PROVE Base(Keycode[n]) \in KeyBases
  BY DEF KeyBases
<1>2. ASSUME NEW x, Base(x) \in KeyBases PROVE Base(x) \in 0 .. KeyCount - 1 /\ Base(Base(x)) = Base(x)
  <2>1. PICK n \in KeyName : Base(x) = Base(Keycode[n])
    BY <1>2 DEF KeyBases
  <2>2. Keycode[n] \in Int /\ KeyCount \in Nat \ {0}
    BY KeycodesAssumption DEF KeycodesAssumption, Words
  <2>3. Base(x) \in 0 .. KeyCount - 1
    BY <2>1, <2>2, Divided DEF Base
  <2>4. (Base(x) + KeyCount * 0) % KeyCount = Base(x)
    BY <2>2, <2>3, Remainder
  <2>5. Base(x) + KeyCount * 0 = Base(x)
    BY <2>2, <2>3
  <2> QED
    BY <2>3, <2>4, <2>5 DEF Base
<1>3. ASSUME NEW x, Base(x) \in KeyBases, NEW mods PROVE Base(JoinMods(Base(x), mods)) = Base(x)
  <2>1. Base(Base(x)) \in 0 .. KeyCount - 1 /\ Base(Base(x)) = Base(x)
    BY <1>2, <1>3
  <2> QED
    BY <2>1, JoinedBase
<1>4. CASE w \in {Toggle(v, m) : m \in Toggled}
  <2>1. PICK m \in Toggled : w = Toggle(v, m)
    BY <1>4
  <2>2. \E mods : w = JoinMods(Base(v), mods)
    BY <2>1 DEF Toggle, SplitMods
  <2> QED
    BY <1>3, <2>2
<1>5. CASE w \in {PickName(v, n) : n \in KeyName}
  <2>1. PICK n \in KeyName : w = PickName(v, n)
    BY <1>5
  <2>2. \E mods : w = JoinMods(Base(Keycode[n]), mods)
    BY <2>1 DEF PickName, SplitMods
  <2> QED
    BY <1>1, <1>3, <2>2
<1> QED
  BY <1>4, <1>5 DEF Clicks

LEMMA OffersFit ==
  ASSUME NEW descs, NEW v, Fits(descs, v), NEW w \in Offers(descs, v)
  PROVE  Fits(descs, w)
<1>1. CASE ParamKind(descs) = "hid_usage"
  BY <1>1, ClicksKeepKeys DEF Offers, Fits
<1>2. CASE ParamKind(descs) # "hid_usage"
  BY <1>2 DEF Offers, Fits
<1> QED
  BY <1>1, <1>2

LEMMA EditedFits ==
  ASSUME ConstantsFirst, StartsKnown, NEW old, Proper(old), NEW new \in Edited(old)
  PROVE  Proper(new)
<1>1. ASSUME NEW b \in Behavior, NEW v1, NEW v2, Fits(Meta[b][1], v1), Fits(Meta[b][2], v2)
      PROVE  Proper(Binding(b, v1, v2))
  <2> DEFINE x == Binding(b, v1, v2)
  <2>1. x.behavior = b /\ x.param[1] = v1 /\ x.param[2] = v2
    BY DEF Binding
  <2> HIDE DEF x
  <2> SUFFICES Proper(x)
    BY DEF x
  <2>2. x = Binding(x.behavior, x.param[1], x.param[2])
    BY <2>1 DEF x
  <2> QED
    BY <1>1, <2>1, <2>2 DEF Proper, BindingFits
<1>2. ASSUME NEW b \in Behavior, new = PickBehavior(b) PROVE Proper(new)
  BY <1>1, <1>2, DefaultFits DEF PickBehavior
<1>3. ASSUME NEW i \in {1, 2}, NEW v \in Offers(Meta[old.behavior][i], old.param[i]), new = [old EXCEPT !.param[i] = v]
      PROVE  Proper(new)
  <2> DEFINE b == old.behavior
             w == [j \in {1, 2} |-> IF j = i THEN v ELSE old.param[j]]
  <2>1. b \in Behavior /\ old = [behavior |-> b, param |-> <<old.param[1], old.param[2]>>]
    BY DEF Proper, Binding
  <2>2. new = Binding(b, w[1], w[2])
    BY <1>3, <2>1 DEF Binding
  <2>3. \A j \in {1, 2} : Fits(Meta[b][j], old.param[j])
    BY DEF Proper, BindingFits
  <2>4. Fits(Meta[b][i], v)
    BY <2>3, OffersFit
  <2>5. Fits(Meta[b][1], w[1]) /\ Fits(Meta[b][2], w[2])
    BY <2>3, <2>4
  <2> HIDE DEF w, b
  <2> QED
    BY <1>1, <2>1, <2>2, <2>5
<1> QED
  BY <1>2, <1>3 DEF Edited, Adjusted

-----------------------------------------------------------------------------
(* What is drafted, sent, kept and answered has such bindings only, whether  *)
(* or not replies arrive in order.                                           *)

Fit(v) == Proper(Held(v))
ContentFits(x) == "binding" \in Field => \A p \in Place, c \in Card : Fit(x[p][c]["binding"])
SetFits(set) == \A x \in DOMAIN set : "binding" \in DOMAIN set[x] => Fit(set[x]["binding"])
SendsFit(c) == c.at = "op" => \A i \in 1 .. Len(c.sends) : SetFits(c.sends[i])
DraftsFit == "binding" \in Field => \A c \in Card : Proper(drafts[c]["binding"])
RepliesFit ==
    \A k \in 1 .. Len(replies) :
        replies[k].ok /\ calls[replies[k].to].at \in {"state", "features"} => ContentFits(replies[k].doc)

FitsInv ==
    /\ Calls /\ Replies /\ DraftShape /\ DraftsFollow
    /\ place \in Place /\ DOMAIN dev = Place
    /\ ContentFits(dev) /\ ContentFits(doc)
    /\ DraftsFit
    /\ \A l \in Lane : SendsFit(calls[l])
    /\ RepliesFit

\* What the keyboard says of itself.
Fitting == ConstantsFirst /\ StartsKnown /\ GivenFit

LEMMA ProperFits == ASSUME GivenFit, NEW v, Proper(v) PROVE Fit(v)
  BY DEF Fit, Held, GivenFit

LEMMA GivenFits ==
  ASSUME GivenFit
  PROVE  Fit(None) /\ Fit(FirstBinding)
  BY DEF Fit, Held, GivenFit

LEMMA BindingForms ==
  ASSUME form \in Forms
  PROVE  Plain[1] # "binding" /\ (form \notin {"key", "encoder", "combo"} => "binding" \notin Field)
<1>1. Plain \in Seq(STRING) /\ Len(Plain) >= 1 /\ \A i \in DOMAIN Plain : Plain[i] # "binding"
  BY EditorsAssumption DEF EditorsAssumption
<1>2. Plain[1] # "binding"
  BY <1>1
<1>3. "binding" \notin ToSet(Plain)
  BY <1>1 DEF ToSet
<1>4. form \in {"key", "encoder", "combo", "holdtap", "condlayer", "macro", "trackball"}
  BY EditorsAssumption DEF EditorsAssumption
<1>5. CASE form \in {"holdtap", "condlayer", "trackball"}
  BY <1>2, <1>3, <1>5 DEF Field, Fields
<1>6. CASE form = "macro"
  BY <1>2, <1>6, FormFields
<1> QED
  BY <1>2, <1>4, <1>5, <1>6

\* A step of the user that keeps this.
FitForm ==
    /\ UNCHANGED <<form, dev, doc, calls, replies>>
    /\ DraftShape' /\ DraftsFollow' /\ DraftsFit'
    /\ place' \in Place

FitCall(c) ==
    /\ CallShape(c) /\ SendsFit(c)
    /\ c.at = "op" => ~Busy
    /\ Start(c)
    /\ UNCHANGED <<form, place, doc, drafts, touched, dev, replies>>

LEMMA ShowFits == ASSUME FitsInv, NEW p \in Place, Show(p) PROVE FitForm
<1>1. FormStep
  BY ShowSteps DEF FitsInv
<1>2. place' = p /\ drafts' = [c \in Card |-> Seed(doc[p][c])]
  BY DEF Show, Seeds
<1>3. Card' = Card /\ Field' = Field
  BY <1>1 DEF FormStep, Card, Field, Fields
<1>4. ASSUME "binding" \in Field, NEW c \in Card PROVE Proper(drafts'[c]["binding"])
  <2>1. drafts'[c] = Seed(doc[p][c])
    BY <1>2
  <2>2. Seed(doc[p][c])["binding"] = Held(doc[p][c]["binding"])
    BY <1>4 DEF Seed, Held
  <2>3. Fit(doc[p][c]["binding"])
    BY <1>4 DEF FitsInv, ContentFits
  <2> QED
    BY <2>1, <2>2, <2>3 DEF Fit
<1>5. DraftsFit'
  BY <1>3, <1>4 DEF DraftsFit
<1> QED
  BY <1>1, <1>2, <1>5 DEF FormStep, FitForm

LEMMA DraftFits ==
  ASSUME FitsInv, NEW c \in Card, NEW f \in Field, NEW v, f = "binding" => Proper(v), Draft(c, f, v)
  PROVE  FitForm
<1>1. FormStep
  BY DraftSteps DEF FitsInv
<1>2. place' = place /\ drafts' = [drafts EXCEPT ![c][f] = v]
  BY DEF Draft, drawn
<1>3. Card' = Card /\ Field' = Field
  BY <1>1 DEF FormStep, Card, Field, Fields
<1>4. DOMAIN drafts = Card /\ DOMAIN drafts[c] = Field
  BY DEF FitsInv, DraftShape
<1>5. ASSUME "binding" \in Field, NEW x \in Card PROVE Proper(drafts'[x]["binding"])
  <2>1. Proper(drafts[x]["binding"])
    BY <1>5 DEF FitsInv, DraftsFit
  <2>2. drafts'[x]["binding"] = IF x = c /\ f = "binding" THEN v ELSE drafts[x]["binding"]
    BY <1>2, <1>4, <1>5
  <2> QED
    BY <2>1, <2>2
<1>6. DraftsFit'
  BY <1>3, <1>5 DEF DraftsFit
<1> QED
  BY <1>1, <1>2, <1>6 DEF FormStep, FitForm, FitsInv

LEMMA ChangeFits ==
  ASSUME FitsInv, NEW sends, NEW mine, Change(sends, mine),
         NEW S, sends \in Seq(S), Len(sends) >= 1, form \notin OneByOne => Len(sends) = 1,
         \A i \in 1 .. Len(sends) : SetFits(sends[i])
  PROVE  \E c : FitCall(c)
<1> DEFINE c == [at |-> "op", served |-> FALSE, place |-> place, sends |-> sends, mine |-> mine, sure |-> Sure]
<1>1. ~Busy /\ Start(c) /\ UNCHANGED <<form, place, doc, drafts, touched, dev, replies>>
  BY DEF Change, forms, drawn
<1>2. /\ c.at = "op" /\ c.served = FALSE /\ c.sends = sends
      /\ DOMAIN c = {"at", "served", "place", "sends", "mine", "sure"}
  OBVIOUS
<1> HIDE DEF c
<1>3. CallShape(c)
  BY <1>2 DEF CallShape, OpShape
<1>4. SendsFit(c)
  BY <1>2 DEF SendsFit
<1> QED
  BY <1>1, <1>3, <1>4 DEF FitCall

LEMMA OneSetFits ==
  ASSUME FitsInv, NEW set, NEW mine, Change(<<set>>, mine), SetFits(set)
  PROVE  \E c : FitCall(c)
<1> DEFINE sends == <<set>>
<1>1. sends \in Seq({set}) /\ Len(sends) = 1 /\ sends[1] = set
  OBVIOUS
<1>2. Change(sends, mine) /\ Len(sends) >= 1
  OBVIOUS
<1> HIDE DEF sends
<1>3. \A i \in 1 .. Len(sends) : SetFits(sends[i])
  BY <1>1
<1> QED
  BY <1>1, <1>2, <1>3, ChangeFits

LEMMA WholeFits == ASSUME FitsInv, GivenFit, NEW c \in Card, ApplyWhole(c) PROVE \E x : FitCall(x)
<1> DEFINE set == All(c, drafts[c])
<1>1. Change(<<set>>, touched)
  BY DEF ApplyWhole
<1>2. DOMAIN set = {c} /\ set[c] = drafts[c] /\ DOMAIN drafts[c] = Field
  BY DEF All, FitsInv, DraftShape
<1> HIDE DEF set
<1>3. "binding" \in Field => Fit(drafts[c]["binding"])
  BY ProperFits DEF FitsInv, DraftsFit
<1>4. SetFits(set)
  BY <1>2, <1>3 DEF SetFits
<1> QED
  BY <1>1, <1>4, OneSetFits

LEMMA ChangedFits ==
  ASSUME FitsInv, GivenFit, Card = {"it"}, form \in OneByOne, ApplyChanged
  PROVE  \E x : FitCall(x)
<1> DEFINE fields == Changed("it")
           sends == [i \in DOMAIN fields |-> Set("it", fields[i], drafts["it"][fields[i]])]
<1>1. fields # <<>> /\ Change(sends, touched)
  BY DEF ApplyChanged
<1>2. PICK n \in Nat : DOMAIN fields = 1 .. n /\ \A i \in 1 .. n : fields[i] \in Field
  <2> DEFINE kept == {f \in Field : drafts["it"][f] # Seed(doc[place]["it"])[f]}
  <2>1. fields = InOrderOf(kept)
    BY DEF Changed
  <2>2. form \in Forms
    BY DEF FitsInv, DraftShape
  <2> HIDE DEF kept, fields
  <2>3. \E n \in Nat : DOMAIN fields = 1 .. n /\ \A i \in 1 .. n : fields[i] \in Field \cap kept
    BY <2>1, <2>2, InOrderFields
  <2> QED
    BY <2>3
<1>3. n # 0
  <2>1. fields = [i \in DOMAIN fields |-> fields[i]]
    BY DEF Changed, InOrderOf
  <2> HIDE DEF fields
  <2>2. n = 0 => fields = <<>>
    BY <1>2, <2>1
  <2> QED
    BY <1>1, <2>2
<1> HIDE DEF fields
<1>4. \A i \in 1 .. n : sends[i] = Set("it", fields[i], drafts["it"][fields[i]])
  BY <1>2
<1>5. sends \in Seq({sends[i] : i \in 1 .. n}) /\ Len(sends) = n
  BY <1>2
<1> HIDE DEF sends
<1>6. ASSUME NEW i \in 1 .. n PROVE SetFits(sends[i])
  <2> DEFINE f == fields[i]
  <2>1. sends[i] = Set("it", f, drafts["it"][f]) /\ f \in Field
    BY <1>2, <1>4
  <2> HIDE DEF f
  <2>2. DOMAIN sends[i] = {"it"} /\ DOMAIN sends[i]["it"] = {f} /\ sends[i]["it"][f] = drafts["it"][f]
    BY <2>1 DEF Set
  <2>3. f = "binding" => Fit(drafts["it"][f])
    BY <2>1, ProperFits DEF FitsInv, DraftsFit
  <2> QED
    BY <2>2, <2>3 DEF SetFits
<1>7. Len(sends) >= 1
  BY <1>3, <1>5
<1> QED
  BY <1>1, <1>5, <1>6, <1>7, ChangeFits

LEMMA ResetFits ==
  ASSUME FitsInv, GivenFit, NEW these, ToDevicetree(these)
  PROVE  \E x : FitCall(x)
<1> DEFINE set == [x \in these |-> Devicetree]
<1>1. Change(<<set>>, [x \in Card |-> Field])
  BY DEF ToDevicetree
<1>2. "binding" \in DOMAIN Devicetree => Fit(Devicetree["binding"])
  BY GivenFits DEF Devicetree
<1>3. DOMAIN set = these /\ \A x \in these : set[x] = Devicetree
  OBVIOUS
<1> HIDE DEF set
<1>4. SetFits(set)
  BY <1>2, <1>3 DEF SetFits
<1> QED
  BY <1>1, <1>4, OneSetFits

LEMMA UserFits ==
  ASSUME FitsInv, Fitting, User
  PROVE  FitForm \/ \E c : FitCall(c)
<1> DEFINE Goal == FitForm \/ \E c : FitCall(c)
<1>1. form \in Forms /\ GivenFit
  BY DEF FitsInv, DraftShape, Fitting
<1>2. /\ form \in {"key", "combo", "holdtap", "macro", "trackball"} => Card = {"it"}
      /\ form = "key" => Field = {"binding"}
      /\ form \in {"encoder", "combo"} => Field = {"binding", Plain[1]}
      /\ form = "macro" => Field = {"steps"}
      /\ form = "trackball" => Plain[1] \in Field
      /\ Plain[1] # "binding"
      /\ form \notin {"key", "encoder", "combo"} => "binding" \notin Field
  BY <1>1, FormFields, BindingForms
<1>3. ASSUME NEW p \in Place, Show(p) PROVE Goal
  BY <1>3, ShowFits
<1>4. ASSUME NEW c \in Card, NEW f \in Field, NEW v, f # "binding", Draft(c, f, v) PROVE Goal
  BY <1>4, DraftFits
<1>5. ASSUME NEW c \in Card, EditBinding(c), "binding" \in Field PROVE Goal
  <2>1. PICK b \in Edited(drafts[c]["binding"]) : Draft(c, "binding", b)
    BY <1>5 DEF EditBinding
  <2>2. Proper(drafts[c]["binding"])
    BY <1>5 DEF FitsInv, DraftsFit
  <2>3. Proper(b)
    BY <2>2, EditedFits DEF Fitting
  <2> QED
    BY <1>5, <2>1, <2>3, DraftFits
<1>6. ASSUME NEW c \in Card, NEW f \in Field, f # "binding", SetField(c, f) PROVE Goal
  BY <1>4, <1>6 DEF SetField
<1>7. ASSUME NEW c \in Card, ApplyWhole(c) PROVE Goal
  BY <1>1, <1>7, WholeFits
<1>8. ASSUME form \in {"combo", "holdtap", "trackball"}, ApplyChanged PROVE Goal
  BY <1>1, <1>2, <1>8, ChangedFits DEF OneByOne
<1>9. ASSUME NEW these, ToDevicetree(these) PROVE Goal
  BY <1>1, <1>9, ResetFits
<1>10. ASSUME NEW set, NEW mine, SetFits(set), Change(<<set>>, mine) PROVE Goal
  BY <1>10, OneSetFits
<1> SUFFICES Goal
  OBVIOUS
<1> HIDE DEF Goal
<1>11. ASSUME NEW p \in Place, SelectInInspector(p) \/ SelectSensor(p) \/ SelectSlot(p) \/ SelectProcessor(p)
       PROVE  Goal
  BY <1>3, <1>11 DEF SelectInInspector, SelectSensor, SelectSlot, SelectProcessor
<1>12. ASSUME NEW c \in Card, EditDirection(c) \/ EditCondlayer(c)
       PROVE  Goal
  BY <1>2, <1>5, <1>6, <1>12 DEF EditDirection, EditCondlayer
<1>13. ASSUME NEW c \in Card, ApplyDirection(c) \/ ApplyCondlayer(c)
       PROVE  Goal
  BY <1>7, <1>13 DEF ApplyDirection, ApplyCondlayer
<1>14. CASE \/ \E c \in Card : ResetCondlayer(c)
            \/ ResetEncoder \/ ResetCombo \/ ResetHoldtap \/ ResetTrackball
  BY <1>9, <1>14 DEF ResetCondlayer, ResetEncoder, ResetCombo, ResetHoldtap, ResetTrackball
<1>15. CASE EditKey \/ EditCombo \/ EditHoldtap \/ TypeNumber
  BY <1>2, <1>5, <1>6, <1>15 DEF EditKey, EditCombo, EditHoldtap, TypeNumber
<1>16. CASE ApplyKey \/ ApplyMacro
  BY <1>2, <1>7, <1>16 DEF ApplyKey, ApplyMacro
<1>17. CASE ApplyCombo \/ ApplyHoldtap \/ LeaveNumber
  BY <1>8, <1>17 DEF ApplyCombo, ApplyHoldtap, LeaveNumber
<1>18. ASSUME NEW f \in Field, NEW v \in Value, Choose1(f, v) PROVE Goal
  <2> DEFINE set == Set("it", f, v)
  <2>1. DOMAIN set = {"it"} /\ DOMAIN set["it"] = {f}
    BY DEF Set
  <2>2. f # "binding" /\ Change(<<set>>, Mine("it", {f}))
    BY <1>2, <1>18 DEF Choose1
  <2> HIDE DEF set
  <2>3. SetFits(set)
    BY <2>1, <2>2 DEF SetFits
  <2> QED
    BY <1>10, <2>2, <2>3
<1>19. ASSUME NEW b \in Transparent, MakeTransparent(b) PROVE Goal
  <2> DEFINE set == Set("it", "binding", Binding(b, 0, 0))
  <2>1. DOMAIN set = {"it"} /\ DOMAIN set["it"] = {"binding"} /\ set["it"]["binding"] = Binding(b, 0, 0)
    BY DEF Set
  <2>2. Change(<<set>>, Mine("it", {"binding"}))
    BY <1>19 DEF MakeTransparent
  <2> HIDE DEF set
  <2>3. Fit(Binding(b, 0, 0))
    BY <1>1, ProperFits DEF GivenFit
  <2>4. SetFits(set)
    BY <2>1, <2>3 DEF SetFits
  <2> QED
    BY <1>10, <2>2, <2>4
<1>20. CASE Clear
  <2> DEFINE set == All("it", [steps |-> <<>>])
  <2>1. DOMAIN set = {"it"} /\ DOMAIN set["it"] = {"steps"}
    BY DEF All
  <2>2. Change(<<set>>, Mine("it", {"steps"}))
    BY <1>20 DEF Clear
  <2> HIDE DEF set
  <2>3. SetFits(set)
    BY <2>1 DEF SetFits
  <2> QED
    BY <1>10, <2>2, <2>3
<1>21. CASE EditRows
  <2>1. form = "macro" /\ Card = {"it"} /\ Field = {"steps"}
    BY <1>2, <1>21 DEF EditRows
  <2>2. PICK rows : SetRows(rows)
    BY <1>21 DEF EditRows, AddRow, PatchRow, MoveRow, DeleteRow
  <2> QED
    BY <1>4, <2>1, <2>2 DEF SetRows
<1>22. ASSUME NEW rows, Parse(rows) PROVE Goal
  <2> DEFINE c == [at |-> "parse", served |-> FALSE, steps |-> rows]
  <2>1. c.at = "parse" /\ c.served = FALSE /\ {"at", "served"} \subseteq DOMAIN c
    OBVIOUS
  <2>2. form = "macro" /\ Start(c) /\ UNCHANGED <<form, place, doc, drafts, touched, dev, replies>>
    BY <1>22 DEF Parse, forms, drawn
  <2> HIDE DEF c
  <2>3. FitCall(c)
    BY <2>1, <2>2 DEF FitCall, CallShape, SendsFit
  <2> QED
    BY <2>3 DEF Goal
<1>23. CASE Refresh
  <2>1. Reading.at = "state" /\ Reading.served = FALSE /\ {"at", "served"} \subseteq DOMAIN Reading
    BY DEF Reading
  <2>2. Start(Reading) /\ UNCHANGED <<form, place, doc, drafts, touched, dev, replies>>
    BY <1>23 DEF Refresh, forms, drawn
  <2>3. FitCall(Reading)
    BY <2>1, <2>2 DEF FitCall, CallShape, SendsFit
  <2> QED
    BY <2>3 DEF Goal
<1> QED
  BY <1>11, <1>12, <1>13, <1>14, <1>15, <1>16, <1>17, <1>18, <1>19, <1>20, <1>21, <1>22, <1>23 DEF User, Goal

\* The keyboard holds what it is sent.
LEMMA WithFits ==
  ASSUME NEW x, DOMAIN x = Place, ContentFits(x), NEW p, NEW set, SetFits(set)
  PROVE  DOMAIN With(x, p, set) = Place /\ ContentFits(With(x, p, set))
<1> DEFINE cards == [c \in Card |->
                        [f \in Field |-> IF c \in DOMAIN set /\ f \in DOMAIN set[c] THEN set[c][f] ELSE x[p][c][f]]]
           y == With(x, p, set)
<1>1. DOMAIN y = Place /\ \A q \in Place : y[q] = IF q = p THEN cards ELSE x[q]
  BY DEF With
<1>2. ASSUME "binding" \in Field, NEW c \in Card, p \in Place PROVE Fit(cards[c]["binding"])
  <2>1. Fit(x[p][c]["binding"])
    BY <1>2 DEF ContentFits
  <2>2. c \in DOMAIN set /\ "binding" \in DOMAIN set[c] => Fit(set[c]["binding"])
    BY DEF SetFits
  <2>3. cards[c]["binding"] = IF c \in DOMAIN set /\ "binding" \in DOMAIN set[c] THEN set[c]["binding"]
                               ELSE x[p][c]["binding"]
    BY <1>2
  <2> HIDE DEF cards
  <2> QED
    BY <2>1, <2>2, <2>3
<1> HIDE DEF cards, y
<1>3. ContentFits(y)
  BY <1>1, <1>2 DEF ContentFits
<1> QED
  BY <1>1, <1>3 DEF y

LEMMA InitFits == Init /\ GivenFit => FitsInv
<1> SUFFICES ASSUME Init, GivenFit PROVE FitsInv
  OBVIOUS
<1>1. Calls /\ Replies /\ DraftShape /\ DraftsFollow
  BY InitEditorsInv DEF EditorsInv
<1>2. /\ calls = [l \in Lane |-> Free] /\ replies = <<>> /\ doc = dev /\ place \in Place
      /\ dev = [p \in Place |-> [c \in Card |-> Devicetree]]
      /\ drafts = [c \in Card |-> Seed(doc[place][c])]
  BY DEF Init, Seeds
<1>3. "binding" \in Field => Fit(Devicetree["binding"])
  BY GivenFits DEF Devicetree
<1>4. ContentFits(dev)
  BY <1>2, <1>3 DEF ContentFits
<1>5. DraftsFit
  <2> SUFFICES ASSUME "binding" \in Field, NEW c \in Card PROVE Proper(drafts[c]["binding"])
    BY DEF DraftsFit
  <2>1. drafts[c] = Seed(doc[place][c]) /\ doc[place][c] = Devicetree
    BY <1>2
  <2>2. Seed(Devicetree)["binding"] = Held(Devicetree["binding"])
    BY DEF Seed, Held
  <2> QED
    BY <1>3, <2>1, <2>2 DEF Fit
<1>6. \A l \in Lane : SendsFit(calls[l])
  BY <1>2, NotCalled DEF SendsFit
<1>7. RepliesFit
  BY <1>2 DEF RepliesFit
<1> QED
  BY <1>1, <1>2, <1>4, <1>5, <1>6, <1>7 DEF FitsInv

\* The parts of this that a step leaves alone.
LEMMA SameCards ==
  ASSUME form' = form
  PROVE  Card' = Card /\ Field' = Field
  BY DEF Card, Field, Fields

LEMMA SameDrafts ==
  ASSUME DraftShape, DraftsFollow, DraftsFit, UNCHANGED <<form, place, doc, drafts, touched>>
  PROVE  DraftShape' /\ DraftsFollow' /\ DraftsFit'
  BY SameForm DEF DraftsFit

LEMMA FitFormInv == ASSUME FitsInv, FitForm PROVE FitsInv'
<1>1. /\ UNCHANGED <<form, dev, doc, calls, replies>>
      /\ DraftShape' /\ DraftsFollow' /\ DraftsFit' /\ place' \in Place
  BY DEF FitForm
<1>2. Card' = Card /\ Field' = Field
  BY <1>1, SameCards
<1>3. Calls' /\ Replies'
  BY <1>1 DEF FitsInv, Calls, Replies, CallShape, OpShape
<1>4. ContentFits(dev)' /\ ContentFits(doc)'
  BY <1>1, <1>2 DEF FitsInv, ContentFits
<1>5. \A l \in Lane : SendsFit(calls[l])'
  BY <1>1 DEF FitsInv, SendsFit
<1>6. RepliesFit'
  BY <1>1, <1>2 DEF FitsInv, RepliesFit, ContentFits
<1> QED
  BY <1>1, <1>3, <1>4, <1>5, <1>6 DEF FitsInv

LEMMA FitCallInv == ASSUME FitsInv, NEW c, FitCall(c) PROVE FitsInv'
<1>1. UNCHANGED <<form, place, doc, drafts, touched, dev, replies>> /\ CallShape(c) /\ SendsFit(c)
  BY DEF FitCall
<1>2. PICK l \in Lane :
         /\ calls'[l] = c
         /\ \A m \in Lane \ {l} : calls'[m] = calls[m]
         /\ \A k \in 1 .. Len(replies) : replies[k].to \in Lane /\ calls'[replies[k].to] = calls[replies[k].to]
         /\ Calls' /\ Replies'
  BY <1>1, Started DEF FitsInv, FitCall
<1>3. Card' = Card /\ Field' = Field
  BY <1>1, SameCards
<1>4. DraftShape' /\ DraftsFollow' /\ DraftsFit'
  BY <1>1, SameDrafts DEF FitsInv
<1>5. ContentFits(dev)' /\ ContentFits(doc)'
  BY <1>1, <1>3 DEF FitsInv, ContentFits
<1>6. \A m \in Lane : SendsFit(calls'[m])
  BY <1>1, <1>2 DEF FitsInv
<1>7. \A m \in Lane : SendsFit(calls[m])'
  BY <1>6 DEF SendsFit
<1>8. RepliesFit'
  BY <1>1, <1>2, <1>3 DEF FitsInv, RepliesFit, ContentFits
<1> QED
  BY <1>1, <1>2, <1>4, <1>5, <1>7, <1>8 DEF FitsInv

\* A step of the server.
LEMMA ServeFits == ASSUME FitsInv, NEW l \in Lane, Serve(l) PROVE FitsInv'
<1>0. UNCHANGED <<form, place, doc, drafts, touched>>
  BY DEF Serve, ServeSet, ServeRead, forms, drawn
<1>1. PICK what, ok, d :
         /\ "free" \notin what /\ Asked(l, what) /\ Reply(l, ok, d)
         /\ DOMAIN dev' = Place /\ ContentFits(dev')
         /\ ok /\ calls[l].at \in {"state", "features"} => d = dev
  <2>1. CASE ServeSet(l)
    <3> DEFINE after == With(dev, calls[l].place, Head(calls[l].sends))
    <3>1. Asked(l, {"op"}) /\ calls[l].at = "op" /\ dev' \in {dev, after}
      BY <2>1 DEF ServeSet, Asked
    <3>2. PICK ok, d : Reply(l, ok, d)
      BY <2>1 DEF ServeSet
    <3>3. OpShape(calls[l]) /\ SendsFit(calls[l])
      BY <3>1, NotCalled DEF FitsInv, Calls, CallShape
    <3>4. Head(calls[l].sends) = calls[l].sends[1] /\ 1 \in 1 .. Len(calls[l].sends)
      BY <3>3 DEF OpShape
    <3>5. SetFits(Head(calls[l].sends))
      BY <3>1, <3>3, <3>4 DEF SendsFit
    <3>6. DOMAIN after = Place /\ ContentFits(after)
      BY <3>5, WithFits DEF FitsInv
    <3> HIDE DEF after
    <3>7. DOMAIN dev' = Place /\ ContentFits(dev')
      BY <3>1, <3>6 DEF FitsInv
    <3> QED
      BY <3>1, <3>2, <3>7
  <2>2. CASE ServeRead(l)
    <3> DEFINE what == {"state", "features", "parse"}
    <3>1. Asked(l, what) /\ "free" \notin what /\ dev' = dev
      BY <2>2 DEF ServeRead
    <3>2. PICK ok, d : Reply(l, ok, d) /\ (ok /\ calls[l].at # "parse" => d = dev)
      BY <2>2 DEF ServeRead
    <3> HIDE DEF what
    <3> QED
      BY <3>1, <3>2 DEF FitsInv
  <2> QED
    BY <2>1, <2>2 DEF Serve
<1> DEFINE n == Len(replies) + 1
           c == [calls[l] EXCEPT !.served = TRUE]
<1>2. /\ Len(replies) \in Nat /\ Len(replies') = n
      /\ \A k \in 1 .. Len(replies) :
            /\ replies'[k] = replies[k] /\ replies[k].to \in Lane \ {l}
            /\ calls'[replies[k].to] = calls[replies[k].to]
      /\ replies'[n].to = l /\ replies'[n].ok = ok /\ replies'[n].doc = d
      /\ CallShape(calls[l]) /\ calls'[l] = c /\ c.at = calls[l].at
      /\ \A m \in Lane \ {l} : calls'[m] = calls[m]
      /\ Calls' /\ Replies'
  BY <1>0, <1>1, Replied DEF FitsInv
<1>3. c.at = "op" => c.sends = calls[l].sends
  BY <1>2 DEF CallShape, OpShape
<1> HIDE DEF c
<1>4. Card' = Card /\ Field' = Field
  BY <1>0, SameCards
<1>5. DraftShape' /\ DraftsFollow' /\ DraftsFit'
  BY <1>0, SameDrafts DEF FitsInv
<1>6. ContentFits(dev)' /\ ContentFits(doc)'
  BY <1>0, <1>1, <1>4 DEF FitsInv, ContentFits
<1>7. \A m \in Lane : SendsFit(calls[m])'
  <2>1. SendsFit(c)
    BY <1>2, <1>3 DEF FitsInv, SendsFit
  <2>2. \A m \in Lane : SendsFit(calls'[m])
    BY <1>2, <2>1 DEF FitsInv
  <2> QED
    BY <2>2 DEF SendsFit
<1>8. RepliesFit'
  <2> SUFFICES ASSUME NEW k \in 1 .. n, replies'[k].ok, calls'[replies'[k].to].at \in {"state", "features"}
               PROVE  ContentFits(replies'[k].doc)
    BY <1>2, <1>4 DEF RepliesFit, ContentFits
  <2>1. CASE k = n
    BY <1>1, <1>2, <2>1 DEF FitsInv
  <2>2. CASE k \in 1 .. Len(replies)
    BY <1>2, <2>2 DEF FitsInv, RepliesFit
  <2> QED
    BY <1>2, <2>1, <2>2
<1> QED
  BY <1>0, <1>1, <1>2, <1>5, <1>6, <1>7, <1>8 DEF FitsInv

\* What one of the replies leaves when it arrives.
LEMMA TakenOut ==
  ASSUME Calls, Replies, NEW k \in 1 .. Len(replies), Take(k), NEW c, GoOn(replies[k].to, c), form' = form,
         c = Free \/ (CallShape(c) /\ (c.at = "op" => calls[replies[k].to].at = "op"))
  PROVE  LET l == replies[k].to
         IN  /\ calls'[l] = c
             /\ \A m \in Lane \ {l} : calls'[m] = calls[m]
             /\ \A j \in 1 .. Len(replies') : \E i \in 1 .. Len(replies) :
                    replies'[j] = replies[i] /\ calls'[replies[i].to] = calls[replies[i].to]
             /\ Calls' /\ Replies'
<1> DEFINE l == replies[k].to
           at(j) == IF j < k THEN j ELSE j + 1
<1>1. PICK S : replies \in Seq(S)
  BY DEF Replies
<1>2. Len(replies) \in Nat /\ k \in 1 .. Len(replies) /\ k \in Int
  BY <1>1
<1>3. l \in Lane
  BY DEF Replies
<1>4. calls'[l] = c /\ (\A m \in Lane \ {l} : calls'[m] = calls[m]) /\ calls' = [m \in Lane |-> calls'[m]]
  BY <1>3 DEF Calls, GoOn
<1>5. /\ replies' \in Seq(S) /\ Len(replies') = Len(replies) - 1
      /\ \A j \in 1 .. Len(replies') : replies'[j] = replies[at(j)]
  <2> DEFINE a == SubSeq(replies, 1, k - 1)
             b == SubSeq(replies, k + 1, Len(replies))
  <2>1. replies' = a \o b
    BY DEF Take, RemoveAt
  <2>2. a \in Seq(S) /\ Len(a) = k - 1 /\ \A j \in 1 .. k - 1 : a[j] = replies[j]
    BY <1>1, <1>2
  <2>3. b \in Seq(S) /\ Len(b) = Len(replies) - k /\ \A j \in 1 .. Len(replies) - k : b[j] = replies[j + k]
    BY <1>1, <1>2
  <2> HIDE DEF a, b
  <2>4. /\ replies' \in Seq(S) /\ Len(replies') = Len(replies) - 1
        /\ \A j \in 1 .. Len(replies') : replies'[j] = IF j <= k - 1 THEN a[j] ELSE b[j - (k - 1)]
    <3>1. /\ a \o b \in Seq(S) /\ Len(a \o b) = Len(a) + Len(b)
          /\ \A j \in 1 .. Len(a) + Len(b) : (a \o b)[j] = IF j <= Len(a) THEN a[j] ELSE b[j - Len(a)]
      BY <2>2, <2>3, ConcatProperties
    <3>2. Len(a) + Len(b) = Len(replies) - 1
      BY <1>2, <2>2, <2>3
    <3> QED
      BY <2>1, <2>2, <3>1, <3>2
  <2>5. ASSUME NEW j \in 1 .. Len(replies') PROVE replies'[j] = replies[at(j)]
    <3>1. CASE j <= k - 1
      BY <1>2, <2>2, <2>4, <3>1
    <3>2. CASE ~(j <= k - 1)
      <4>1. j - (k - 1) \in 1 .. Len(replies) - k /\ (j - (k - 1)) + k = j + 1 /\ at(j) = j + 1
        BY <1>2, <2>4, <3>2
      <4> QED
        BY <2>3, <2>4, <3>2, <4>1
    <3> QED
      BY <3>1, <3>2
  <2> QED
    BY <2>4, <2>5
<1>6. \A j \in 1 .. Len(replies') : at(j) \in 1 .. Len(replies) /\ at(j) # k
  BY <1>2, <1>5
<1>7. \A j, i \in 1 .. Len(replies') : at(j) = at(i) => j = i
  BY <1>2, <1>5
<1> HIDE DEF at
<1>8. \A j \in 1 .. Len(replies') : replies[at(j)].to \in Lane \ {l}
  BY <1>6 DEF Replies
<1>9. \A j \in 1 .. Len(replies') : calls'[replies[at(j)].to] = calls[replies[at(j)].to]
  BY <1>4, <1>8
<1>10. Calls'
  <2>1. \A m \in Lane : calls'[m].at = "op" => calls[m].at = "op"
    BY <1>4, NotCalled
  <2>2. \A m \in Lane : calls'[m] = Free \/ CallShape(calls'[m])
    BY <1>4 DEF Calls
  <2>3. \A m \in Lane : calls'[m] = Free \/ CallShape(calls[m])'
    BY <2>2 DEF CallShape, OpShape
  <2> QED
    BY <1>4, <2>1, <2>3 DEF Calls
<1>11. Replies'
  <2>1. ASSUME NEW j \in 1 .. Len(replies')
        PROVE  /\ replies'[j].to \in Lane
               /\ calls'[replies'[j].to] # Free /\ calls'[replies'[j].to].served
    BY <1>5, <1>6, <1>8, <1>9 DEF Replies
  <2>2. ASSUME NEW j \in 1 .. Len(replies'), NEW i \in 1 .. Len(replies'), replies'[i].to = replies'[j].to
        PROVE  i = j
    <3>1. replies[at(i)].to = replies[at(j)].to
      BY <1>5, <2>2
    <3>2. at(i) = at(j)
      BY <1>6, <3>1 DEF Replies
    <3> QED
      BY <1>7, <3>2
  <2> QED
    BY <1>5, <2>1, <2>2 DEF Replies
<1>12. \A j \in 1 .. Len(replies') : \E i \in 1 .. Len(replies) :
          replies'[j] = replies[i] /\ calls'[replies[i].to] = calls[replies[i].to]
  BY <1>5, <1>6, <1>9
<1> QED
  BY <1>4, <1>10, <1>11, <1>12

\* A call of the page goes on.
LEMMA GoOnFits ==
  ASSUME FitsInv, NEW k \in 1 .. Len(replies), Take(k), NEW c, GoOn(replies[k].to, c),
         c = Free \/ (CallShape(c) /\ (c.at = "op" => calls[replies[k].to].at = "op")),
         SendsFit(c), UNCHANGED <<form, place, dev>>,
         DraftShape', DraftsFollow', DraftsFit', ContentFits(doc')
  PROVE  FitsInv'
<1>1. /\ calls'[replies[k].to] = c
      /\ \A m \in Lane \ {replies[k].to} : calls'[m] = calls[m]
      /\ \A j \in 1 .. Len(replies') : \E i \in 1 .. Len(replies) :
             replies'[j] = replies[i] /\ calls'[replies[i].to] = calls[replies[i].to]
      /\ Calls' /\ Replies'
  BY TakenOut DEF FitsInv
<1>2. Card' = Card /\ Field' = Field
  BY SameCards
<1>3. ContentFits(dev)' /\ ContentFits(doc)'
  BY <1>2 DEF FitsInv, ContentFits
<1>4. \A m \in Lane : SendsFit(calls'[m])
  BY <1>1 DEF FitsInv
<1>5. \A m \in Lane : SendsFit(calls[m])'
  BY <1>4 DEF SendsFit
<1>6. RepliesFit'
  <2> SUFFICES ASSUME NEW j \in 1 .. Len(replies'), replies'[j].ok,
                      calls'[replies'[j].to].at \in {"state", "features"}
               PROVE  ContentFits(replies'[j].doc)
    BY <1>2 DEF RepliesFit, ContentFits
  <2>1. PICK i \in 1 .. Len(replies) : replies'[j] = replies[i] /\ calls'[replies[i].to] = calls[replies[i].to]
    BY <1>1
  <2> QED
    BY <2>1 DEF FitsInv, RepliesFit
<1> QED
  BY <1>1, <1>3, <1>5, <1>6 DEF FitsInv

\* A form that opens anew opens on such bindings.
LEMMA ReseedFits ==
  ASSUME FitsInv, Reseed, ContentFits(doc'), UNCHANGED <<form, place>>
  PROVE  DraftShape' /\ DraftsFollow' /\ DraftsFit'
<1>1. DraftShape' /\ DraftsFollow'
  BY Reseeded DEF FitsInv
<1>2. Card' = Card /\ Field' = Field
  BY SameCards
<1>3. ASSUME "binding" \in Field, NEW c \in Card PROVE Proper(drafts'[c]["binding"])
  <2>1. drafts'[c]["binding"] \in {drafts[c]["binding"], Seed(doc'[place][c])["binding"]}
    BY <1>3 DEF Reseed
  <2>2. Seed(doc'[place][c])["binding"] = Held(doc'[place][c]["binding"])
    BY <1>3 DEF Seed, Held
  <2>3. Fit(doc'[place][c]["binding"])
    BY <1>3 DEF FitsInv, ContentFits
  <2>4. Proper(drafts[c]["binding"])
    BY <1>3 DEF FitsInv, DraftsFit
  <2> QED
    BY <2>1, <2>2, <2>3, <2>4 DEF Fit
<1>4. DraftsFit'
  BY <1>2, <1>3 DEF DraftsFit
<1> QED
  BY <1>1, <1>4

LEMMA ResumeFits == ASSUME FitsInv, Resume PROVE FitsInv'
<1>1. PICK k \in DOMAIN replies :
         /\ Take(k) /\ UNCHANGED dev
         /\ SetAnswered(k) \/ StateRead(k) \/ FeaturesRead(k) \/ ReloadFailed(k) \/ Parsed(k)
  BY DEF Resume, Arrives
<1>2. k \in 1 .. Len(replies)
  BY DEF FitsInv, Replies
<1>3. ContentFits(doc) /\ DraftShape /\ DraftsFollow /\ DraftsFit
  BY DEF FitsInv
<1> DEFINE l == replies[k].to
           was == calls[l]
<1>4. CallShape(was) /\ SendsFit(was)
  BY <1>2 DEF FitsInv, Replies, Calls
<1>5. SendsFit(Free) /\ SendsFit(Reading) /\ CallShape(Reading) /\ Reading.at = "state"
  BY NotCalled DEF SendsFit, Reading, CallShape
<1>6. CASE SetAnswered(k)
  <2> DEFINE c == IF replies[k].ok /\ Len(was.sends) > 1
                  THEN [was EXCEPT !.sends = Tail(@), !.served = FALSE] ELSE Reading
  <2>1. was.at = "op" /\ GoOn(l, c) /\ UNCHANGED <<form, place, doc, drafts, touched>>
    BY <1>6 DEF SetAnswered, forms, drawn
  <2>2. DraftShape' /\ DraftsFollow' /\ DraftsFit' /\ ContentFits(doc')
    BY <1>3, <2>1, SameDrafts
  <2>3. CallShape(c) /\ SendsFit(c)
    <3>1. CASE replies[k].ok /\ Len(was.sends) > 1
      <4> DEFINE d == [was EXCEPT !.sends = Tail(@), !.served = FALSE]
      <4>1. OpShape(was) /\ DOMAIN was = {"at", "served", "place", "sends", "mine", "sure"}
        BY <1>4, <2>1 DEF CallShape, OpShape
      <4>2. d.at = "op" /\ d.served = FALSE /\ d.sends = Tail(was.sends) /\ DOMAIN d = DOMAIN was
        BY <2>1, <4>1
      <4>3. PICK S : was.sends \in Seq(S)
        BY <4>1 DEF OpShape
      <4>4. /\ Tail(was.sends) \in Seq(S) /\ Len(Tail(was.sends)) >= 1
            /\ \A i \in 1 .. Len(Tail(was.sends)) : i + 1 \in 1 .. Len(was.sends) /\ Tail(was.sends)[i] = was.sends[i + 1]
        BY <3>1, <4>3
      <4>5. form \in OneByOne
        <5> DEFINE n == Len(was.sends)
        <5>1. n \in Nat /\ n > 1
          BY <3>1, <4>3
        <5> HIDE DEF n
        <5>2. n # 1
          BY <5>1
        <5>3. Len(was.sends) # 1
          BY <5>2 DEF n
        <5> QED
          BY <4>1, <5>3 DEF OpShape
      <4>6. c = d
        BY <3>1
      <4> HIDE DEF d, c
      <4>7. CallShape(d)
        BY <4>1, <4>2, <4>4, <4>5 DEF CallShape, OpShape
      <4>8. SendsFit(d)
        <5>1. \A i \in 1 .. Len(was.sends) : SetFits(was.sends[i])
          BY <1>4, <2>1 DEF SendsFit
        <5>2. \A i \in 1 .. Len(d.sends) : SetFits(d.sends[i])
          BY <4>2, <4>4, <5>1
        <5> QED
          BY <5>2 DEF SendsFit
      <4> QED
        BY <4>6, <4>7, <4>8
    <3>2. CASE ~(replies[k].ok /\ Len(was.sends) > 1)
      BY <1>5, <3>2
    <3> QED
      BY <3>1, <3>2
  <2> HIDE DEF c
  <2> QED
    BY <1>1, <1>2, <2>1, <2>2, <2>3, GoOnFits
<1>7. CASE StateRead(k)
  <2> DEFINE c == Then(was, "features")
  <2>1. was.at = "state" /\ replies[k].ok /\ GoOn(l, c) /\ UNCHANGED <<form, place>>
    BY <1>7 DEF StateRead, drawn
  <2>2. c.at = "features" /\ c.served = FALSE /\ DOMAIN c = DOMAIN was
    BY <1>4 DEF Then, CallShape
  <2> HIDE DEF c
  <2>3. CallShape(c) /\ SendsFit(c)
    BY <1>4, <2>2 DEF CallShape, SendsFit
  <2>4. ContentFits(replies[k].doc)
    BY <1>2, <2>1 DEF FitsInv, RepliesFit
  <2>5. DraftShape' /\ DraftsFollow' /\ DraftsFit' /\ ContentFits(doc')
    BY <1>3, <1>7, <2>1, <2>4, ReseedFits, SameDrafts DEF StateRead
  <2> QED
    BY <1>1, <1>2, <2>1, <2>2, <2>3, <2>5, GoOnFits
<1>8. CASE FeaturesRead(k)
  <2>1. was.at = "features" /\ replies[k].ok /\ GoOn(l, Free) /\ UNCHANGED <<form, place>>
    BY <1>8 DEF FeaturesRead, drawn
  <2>2. ContentFits(replies[k].doc)
    BY <1>2, <2>1 DEF FitsInv, RepliesFit
  <2>3. DraftShape' /\ DraftsFollow' /\ DraftsFit' /\ ContentFits(doc')
    BY <1>3, <1>8, <2>1, <2>2, ReseedFits, SameDrafts DEF FeaturesRead
  <2> QED
    BY <1>1, <1>2, <1>5, <2>1, <2>3, GoOnFits
<1>9. CASE ReloadFailed(k)
  <2>1. GoOn(l, Free) /\ UNCHANGED <<form, place, doc, drafts, touched>>
    BY <1>9 DEF ReloadFailed, forms, drawn
  <2>2. DraftShape' /\ DraftsFollow' /\ DraftsFit' /\ ContentFits(doc')
    BY <1>3, <2>1, SameDrafts
  <2> QED
    BY <1>1, <1>2, <1>5, <2>1, <2>2, GoOnFits
<1>10. CASE Parsed(k)
  <2>1. was.at = "parse" /\ GoOn(l, Free) /\ UNCHANGED <<form, place, doc>>
    BY <1>10 DEF Parsed, drawn
  <2>2. DraftShape' /\ DraftsFollow'
    BY <1>3, <1>4, <1>10, ParsedForm
  <2>3. DraftsFit'
    <3>1. form = "macro" /\ form \in Forms
      BY <1>3, <1>4, <2>1 DEF CallShape, DraftShape
    <3>2. "binding" \notin Field'
      BY <2>1, <3>1, BindingForms, SameCards
    <3> QED
      BY <3>2 DEF DraftsFit
  <2> QED
    BY <1>1, <1>2, <1>3, <1>5, <2>1, <2>2, <2>3, GoOnFits
<1> QED
  BY <1>1, <1>6, <1>7, <1>8, <1>9, <1>10

LEMMA StepFits == Fitting /\ FitsInv /\ [Next]_editorVars => FitsInv'
<1> SUFFICES ASSUME Fitting, FitsInv, [Next]_editorVars PROVE FitsInv'
  OBVIOUS
<1>1. CASE User
  BY <1>1, UserFits, FitFormInv, FitCallInv
<1>2. CASE Resume
  BY <1>2, ResumeFits
<1>3. ASSUME NEW l \in Lane, Serve(l) PROVE FitsInv'
  BY <1>3, ServeFits
<1>4. CASE UNCHANGED editorVars
  <2>1. UNCHANGED <<form, dev, doc, calls, replies>> /\ UNCHANGED <<form, place, doc, drafts, touched>>
    BY <1>4 DEF editorVars
  <2>2. FitForm
    BY <2>1, SameDrafts DEF FitForm, FitsInv
  <2> QED
    BY <2>2, FitFormInv
<1> QED
  BY <1>1, <1>2, <1>3, <1>4 DEF Next

\* On a keyboard whose metadata and own bindings make sense, every binding a form drafts has
\* parameters that mean something to its behavior, whatever behaviors, keycodes and
\* modifiers are picked in turn and whatever is sent, answered and reloaded meanwhile.
THEOREM DraftedBindingsFit == Fitting => (Spec => []ParamsFit)
<1> SUFFICES ASSUME Fitting PROVE Spec => []ParamsFit
  OBVIOUS
<1>1. Init => FitsInv
  BY InitFits DEF Fitting
<1>2. FitsInv => ParamsFit
  BY DEF FitsInv, DraftsFit, ParamsFit, Proper
<1> QED
  BY <1>1, <1>2, StepFits, PTL DEF Spec
===============================================================================
