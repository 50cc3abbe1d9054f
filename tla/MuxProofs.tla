------------------------------- MODULE MuxProofs -------------------------------
(***************************************************************************)
(* Proofs about the multiplexer's threads, for any frames, streams, closing *)
(* threads and number of reader threads, with no assumption on when they    *)
(* act.  Then about the practice mode that the streams feed.                *)
(***************************************************************************)
EXTENDS MuxSerial, Practice, FiniteSetTheorems, SequenceTheorems, WellFoundedInduction, TLAPS

Places == {"off", "new", "check", "read", "append", "load", "store", "deliver", "hand"}
Calls == {"out", "start", "in", "broken", "stop", "join", "closed"}

\* What the variables hold, whatever the threads do.
Types ==
    /\ sent \in Nat /\ {wire, buf, pending, got} \subseteq Seq(Int)
    /\ queue \in [Subscriber -> Seq(Int)] /\ delivered \subseteq Monitor
    /\ thread \in Reader \cup {NoThread} /\ spawned \in Nat
    /\ reader \in [Reader -> Places]
    /\ chunk \in [Reader -> Seq(Int)] /\ seen \in [Reader -> Seq(Int)] /\ frame \in [Reader -> Seq(Int)]
    /\ call \in [Caller -> Calls] /\ joins \in [Caller -> Reader \cup {NoThread}]

\* A reader that was started has something in hand only where it says so.
Hands ==
    /\ \A r \in Reader : r > spawned => reader[r] = "off"
    /\ \A r \in Reader : chunk[r] = <<>> \/ reader[r] = "append"
    /\ \A r \in Reader : frame[r] = <<>> \/ reader[r] \in {"deliver", "hand"}
    /\ \A r \in Reader : reader[r] = "deliver" => \E m \in Monitor : frame[r] = <<2 * m - 1, 2 * m>>

-----------------------------------------------------------------------------
(* The stream. *)

\* A sequence goes up; all of one comes before all of another.
Up(s) == \A i, j \in 1 .. Len(s) : i < j => s[i] < s[j]
Below(p, q) == \A x \in ToSet(p), y \in ToSet(q) : x < y

\* What the reader has in hand, what waits for it and what is in the port, in line.
InLine(f, p, c, w) ==
    /\ Up(f) /\ Up(p) /\ Up(c) /\ Up(w)
    /\ Below(f, p) /\ Below(f, c) /\ Below(f, w)
    /\ Below(p, c) /\ Below(p, w) /\ Below(c, w)

\* Of the pieces 1 .. n, those in G went to read() or wait for it, those in F are a frame in
\* hand, those in U are still to be framed, and D are the notifications delivered.
Accounted(n, G, F, U, D) ==
    /\ n \in Nat /\ G \cup F \cup U \subseteq 1 .. n /\ D \subseteq Monitor
    /\ \A m \in D : 2 * m <= n
    /\ \A k \in 1 .. n :
          k \in G \cup F \cup U \/ (\E m \in D : k \in {2 * m - 1, 2 * m}) \/ (~IsHead(k) /\ k - 1 \in G)
    /\ \A t \in U : IsHead(t) \/ t - 1 \in U \cup G
    /\ \A x \in F : IsHead(x) => \E y \in F : y > x

Given == ToSet(got) \cup ToSet(buf)
Unframed == ToSet(pending) \cup ToSet(Chunks) \cup ToSet(wire)
Ahead == ToSet(InHand) \cup Unframed

\* Without a client that overtakes and a stop() that puts in front.
Ordered == Free({Bypass, Backlog}) =>
    Up(got) /\ Up(buf) /\ Below(got, buf) /\ \A x \in Given, y \in Ahead : x < y

\* What the streams got is behind them.
Queued == \A s \in Subscriber :
    Up(queue[s]) /\ \A g \in ToSet(queue[s]) : 2 * g <= sent /\ \A x \in Ahead : 2 * g < x

SeenIsPending == \A r \in Reader : reader[r] = "store" => seen[r] = pending

Flows ==
    /\ InLine(InHand, pending, Chunks, wire)
    /\ Accounted(sent, Given, ToSet(InHand), Unframed, delivered)
    /\ Ordered /\ Queued /\ SeenIsPending

Safe == Types /\ Hands /\ PortHasOneReader
StreamInv == Safe /\ (Free({Overlap, GaveUp}) => Flows)

\* Sequences put together and taken apart.
LEMMA Joined ==
  ASSUME NEW p \in Seq(Int), NEW q \in Seq(Int)
  PROVE  /\ p \o q \in Seq(Int) /\ Len(p \o q) = Len(p) + Len(q)
         /\ \A i \in 1 .. Len(p) : (p \o q)[i] = p[i]
         /\ \A i \in 1 .. Len(q) : (p \o q)[Len(p) + i] = q[i]
         /\ \A i \in 1 .. Len(p) + Len(q) : i > Len(p) => (p \o q)[i] = q[i - Len(p)]
<1>1. /\ p \o q \in Seq(Int) /\ Len(p \o q) = Len(p) + Len(q)
      /\ \A i \in 1 .. Len(p) + Len(q) : (p \o q)[i] = IF i <= Len(p) THEN p[i] ELSE q[i - Len(p)]
  BY ConcatProperties
<1>2. Len(p) \in Nat /\ Len(q) \in Nat
  OBVIOUS
<1>3. \A i \in 1 .. Len(p) : i \in 1 .. Len(p) + Len(q) /\ i <= Len(p)
  BY <1>2
<1>4. \A i \in 1 .. Len(q) : Len(p) + i \in 1 .. Len(p) + Len(q) /\ ~(Len(p) + i <= Len(p)) /\ Len(p) + i - Len(p) = i
  BY <1>2
<1>5. \A i \in 1 .. Len(p) + Len(q) : i > Len(p) => ~(i <= Len(p))
  BY <1>2
<1> QED
  BY <1>1, <1>3, <1>4, <1>5

LEMMA Parted ==
  ASSUME NEW s \in Seq(Int), NEW n \in 0 .. Len(s)
  PROVE  LET p == SubSeq(s, 1, n)
             q == SubSeq(s, n + 1, Len(s))
         IN  /\ p \in Seq(Int) /\ Len(p) = n /\ \A i \in 1 .. n : p[i] = s[i]
             /\ q \in Seq(Int) /\ Len(q) = Len(s) - n /\ \A i \in 1 .. Len(s) - n : q[i] = s[n + i]
             /\ p \o q = s
<1> DEFINE p == SubSeq(s, 1, n)
           q == SubSeq(s, n + 1, Len(s))
<1>1. p \in Seq(Int) /\ Len(p) = n /\ \A i \in 1 .. n : p[i] = s[i]
  OBVIOUS
<1>2. q \in Seq(Int) /\ Len(q) = Len(s) - n /\ \A i \in 1 .. Len(s) - n : q[i] = s[n + i]
  OBVIOUS
<1>3. Len(s) \in Nat
  OBVIOUS
<1> HIDE DEF p, q
<1>4. p \o q \in Seq(Int) /\ Len(p \o q) = Len(s)
  <2>1. p \o q \in Seq(Int) /\ Len(p \o q) = Len(p) + Len(q)
    BY <1>1, <1>2, Joined
  <2>2. Len(p) + Len(q) = Len(s)
    BY <1>1, <1>2, <1>3
  <2> QED
    BY <2>1, <2>2
<1>5. ASSUME NEW i \in 1 .. Len(s) PROVE (p \o q)[i] = s[i]
  <2>1. CASE i <= n
    <3>1. i \in 1 .. Len(p)
      BY <1>1, <2>1
    <3>2. (p \o q)[i] = p[i]
      BY <1>1, <1>2, <3>1, Joined
    <3> QED
      BY <1>1, <3>1, <3>2
  <2>2. CASE ~(i <= n)
    <3>1. i \in 1 .. Len(p) + Len(q) /\ i > Len(p) /\ i - n \in 1 .. Len(s) - n /\ n + (i - n) = i
      BY <1>1, <1>2, <1>3, <2>2
    <3>2. (p \o q)[i] = q[i - Len(p)]
      BY <1>1, <1>2, <3>1, Joined
    <3> QED
      BY <1>1, <1>2, <3>1, <3>2
  <2> QED
    BY <2>1, <2>2
<1>6. p \o q = s
  BY <1>4, <1>5, SeqEqual
<1> QED
  BY <1>1, <1>2, <1>6 DEF p, q

LEMMA Assoc ==
  ASSUME NEW p \in Seq(Int), NEW q \in Seq(Int), NEW r \in Seq(Int)
  PROVE  (p \o q) \o r = p \o (q \o r)
  BY ConcatAssociative

LEMMA Empty == ASSUME NEW p \in Seq(Int) PROVE p \o <<>> = p /\ <<>> \o p = p
  BY ConcatEmptySeq

\* The elements of a sequence, of two in a row, and when these go up.
LEMMA InRow ==
  ASSUME NEW p \in Seq(Int), NEW q \in Seq(Int)
  PROVE  /\ ToSet(p \o q) = ToSet(p) \cup ToSet(q)
         /\ Up(p \o q) <=> Up(p) /\ Up(q) /\ Below(p, q)
<1>1. /\ p \o q \in Seq(Int) /\ Len(p \o q) = Len(p) + Len(q) /\ Len(p) \in Nat /\ Len(q) \in Nat
      /\ \A i \in 1 .. Len(p) : (p \o q)[i] = p[i]
      /\ \A i \in 1 .. Len(q) : (p \o q)[Len(p) + i] = q[i]
      /\ \A i \in 1 .. Len(p) + Len(q) : i > Len(p) => (p \o q)[i] = q[i - Len(p)]
  BY Joined
<1>2. /\ DOMAIN p = 1 .. Len(p) /\ DOMAIN q = 1 .. Len(q) /\ DOMAIN (p \o q) = 1 .. Len(p \o q)
      /\ \A i \in 1 .. Len(p) : p[i] \in Int
      /\ \A i \in 1 .. Len(q) : q[i] \in Int
  BY <1>1
<1> DEFINE s == p \o q
<1> HIDE DEF s
<1>3. \A i \in 1 .. Len(p) : i \in 1 .. Len(s) /\ s[i] = p[i]
  BY <1>1 DEF s
<1>4. \A i \in 1 .. Len(q) : Len(p) + i \in 1 .. Len(s) /\ s[Len(p) + i] = q[i]
  BY <1>1 DEF s
<1>5. \A i \in 1 .. Len(s) : i \in 1 .. Len(p) \/ (i - Len(p) \in 1 .. Len(q) /\ s[i] = q[i - Len(p)] /\ Len(p) + (i - Len(p)) = i)
  BY <1>1 DEF s
<1>6. ToSet(s) = ToSet(p) \cup ToSet(q)
  <2>1. ToSet(p) = {p[i] : i \in 1 .. Len(p)} /\ ToSet(q) = {q[i] : i \in 1 .. Len(q)} /\ ToSet(s) = {s[i] : i \in 1 .. Len(s)}
    BY <1>2 DEF ToSet, s
  <2>2. ASSUME NEW x \in ToSet(s) PROVE x \in ToSet(p) \cup ToSet(q)
    <3>1. PICK i \in 1 .. Len(s) : x = s[i]
      BY <2>1
    <3>2. CASE i \in 1 .. Len(p)
      <4>1. x = p[i]
        BY <1>3, <3>1, <3>2
      <4> QED
        BY <2>1, <3>2, <4>1
    <3>3. CASE i \notin 1 .. Len(p)
      <4>1. i - Len(p) \in 1 .. Len(q) /\ x = q[i - Len(p)]
        BY <1>5, <3>1, <3>3
      <4> QED
        BY <2>1, <4>1
    <3> QED
      BY <3>2, <3>3
  <2>3. ASSUME NEW x \in ToSet(p) PROVE x \in ToSet(s)
    BY <1>3, <2>1
  <2>4. ASSUME NEW x \in ToSet(q) PROVE x \in ToSet(s)
    BY <1>4, <2>1
  <2> QED
    BY <2>2, <2>3, <2>4
<1>7. Below(p, q) <=> \A i \in 1 .. Len(p), j \in 1 .. Len(q) : p[i] < q[j]
  BY <1>2 DEF Below, ToSet
<1>8. ASSUME Up(s) PROVE Up(p) /\ Up(q) /\ \A i \in 1 .. Len(p), j \in 1 .. Len(q) : p[i] < q[j]
  <2>1. Up(p)
    BY <1>3, <1>8 DEF Up
  <2>2. ASSUME NEW i \in 1 .. Len(q), NEW j \in 1 .. Len(q), i < j PROVE q[i] < q[j]
    <3>1. Len(p) + i < Len(p) + j
      BY <1>1, <2>2
    <3> QED
      BY <1>4, <1>8, <3>1 DEF Up
  <2>3. ASSUME NEW i \in 1 .. Len(p), NEW j \in 1 .. Len(q) PROVE p[i] < q[j]
    <3>1. i < Len(p) + j
      BY <1>1
    <3> QED
      BY <1>3, <1>4, <1>8, <3>1 DEF Up
  <2> QED
    BY <2>1, <2>2, <2>3 DEF Up
<1>9. ASSUME Up(p), Up(q), \A i \in 1 .. Len(p), j \in 1 .. Len(q) : p[i] < q[j] PROVE Up(s)
  <2> SUFFICES ASSUME NEW i \in 1 .. Len(s), NEW j \in 1 .. Len(s), i < j PROVE s[i] < s[j]
    BY DEF Up
  <2>1. CASE i \in 1 .. Len(p) /\ j \in 1 .. Len(p)
    BY <1>3, <1>9, <2>1 DEF Up
  <2>2. CASE i \in 1 .. Len(p) /\ j \notin 1 .. Len(p)
    BY <1>3, <1>5, <1>9, <2>2
  <2>3. CASE i \notin 1 .. Len(p)
    <3>1. j \notin 1 .. Len(p) /\ i - Len(p) < j - Len(p)
      BY <1>1, <2>3
    <3> QED
      BY <1>5, <1>9, <2>3, <3>1 DEF Up
  <2> QED
    BY <2>1, <2>2, <2>3
<1> QED
  BY <1>6, <1>7, <1>8, <1>9 DEF s

LEMMA Elements ==
  ASSUME NEW p \in Seq(Int)
  PROVE  ToSet(p) \subseteq Int /\ (p = <<>> <=> ToSet(p) = {})
<1>1. DOMAIN p = 1 .. Len(p) /\ Len(p) \in Nat /\ (p = <<>> <=> Len(p) = 0) /\ \A i \in 1 .. Len(p) : p[i] \in Int
  OBVIOUS
<1>2. ToSet(p) = {p[i] : i \in 1 .. Len(p)}
  BY <1>1 DEF ToSet
<1>3. ToSet(p) \subseteq Int
  BY <1>1, <1>2
<1>4. ASSUME Len(p) > 0 PROVE p[1] \in ToSet(p)
  <2>1. 1 \in 1 .. Len(p)
    BY <1>1, <1>4
  <2> QED
    BY <1>2, <2>1
<1>5. Len(p) = 0 => ToSet(p) = {}
  BY <1>2
<1> QED
  BY <1>1, <1>3, <1>4, <1>5

LEMMA EmptyGoesUp == Up(<<>>) /\ ToSet(<<>>) = {}
  BY DEF Up, ToSet

\* One taken off the front, one put behind.
LEMMA FrontOff ==
  ASSUME NEW s \in Seq(Int), NEW n \in 0 .. Len(s)
  PROVE  LET p == SubSeq(s, 1, n)
             q == SubSeq(s, n + 1, Len(s))
         IN  /\ p \in Seq(Int) /\ q \in Seq(Int) /\ p \o q = s /\ (n = 0 => p = <<>> /\ q = s)
             /\ Len(p) = n /\ \A i \in 1 .. n : p[i] = s[i]
             /\ ToSet(s) = ToSet(p) \cup ToSet(q)
             /\ Up(s) => Up(p) /\ Up(q) /\ Below(p, q)
<1> DEFINE p == SubSeq(s, 1, n)
           q == SubSeq(s, n + 1, Len(s))
<1>1. p \in Seq(Int) /\ q \in Seq(Int) /\ p \o q = s /\ Len(p) = n /\ \A i \in 1 .. n : p[i] = s[i]
  BY Parted
<1> HIDE DEF p, q
<1>2. ToSet(s) = ToSet(p) \cup ToSet(q) /\ (Up(s) => Up(p) /\ Up(q) /\ Below(p, q))
  BY <1>1, InRow
<1>3. n = 0 => p = <<>>
  BY <1>1
<1>4. n = 0 => q = s
  BY <1>1, <1>3, Empty
<1> QED
  BY <1>1, <1>2, <1>3, <1>4 DEF p, q

LEMMA FrontBefore ==
  ASSUME NEW s \in Seq(Int), NEW i \in 1 .. Len(s)
  PROVE  LET p == SubSeq(s, 1, i - 1)
             q == SubSeq(s, i, Len(s))
         IN  /\ p \in Seq(Int) /\ q \in Seq(Int) /\ Len(p) = i - 1 /\ \A k \in 1 .. i - 1 : p[k] = s[k]
             /\ ToSet(s) = ToSet(p) \cup ToSet(q)
             /\ Up(s) => Up(p) /\ Up(q) /\ Below(p, q)
<1> DEFINE n == i - 1
<1>1. n \in 0 .. Len(s) /\ n + 1 = i
  OBVIOUS
<1> HIDE DEF n
<1>2. LET p == SubSeq(s, 1, n)
          q == SubSeq(s, n + 1, Len(s))
      IN  /\ p \in Seq(Int) /\ q \in Seq(Int) /\ Len(p) = n /\ \A k \in 1 .. n : p[k] = s[k]
          /\ ToSet(s) = ToSet(p) \cup ToSet(q)
          /\ Up(s) => Up(p) /\ Up(q) /\ Below(p, q)
  BY <1>1, FrontOff
<1>3. LET p == SubSeq(s, 1, n)
          q == SubSeq(s, i, Len(s))
      IN  /\ p \in Seq(Int) /\ q \in Seq(Int) /\ Len(p) = n /\ \A k \in 1 .. n : p[k] = s[k]
          /\ ToSet(s) = ToSet(p) \cup ToSet(q)
          /\ Up(s) => Up(p) /\ Up(q) /\ Below(p, q)
  BY <1>1, <1>2
<1> QED
  BY <1>3 DEF n

LEMMA OneBehind ==
  ASSUME NEW s \in Seq(Int), NEW k \in Int
  PROVE  /\ Append(s, k) \in Seq(Int) /\ ToSet(Append(s, k)) = ToSet(s) \cup {k}
         /\ Up(Append(s, k)) <=> Up(s) /\ \A x \in ToSet(s) : x < k
<1>1. Append(s, k) = s \o <<k>> /\ <<k>> \in Seq(Int) /\ Append(s, k) \in Seq(Int)
  OBVIOUS
<1>2. ToSet(<<k>>) = {k} /\ Up(<<k>>)
  BY DEF ToSet, Up
<1>3. Below(s, <<k>>) <=> \A x \in ToSet(s) : x < k
  BY <1>2 DEF Below
<1> DEFINE e == <<k>>
<1>4. ToSet(s \o e) = ToSet(s) \cup ToSet(e) /\ (Up(s \o e) <=> Up(s) /\ Up(e) /\ Below(s, e))
  BY <1>1, InRow
<1> QED
  BY <1>1, <1>2, <1>3, <1>4

\* A set of places has a first.
LEMMA FirstPlace ==
  ASSUME NEW T \in SUBSET Nat, T # {}
  PROVE  Min(T) \in T /\ \A n \in T : Min(T) <= n
<1>1. \E k \in T : \A n \in T : ~ (<<n, k>> \in OpToRel(<, Nat))
  BY NatLessThanWellFounded, WFMin, Zenon
<1>2. PICK k \in T : \A n \in T : ~ (<<n, k>> \in OpToRel(<, Nat))
  BY <1>1
<1>3. ASSUME NEW n \in T PROVE k <= n
  <2>1. ~ (<<n, k>> \in OpToRel(<, Nat))
    BY <1>2
  <2> QED
    BY <2>1 DEF OpToRel
<1> QED
  BY <1>3 DEF Min

LEMMA Slice ==
  ASSUME NEW s \in Seq(Int), NEW i \in Nat, NEW j \in Nat, 1 <= i, i <= j + 1, j <= Len(s)
  PROVE  /\ SubSeq(s, i, j) \in Seq(Int) /\ Len(SubSeq(s, i, j)) = j - i + 1
         /\ \A k \in 1 .. j - i + 1 : SubSeq(s, i, j)[k] = s[i + k - 1]
  OBVIOUS

\* _extract_frame cuts a sequence in noise, without a beginning, in a frame, in which an end
\* follows every beginning, and in what stays.
LEMMA Cut ==
  ASSUME NEW p \in Seq(Int), Ends(p) # {}
  PROVE  LET f == SubSeq(p, Min(Begins(p)), Min(Ends(p)))
             q == SubSeq(p, Min(Ends(p)) + 1, Len(p))
         IN  /\ f \in Seq(Int) /\ q \in Seq(Int)
             /\ \E n \in Seq(Int) :
                   /\ ToSet(p) = ToSet(n) \cup ToSet(f) \cup ToSet(q)
                   /\ \A x \in ToSet(n) : ~IsHead(x)
                   /\ Up(p) => /\ Up(f) /\ Up(q) /\ Below(n, f) /\ Below(n, q) /\ Below(f, q)
                               /\ \A x \in ToSet(f) : IsHead(x) => \E y \in ToSet(f) : y > x
<1> DEFINE i == Min(Begins(p))
           j == Min(Ends(p))
           f == SubSeq(p, i, j)
           q == SubSeq(p, j + 1, Len(p))
           h == SubSeq(p, 1, j)
           n == SubSeq(h, 1, i - 1)
           g == SubSeq(h, i, Len(h))
<1>1. Begins(p) \subseteq 1 .. Len(p) /\ Ends(p) \subseteq 1 .. Len(p) /\ Len(p) \in Nat
  BY DEF Begins, Ends
<1>2. Begins(p) # {}
  BY DEF Ends
<1>3. /\ Begins(p) \subseteq Nat /\ Ends(p) \subseteq Nat /\ j \in Ends(p) /\ \A k \in Ends(p) : j <= k
      /\ i \in Begins(p) /\ \A k \in Begins(p) : i <= k
  BY <1>1, <1>2, FirstPlace
<1>4. j \in 1 .. Len(p) /\ ~IsHead(p[j]) /\ i \in 1 .. Len(p) /\ i < j
  <2>1. PICK k \in Begins(p) : k < j
    BY <1>3 DEF Ends
  <2>2. i <= k /\ k \in 1 .. Len(p)
    BY <1>1, <1>3, <2>1
  <2>3. i \in 1 .. Len(p) /\ j \in 1 .. Len(p)
    BY <1>1, <1>3
  <2>4. ~IsHead(p[j])
    BY <1>3 DEF Ends
  <2> QED
    BY <2>1, <2>2, <2>3, <2>4
<1>5. \A k \in 1 .. i - 1 : ~IsHead(p[k])
  <2> SUFFICES ASSUME NEW k \in 1 .. i - 1, IsHead(p[k]) PROVE FALSE
    OBVIOUS
  <2>1. k \in 1 .. Len(p) /\ ~(i <= k)
    BY <1>1, <1>4
  <2>2. k \in Begins(p)
    BY <2>1 DEF Begins
  <2> QED
    BY <1>3, <2>1, <2>2
<1> HIDE DEF i, j
<1>6. /\ h \in Seq(Int) /\ q \in Seq(Int) /\ Len(h) = j /\ \A k \in 1 .. j : h[k] = p[k]
      /\ ToSet(p) = ToSet(h) \cup ToSet(q)
      /\ Up(p) => Up(h) /\ Up(q) /\ Below(h, q)
  <2>1. j \in 0 .. Len(p)
    BY <1>1, <1>4
  <2> QED
    BY <2>1, FrontOff
<1>7. f = g
  <2>0. i \in Nat /\ j \in Nat /\ 1 <= i /\ i <= j + 1 /\ j <= Len(p) /\ j <= Len(h) /\ Len(h) = j
    BY <1>1, <1>4, <1>6
  <2>1. f \in Seq(Int) /\ Len(f) = j - i + 1 /\ \A k \in 1 .. j - i + 1 : f[k] = p[i + k - 1]
    BY <2>0, Slice
  <2> HIDE DEF h
  <2>2. g \in Seq(Int) /\ Len(g) = j - i + 1 /\ \A k \in 1 .. j - i + 1 : g[k] = h[i + k - 1]
    BY <1>6, <2>0, Slice
  <2>3. \A k \in 1 .. j - i + 1 : i + k - 1 \in 1 .. j
    BY <1>1, <1>4
  <2> HIDE DEF f, g
  <2>4. \A k \in 1 .. j - i + 1 : f[k] = g[k]
    BY <1>6, <2>1, <2>2, <2>3
  <2>5. \A k \in 1 .. Len(f) : f[k] = g[k]
    BY <2>1, <2>4
  <2> QED
    BY <2>1, <2>2, <2>5, SeqEqual
<1> HIDE DEF h, q
<1>8. /\ n \in Seq(Int) /\ g \in Seq(Int) /\ Len(n) = i - 1 /\ \A k \in 1 .. i - 1 : n[k] = h[k]
      /\ ToSet(h) = ToSet(n) \cup ToSet(g)
      /\ Up(h) => Up(n) /\ Up(g) /\ Below(n, g)
  <2>1. i \in 1 .. Len(h)
    BY <1>1, <1>4, <1>6
  <2> QED
    BY <1>6, <2>1, FrontBefore
<1>9. \A x \in ToSet(n) : ~IsHead(x)
  <2> SUFFICES ASSUME NEW x \in ToSet(n) PROVE ~IsHead(x)
    OBVIOUS
  <2> HIDE DEF n
  <2>1. DOMAIN n = 1 .. i - 1
    BY <1>8
  <2>2. PICK k \in 1 .. i - 1 : x = n[k]
    BY <2>1 DEF ToSet
  <2>3. k \in 1 .. j /\ n[k] = h[k]
    BY <1>1, <1>4, <1>8, <2>2
  <2>4. x = p[k]
    BY <1>6, <2>2, <2>3
  <2> QED
    BY <1>5, <2>2, <2>4
<1>10. ASSUME Up(h), NEW x \in ToSet(g), IsHead(x) PROVE \E y \in ToSet(g) : y > x
  <2>0. i \in Nat /\ j \in Nat /\ 1 <= i /\ i <= j + 1 /\ j <= Len(h) /\ Len(h) = j /\ i + (j - i + 1) - 1 = j
        /\ j - i + 1 \in 1 .. j - i + 1
    BY <1>1, <1>4, <1>6
  <2>1. g \in Seq(Int) /\ Len(g) = j - i + 1 /\ g[j - i + 1] = h[j]
    BY <1>6, <2>0, Slice
  <2> HIDE DEF g
  <2>2. j - i + 1 \in Nat /\ j - i + 1 \in 1 .. Len(g) /\ DOMAIN g = 1 .. j - i + 1
    BY <1>1, <1>4, <2>1
  <2>3. PICK k \in 1 .. j - i + 1 : x = g[k]
    BY <1>10, <2>2 DEF ToSet
  <2>4. h[j] = p[j]
    BY <1>4, <1>6
  <2>5. ~IsHead(g[j - i + 1]) /\ g[j - i + 1] \in ToSet(g)
    BY <1>4, <2>1, <2>2, <2>4 DEF ToSet
  <2>6. k # j - i + 1
    BY <1>10, <2>3, <2>5
  <2>7. k < j - i + 1 /\ k \in 1 .. Len(g)
    BY <2>1, <2>2, <2>3, <2>6
  <2>8. Up(g)
    BY <1>8, <1>10
  <2>9. x < g[j - i + 1]
    BY <2>2, <2>3, <2>7, <2>8 DEF Up
  <2>10. x \in Int /\ g[j - i + 1] \in Int
    BY <2>1, <2>2, <2>3, <2>7
  <2> QED
    BY <2>5, <2>9, <2>10
<1> HIDE DEF n, g
<1>11. Up(p) => /\ Up(g) /\ Up(q) /\ Below(n, g) /\ Below(n, q) /\ Below(g, q)
                /\ \A x \in ToSet(g) : IsHead(x) => \E y \in ToSet(g) : y > x
  BY <1>6, <1>8, <1>10 DEF Below
<1>12. ToSet(p) = ToSet(n) \cup ToSet(g) \cup ToSet(q)
  BY <1>6, <1>8
<1>13. /\ f \in Seq(Int) /\ q \in Seq(Int) /\ n \in Seq(Int)
       /\ ToSet(p) = ToSet(n) \cup ToSet(f) \cup ToSet(q)
       /\ \A x \in ToSet(n) : ~IsHead(x)
       /\ Up(p) => /\ Up(f) /\ Up(q) /\ Below(n, f) /\ Below(n, q) /\ Below(f, q)
                   /\ \A x \in ToSet(f) : IsHead(x) => \E y \in ToSet(f) : y > x
  BY <1>6, <1>7, <1>8, <1>9, <1>11, <1>12
<1> HIDE DEF f
<1> QED
  BY <1>13 DEF f, q, i, j

\* Without a whole frame, what stays begins with a beginning.
LEMMA Rest ==
  ASSUME NEW p \in Seq(Int)
  PROVE  LET q == IF Begins(p) = {} THEN <<>> ELSE SubSeq(p, Min(Begins(p)), Len(p))
         IN  /\ q \in Seq(Int)
             /\ \E n \in Seq(Int) :
                   /\ ToSet(p) = ToSet(n) \cup ToSet(q) /\ \A x \in ToSet(n) : ~IsHead(x)
                   /\ Up(p) => Up(q) /\ Below(n, q)
<1>1. Begins(p) \subseteq 1 .. Len(p) /\ Len(p) \in Nat /\ DOMAIN p = 1 .. Len(p)
  BY DEF Begins
<1>2. CASE Begins(p) = {}
  <2>1. \A x \in ToSet(p) : ~IsHead(x)
    BY <1>2 DEF Begins, ToSet
  <2>2. ToSet(p) = ToSet(p) \cup ToSet(<<>>) /\ Up(<<>>) /\ Below(p, <<>>) /\ <<>> \in Seq(Int)
    BY EmptyGoesUp DEF Below
  <2> QED
    BY <1>2, <2>1, <2>2
<1>3. CASE Begins(p) # {}
  <2> DEFINE i == Min(Begins(p))
             n == SubSeq(p, 1, i - 1)
             q == SubSeq(p, i, Len(p))
  <2>1. i \in Begins(p) /\ \A k \in Begins(p) : i <= k
    BY <1>1, <1>3, FirstPlace
  <2>2. i \in 1 .. Len(p)
    BY <1>1, <2>1
  <2> HIDE DEF i
  <2>3. ASSUME NEW k \in 1 .. i - 1, IsHead(p[k]) PROVE FALSE
    <3>1. k \in 1 .. Len(p) /\ ~(i <= k)
      BY <1>1, <2>2
    <3>2. k \in Begins(p)
      BY <2>3, <3>1 DEF Begins
    <3> QED
      BY <2>1, <3>1, <3>2
  <2>4. /\ n \in Seq(Int) /\ q \in Seq(Int) /\ Len(n) = i - 1 /\ \A k \in 1 .. i - 1 : n[k] = p[k]
        /\ ToSet(p) = ToSet(n) \cup ToSet(q) /\ (Up(p) => Up(q) /\ Below(n, q))
    BY <2>2, FrontBefore
  <2> HIDE DEF n, q
  <2>5. \A x \in ToSet(n) : ~IsHead(x)
    BY <2>3, <2>4 DEF ToSet
  <2> QED
    BY <1>3, <2>4, <2>5 DEF q, i
<1> QED
  BY <1>2, <1>3

LEMMA LastOfFrame ==
  ASSUME NEW m \in Monitor
  PROVE  m \in Nat /\ m >= 1 /\ Last(<<2 * m - 1, 2 * m>>) \div 2 = m
<1>1. m \in Nat /\ m >= 1
  BY MuxAssumption
<1>2. Len(<<2 * m - 1, 2 * m>>) = 2
  OBVIOUS
<1>3. Last(<<2 * m - 1, 2 * m>>) = 2 * m
  BY <1>2 DEF Last
<1>4. (2 * m) \div 2 = m
  BY <1>1
<1> QED
  BY <1>1, <1>3, <1>4

-----------------------------------------------------------------------------
(* The threads. *)

LEMMA MishapsStay == [Next]_vars => mishaps \subseteq mishaps'
<1> SUFFICES ASSUME [Next]_vars PROVE mishaps \subseteq mishaps'
  OBVIOUS
<1>1. CASE UNCHANGED vars
  BY <1>1 DEF vars
<1>2. CASE Send \/ SetMonitorIndex \/ Read
  BY <1>2 DEF Send, SetMonitorIndex, Read, ReadBuffered, ReadCall, ReadWaited, ReadNothing, ReadPort, TakeBuf
<1>3. ASSUME NEW s \in Subscriber, Subscribe(s) \/ StartThread(s) \/ Unsubscribe(s) PROVE mishaps \subseteq mishaps'
  BY <1>3 DEF Subscribe, StartThread, Unsubscribe
<1>4. ASSUME NEW c \in Caller, Close(c) \/ Stop(c) PROVE mishaps \subseteq mishaps'
  BY <1>4 DEF Close, Stop, StopBegin, StopEnd, StopRaises
<1>5. ASSUME NEW r \in Reader, ReaderStep(r) PROVE mishaps \subseteq mishaps'
  BY <1>5 DEF ReaderStep, Check, ReadChunk, Fail, AppendChunk, LoadPending, Extract, Deliver, HandBack, NoFrame
<1> QED
  BY <1>1, <1>2, <1>3, <1>4, <1>5 DEF Next, Caller

LEMMA InitSafe == Init => Safe
  BY DEF Init, Safe, Types, Hands, PortHasOneReader, Places, Calls, NoThread

\* What does not touch the threads.
LEMMA OtherSafe ==
  ASSUME Safe, UNCHANGED <<running, thread, threads, calls>>, mishaps \subseteq mishaps',
         sent' \in Nat, {wire', buf', pending', got'} \subseteq Seq(Int),
         queue' \in [Subscriber -> Seq(Int)], delivered' \subseteq Monitor
  PROVE  Safe'
<1>1. UNCHANGED <<running, thread, spawned, reader, chunk, seen, frame, call, joins>>
  BY DEF threads, calls
<1>2. Types' /\ Hands'
  BY <1>1 DEF Safe, Types, Hands
<1>3. PortHasOneReader'
  BY <1>1 DEF Safe, PortHasOneReader, Free, Is
<1> QED
  BY <1>2, <1>3 DEF Safe

LEMMA SendSafe == Safe /\ Send => Safe'
<1> SUFFICES ASSUME Safe, Send PROVE Safe'
  OBVIOUS
<1>1. sent \in Nat /\ wire \in Seq(Int)
  BY DEF Safe, Types
<1>2. sent' \in Nat /\ wire' \in Seq(Int)
  BY <1>1, OneBehind DEF Send
<1>3. UNCHANGED <<running, thread, threads, calls, buf, pending, got, queue, delivered, mishaps>>
  BY DEF Send, mux
<1> QED
  BY <1>2, <1>3, OtherSafe DEF Safe, Types

\* read(), up to its answer: it takes the front of what waits, or of what is in the port.
LEMMA ReadTakes ==
  ASSUME Safe, Read
  PROVE  /\ UNCHANGED <<sent, pending, running, thread, threads, calls, queue, delivered>>
         /\ \/ UNCHANGED <<got, buf, wire, mishaps>>
            \/ \E n \in 1 .. Len(buf) :
                  /\ got' = got \o SubSeq(buf, 1, n) /\ buf' = SubSeq(buf, n + 1, Len(buf))
                  /\ UNCHANGED <<wire, mishaps>>
            \/ \E n \in 0 .. Len(wire) : n > 0 /\ ReadPort(n)
<1>1. CASE ReadCall \/ ReadNothing
  BY <1>1 DEF ReadCall, ReadNothing, mux
<1>2. CASE TakeBuf
  BY <1>2 DEF TakeBuf
<1>3. ASSUME NEW n \in 0 .. Len(wire), ReadPort(n)
      PROVE  /\ UNCHANGED <<sent, pending, running, thread, threads, calls, queue, delivered>>
             /\ n > 0 \/ UNCHANGED <<got, buf, wire, mishaps>>
  <2>1. UNCHANGED <<sent, buf, pending, running, thread, threads, calls, queue, delivered>>
    BY <1>3 DEF ReadPort, mux
  <2>2. wire \in Seq(Int) /\ got \in Seq(Int)
    BY DEF Safe, Types
  <2>3. ASSUME n = 0 PROVE UNCHANGED <<got, wire, mishaps>>
    <3>1. SubSeq(wire, 1, n) = <<>> /\ SubSeq(wire, n + 1, Len(wire)) = wire
      BY <2>2, <2>3, FrontOff
    <3>2. got' = got \o SubSeq(wire, 1, n) /\ wire' = SubSeq(wire, n + 1, Len(wire)) /\ mishaps' = mishaps
      BY <1>3, <2>3 DEF ReadPort, TakeWire
    <3>3. got \o <<>> = got
      BY <2>2, Empty
    <3> QED
      BY <3>1, <3>2, <3>3
  <2> QED
    BY <2>1, <2>3
<1> QED
  BY <1>1, <1>2, <1>3 DEF Read, ReadBuffered, ReadWaited

LEMMA ReadSafe == Safe /\ Read => Safe'
<1> SUFFICES ASSUME Safe, Read PROVE Safe'
  OBVIOUS
<1>1. UNCHANGED <<sent, pending, running, thread, threads, calls, queue, delivered>>
  BY ReadTakes
<1>2. sent \in Nat /\ {got, buf, wire, pending} \subseteq Seq(Int)
  BY DEF Safe, Types
<1>3. {got', buf', wire'} \subseteq Seq(Int)
  <2>1. ASSUME NEW n \in 1 .. Len(buf), got' = got \o SubSeq(buf, 1, n), buf' = SubSeq(buf, n + 1, Len(buf)), wire' = wire
        PROVE  {got', buf', wire'} \subseteq Seq(Int)
    <3>1. n \in 0 .. Len(buf)
      OBVIOUS
    <3>2. SubSeq(buf, 1, n) \in Seq(Int) /\ SubSeq(buf, n + 1, Len(buf)) \in Seq(Int)
      BY <1>2, <3>1, FrontOff
    <3>3. got \o SubSeq(buf, 1, n) \in Seq(Int)
      BY <1>2, <3>2, Joined
    <3> QED
      BY <1>2, <2>1, <3>2, <3>3
  <2>2. ASSUME NEW n \in 0 .. Len(wire), ReadPort(n) PROVE {got', buf', wire'} \subseteq Seq(Int)
    <3>1. SubSeq(wire, 1, n) \in Seq(Int) /\ SubSeq(wire, n + 1, Len(wire)) \in Seq(Int)
      BY <1>2, FrontOff
    <3>2. got \o SubSeq(wire, 1, n) \in Seq(Int)
      BY <1>2, <3>1, Joined
    <3> QED
      BY <1>2, <2>2, <3>1, <3>2 DEF ReadPort, TakeWire, mux
  <2> QED
    BY <1>2, <2>1, <2>2, ReadTakes
<1>4. mishaps \subseteq mishaps'
  BY MishapsStay DEF Next
<1> QED
  BY <1>1, <1>2, <1>3, <1>4, OtherSafe DEF Safe, Types

LEMMA SubscribeSafe == ASSUME Safe, NEW s \in Subscriber, Subscribe(s) PROVE Safe'
<1>1. /\ queue' = [queue EXCEPT ![s] = <<>>] /\ mishaps' = mishaps \cup WhenLate
      /\ UNCHANGED <<sent, wire, buf, pending, chunk, seen, frame, got, joins, delivered>>
  BY DEF Subscribe
<1>2. <<>> \in Seq(Int) /\ s \in Caller
  BY DEF Caller
<1>3. CASE running
  <2>1. UNCHANGED <<running, thread, spawned, reader>> /\ Goes(s, "in") /\ call[s] = "out"
    BY <1>3 DEF Subscribe, Is
  <2>2. /\ call' \in [Caller -> Calls]
        /\ \A c \in Caller : Is(c, "join") => Is(c, "join")'
    BY <1>2, <2>1 DEF Safe, Types, Goes, Calls, Is
  <2>3. Types' /\ Hands'
    BY <1>1, <1>2, <2>1, <2>2 DEF Safe, Types, Hands
  <2>4. PortHasOneReader'
    BY <1>1, <2>1, <2>2 DEF Safe, PortHasOneReader, Free
  <2> QED
    BY <2>3, <2>4 DEF Safe
<1>4. CASE ~running
  <2>1. /\ spawned < MaxReaders /\ running' = TRUE /\ spawned' = spawned + 1 /\ thread' = spawned + 1
        /\ reader' = [reader EXCEPT ![spawned + 1] = "new"]
        /\ Goes(s, "start")
    BY <1>4 DEF Subscribe, Spawn
  <2>2. spawned \in Nat /\ spawned' \in Nat /\ spawned + 1 \in Reader
    BY <2>1, MuxAssumption DEF Safe, Types, Reader
  <2>3. call' \in [Caller -> Calls] /\ reader' \in [Reader -> Places]
    BY <1>2, <2>1, <2>2 DEF Safe, Types, Goes, Calls, Places
  <2>4. Types'
    BY <1>1, <1>2, <2>1, <2>2, <2>3 DEF Safe, Types
  <2>5. ASSUME Free({Overlap, GaveUp})'
        PROVE  /\ \A r \in Reader : reader[r] = "off"
               /\ \A r \in Reader : reader'[r] # "off" => r = thread'
    <3>1. Free({Overlap, GaveUp}) /\ WhenLate \cap {Overlap, GaveUp} = {}
      BY <1>1, <2>5 DEF Free
    <3>2. \A c \in Caller : ~Is(c, "join")
      BY <3>1 DEF WhenLate
    <3>3. \A r \in Reader : reader[r] = "off"
      BY <1>4, <3>1, <3>2 DEF Safe, PortHasOneReader
    <3> QED
      BY <2>1, <2>2, <3>3 DEF Safe, Types
  <2>6. PortHasOneReader'
    BY <2>1, <2>5 DEF PortHasOneReader
  <2>7. Hands'
    <3>1. reader[spawned + 1] = "off" /\ chunk[spawned + 1] = <<>> /\ frame[spawned + 1] = <<>>
      BY <2>2 DEF Safe, Hands, Reader
    <3>2. \A r \in Reader : r > spawned' => r > spawned /\ r # spawned + 1
      BY <2>1, <2>2 DEF Reader
    <3> QED
      BY <1>1, <2>1, <2>2, <3>1, <3>2 DEF Safe, Types, Hands
  <2> QED
    BY <2>4, <2>6, <2>7 DEF Safe
<1> QED
  BY <1>3, <1>4

\* self._thread.start() lets the new thread begin, or raises.
LEMMA StartSafe == ASSUME Safe, NEW s \in Subscriber, StartThread(s) PROVE Safe'
<1>1. /\ UNCHANGED <<sent, wire, buf, pending, queue, running, thread, spawned, chunk, seen, frame, got, joins, delivered, mishaps>>
      /\ call[s] = "start" /\ s \in Caller
      /\ \/ call' = [call EXCEPT ![s] = "broken"] /\ reader' = reader
         \/ /\ thread \in Reader /\ reader[thread] = "new"
            /\ call' = [call EXCEPT ![s] = "in"] /\ reader' = [reader EXCEPT ![thread] = "check"]
  BY DEF StartThread, mux, Is, Goes, Caller, Safe, Types
<1>2. /\ call' \in [Caller -> Calls] /\ \A c \in Caller : Is(c, "join") => Is(c, "join")'
  BY <1>1 DEF Safe, Types, Is, Calls
<1>3. /\ reader' \in [Reader -> Places]
      /\ \A r \in Reader : /\ reader'[r] # "off" <=> reader[r] # "off"
                           /\ reader'[r] = reader[r] \/ (reader[r] = "new" /\ reader'[r] = "check")
  <2>1. reader \in [Reader -> Places]
    BY DEF Safe, Types
  <2>2. CASE reader' = reader
    BY <2>1, <2>2
  <2>3. CASE thread \in Reader /\ reader[thread] = "new" /\ reader' = [reader EXCEPT ![thread] = "check"]
    BY <2>1, <2>3 DEF Places
  <2> QED
    BY <1>1, <2>2, <2>3
<1>4. Types'
  BY <1>1, <1>2, <1>3 DEF Safe, Types
<1>5. Hands'
  BY <1>1, <1>3 DEF Safe, Hands
<1>6. PortHasOneReader'
  BY <1>1, <1>2, <1>3 DEF Safe, PortHasOneReader, Free
<1> QED
  BY <1>4, <1>5, <1>6 DEF Safe

\* Leaving, closing, and the first half of stop().
LEMMA LeaveSafe ==
  ASSUME Safe, NEW c \in Caller, (c \in Subscriber /\ Unsubscribe(c)) \/ Close(c) \/ StopBegin(c)
  PROVE  Safe'
<1>1. /\ UNCHANGED <<sent, wire, buf, pending, queue, thread, spawned, reader, chunk, seen, frame, got, delivered>>
      /\ mishaps \subseteq mishaps'
  BY DEF Unsubscribe, Close, StopBegin, mux, threads
<1>2. \E where \in Calls : Goes(c, where)
  BY DEF Unsubscribe, Close, StopBegin, Ended, Calls
<1>3. call' \in [Caller -> Calls] /\ joins' \in [Caller -> Reader \cup {NoThread}]
  <2>1. joins' = joins \/ joins' = [joins EXCEPT ![c] = thread]
    BY DEF Unsubscribe, Close, StopBegin
  <2> QED
    BY <1>2, <2>1 DEF Safe, Types, Goes
<1>4. Types' /\ Hands'
  BY <1>1, <1>3 DEF Safe, Types, Hands
<1>5. Is(c, "in") \/ Is(c, "out") \/ Is(c, "stop")
  BY DEF Unsubscribe, Close, StopBegin
<1>6. \A d \in Caller : Is(d, "join") => Is(d, "join")' /\ joins'[d] = joins[d]
  BY <1>2, <1>5, <1>3 DEF Safe, Types, Is, Goes, Unsubscribe, Close, StopBegin
<1>7. running /\ ~running' => Is(c, "join")' /\ joins'[c] = thread
  <2> SUFFICES ASSUME running, ~running' PROVE Is(c, "join")' /\ joins'[c] = thread
    OBVIOUS
  <2>1. call' = [call EXCEPT ![c] = "join"] /\ joins' = [joins EXCEPT ![c] = thread]
    BY DEF Unsubscribe, Close, StopBegin, Goes, mux
  <2> QED
    BY <2>1 DEF Safe, Types, Is
<1>8. PortHasOneReader'
  BY <1>1, <1>6, <1>7 DEF Safe, PortHasOneReader, Free
<1> QED
  BY <1>4, <1>8 DEF Safe

\* Its second half: a reader that is alive by then was given up.
LEMMA StoppedSafe ==
  ASSUME Safe, NEW c \in Caller, StopEnd(c) \/ StopRaises(c)
  PROVE  Safe'
<1>1. /\ UNCHANGED <<sent, wire, queue, running, spawned, reader, chunk, seen, frame, got, delivered>>
      /\ thread' = thread \/ thread' = NoThread
      /\ \E where \in Calls : Goes(c, where)
      /\ joins' = [joins EXCEPT ![c] = NoThread]
  BY DEF StopEnd, StopRaises, mux, threads, Ended, Calls
<1>2. {buf, pending, buf', pending'} \subseteq Seq(Int)
  <2>1. buf \in Seq(Int) /\ pending \in Seq(Int)
    BY DEF Safe, Types
  <2>2. pending \o buf \in Seq(Int)
    BY <2>1, Joined
  <2>3. buf' \in {buf, pending \o buf} /\ pending' \in {pending, <<>>}
    BY DEF StopEnd, StopRaises, mux
  <2>4. <<>> \in Seq(Int)
    OBVIOUS
  <2> QED
    BY <2>1, <2>2, <2>3, <2>4
<1>3. call' \in [Caller -> Calls] /\ joins' \in [Caller -> Reader \cup {NoThread}]
  BY <1>1 DEF Safe, Types, Goes
<1>4. Types' /\ Hands'
  BY <1>1, <1>2, <1>3 DEF Safe, Types, Hands
<1>5. Free({Overlap, GaveUp})' => \A r \in Reader : reader[r] = "off"
  BY DEF StopEnd, StopRaises, Free, WhenAlive
<1>6. PortHasOneReader'
  BY <1>1, <1>5 DEF PortHasOneReader
<1> QED
  BY <1>4, <1>6 DEF Safe

\* A step of a reader that is not its failure.
LEMMA ReaderGoesOn ==
  ASSUME Safe, NEW r \in Reader, NEW at \in Places \ {"off", "new"}, reader[r] \notin {"off", "new"},
         reader' = [reader EXCEPT ![r] = at], UNCHANGED <<running, thread, calls>>, mishaps \subseteq mishaps'
  PROVE  PortHasOneReader' /\ reader' \in [Reader -> Places]
<1>1. reader' \in [Reader -> Places] /\ \A k \in Reader : reader'[k] # "off" => reader[k] # "off"
  BY DEF Safe, Types
<1> QED
  BY <1>1 DEF Safe, PortHasOneReader, Free, Is, calls

LEMMA ReaderSafe == ASSUME Safe, NEW r \in Reader, ReaderStep(r) PROVE Safe'
<1> USE DEF Places
<1>1. Safe => /\ {wire, buf, pending, got} \subseteq Seq(Int)
              /\ chunk \in [Reader -> Seq(Int)] /\ seen \in [Reader -> Seq(Int)] /\ frame \in [Reader -> Seq(Int)]
  BY DEF Safe, Types
<1>2. CASE Check(r)
  <2>1. reader[r] = "check" /\ \E at \in {"read", "off"} : reader' = [reader EXCEPT ![r] = at]
    BY <1>2 DEF Check
  <2>2. UNCHANGED <<sent, wire, buf, pending, running, thread, queue, spawned, chunk, seen, frame, got, call, joins, delivered, mishaps>>
    BY <1>2 DEF Check, mux, calls
  <2>3. Types' /\ Hands'
    BY <2>1, <2>2 DEF Safe, Types, Hands
  <2>4. \A k \in Reader : reader'[k] # "off" => reader[k] # "off"
    BY <2>1 DEF Safe, Types
  <2>5. PortHasOneReader'
    BY <2>2, <2>4 DEF Safe, PortHasOneReader, Free, Is
  <2> QED
    BY <2>3, <2>5 DEF Safe
<1>3. ASSUME NEW n \in 0 .. Len(wire), ReadChunk(r, n) PROVE Safe'
  <2>1. /\ reader[r] = "read" /\ wire' = SubSeq(wire, n + 1, Len(wire))
        /\ chunk' = [chunk EXCEPT ![r] = SubSeq(wire, 1, n)]
        /\ reader' = [reader EXCEPT ![r] = IF n = 0 THEN "check" ELSE "append"]
        /\ UNCHANGED <<sent, buf, pending, running, thread, queue, spawned, seen, frame, got, calls, delivered, mishaps>>
    BY <1>3 DEF ReadChunk, TakeWire, mux
  <2>2. SubSeq(wire, n + 1, Len(wire)) \in Seq(Int) /\ SubSeq(wire, 1, n) \in Seq(Int) /\ (n = 0 => SubSeq(wire, 1, n) = <<>>)
    BY <1>1, FrontOff
  <2>3. PortHasOneReader' /\ reader' \in [Reader -> Places]
    BY <2>1, ReaderGoesOn
  <2>4. Types'
    BY <2>1, <2>2, <2>3 DEF Safe, Types, calls
  <2>5. n = 0 \/ reader'[r] = "append"
    BY <2>1 DEF Safe, Types
  <2>6. Hands'
    BY <2>1, <2>2, <2>5 DEF Safe, Types, Hands
  <2> QED
    BY <2>3, <2>4, <2>6 DEF Safe
<1>4. CASE Fail(r)
  <2>1. /\ reader[r] = "read" /\ reader' = [reader EXCEPT ![r] = "off"]
        /\ running' = FALSE /\ thread' = NoThread /\ mishaps \subseteq mishaps'
        /\ UNCHANGED <<sent, wire, buf, pending, queue, spawned, chunk, seen, frame, got, call, joins, delivered>>
    BY <1>4 DEF Fail, calls
  <2>2. Types' /\ Hands'
    BY <2>1 DEF Safe, Types, Hands
  <2>3. ASSUME Free({Overlap, GaveUp})' PROVE \A k \in Reader : reader'[k] = "off"
    <3>1. \A k \in Reader : reader[k] # "off" => k = r
      BY <2>1, <2>3 DEF Safe, PortHasOneReader, Free
    <3> QED
      BY <2>1, <3>1 DEF Safe, Types
  <2>4. PortHasOneReader'
    BY <2>3 DEF PortHasOneReader
  <2> QED
    BY <2>2, <2>4 DEF Safe
<1>5. CASE AppendChunk(r)
  <2>1. /\ reader[r] = "append" /\ pending' = pending \o chunk[r] /\ chunk' = [chunk EXCEPT ![r] = <<>>]
        /\ reader' = [reader EXCEPT ![r] = "load"]
        /\ UNCHANGED <<sent, wire, buf, running, thread, queue, spawned, seen, frame, got, calls, delivered, mishaps>>
    BY <1>5 DEF AppendChunk
  <2>2. pending \o chunk[r] \in Seq(Int) /\ <<>> \in Seq(Int)
    BY <1>1, Joined
  <2>3. PortHasOneReader' /\ reader' \in [Reader -> Places]
    BY <2>1, ReaderGoesOn
  <2>4. Types' /\ Hands'
    BY <2>1, <2>2, <2>3 DEF Safe, Types, Hands, calls
  <2> QED
    BY <2>3, <2>4 DEF Safe
<1>6. CASE LoadPending(r)
  <2>1. /\ reader[r] = "load" /\ seen' = [seen EXCEPT ![r] = pending] /\ reader' = [reader EXCEPT ![r] = "store"]
        /\ UNCHANGED <<sent, wire, buf, pending, running, thread, queue, spawned, chunk, frame, got, calls, delivered, mishaps>>
    BY <1>6 DEF LoadPending, mux
  <2>2. PortHasOneReader' /\ reader' \in [Reader -> Places]
    BY <2>1, ReaderGoesOn
  <2>3. Types' /\ Hands'
    BY <2>1, <2>2 DEF Safe, Types, Hands, calls
  <2> QED
    BY <2>2, <2>3 DEF Safe
<1>7. CASE Extract(r)
  <2> DEFINE f == SubSeq(seen[r], Min(Begins(seen[r])), Min(Ends(seen[r])))
             q == SubSeq(seen[r], Min(Ends(seen[r])) + 1, Len(seen[r]))
             at == IF ForSubscribers(f) THEN "deliver" ELSE "hand"
  <2>1. /\ reader[r] = "store" /\ Ends(seen[r]) # {} /\ frame' = [frame EXCEPT ![r] = f] /\ pending' = q
        /\ reader' = [reader EXCEPT ![r] = at]
        /\ seen' = [seen EXCEPT ![r] = <<>>]
        /\ UNCHANGED <<sent, wire, buf, running, thread, queue, spawned, chunk, got, calls, delivered, mishaps>>
    BY <1>7 DEF Extract
  <2>2. f \in Seq(Int) /\ q \in Seq(Int) /\ <<>> \in Seq(Int)
    BY <1>1, <2>1, Cut
  <2>3. at = "deliver" => \E m \in Monitor : f = <<2 * m - 1, 2 * m>>
    BY DEF ForSubscribers
  <2>4. at \in {"deliver", "hand"}
    OBVIOUS
  <2> HIDE DEF f, q, at
  <2>5. PortHasOneReader' /\ reader' \in [Reader -> Places]
    BY <2>1, <2>4, ReaderGoesOn
  <2>6. Types'
    BY <2>1, <2>2, <2>5 DEF Safe, Types, calls
  <2>7. Hands'
    BY <2>1, <2>3, <2>4 DEF Safe, Types, Hands
  <2> QED
    BY <2>5, <2>6, <2>7 DEF Safe
<1>8. CASE Deliver(r)
  <2>1. PICK m \in Monitor : frame[r] = <<2 * m - 1, 2 * m>>
    BY <1>8 DEF Deliver, Safe, Hands
  <2>2. /\ reader[r] = "deliver" /\ Last(frame[r]) \div 2 = m /\ m \in Int
        /\ frame' = [frame EXCEPT ![r] = <<>>] /\ reader' = [reader EXCEPT ![r] = "load"]
        /\ queue' = [s \in Subscriber |-> IF s \in subs THEN Append(queue[s], m) ELSE queue[s]]
        /\ delivered' = delivered \cup {m}
        /\ UNCHANGED <<sent, wire, buf, pending, running, thread, spawned, chunk, seen, got, calls, mishaps>>
    BY <1>8, <2>1, LastOfFrame DEF Deliver, mux
  <2>3. queue' \in [Subscriber -> Seq(Int)]
    BY <2>2 DEF Safe, Types
  <2>4. PortHasOneReader' /\ reader' \in [Reader -> Places]
    BY <2>2, ReaderGoesOn
  <2>5. Types' /\ Hands'
    BY <2>2, <2>3, <2>4 DEF Safe, Types, Hands, calls
  <2> QED
    BY <2>4, <2>5 DEF Safe
<1>9. CASE HandBack(r)
  <2>1. /\ reader[r] = "hand" /\ buf' = buf \o frame[r] /\ frame' = [frame EXCEPT ![r] = <<>>]
        /\ reader' = [reader EXCEPT ![r] = "load"]
        /\ UNCHANGED <<sent, wire, pending, running, thread, queue, spawned, chunk, seen, got, calls, delivered, mishaps>>
    BY <1>9 DEF HandBack
  <2>2. buf \o frame[r] \in Seq(Int) /\ <<>> \in Seq(Int)
    BY <1>1, Joined
  <2>3. PortHasOneReader' /\ reader' \in [Reader -> Places]
    BY <2>1, ReaderGoesOn
  <2>4. Types' /\ Hands'
    BY <2>1, <2>2, <2>3 DEF Safe, Types, Hands, calls
  <2> QED
    BY <2>3, <2>4 DEF Safe
<1>10. CASE NoFrame(r)
  <2>1. /\ reader[r] = "store" /\ seen' = [seen EXCEPT ![r] = <<>>] /\ reader' = [reader EXCEPT ![r] = "check"]
        /\ pending' = LET p == seen[r] IN IF Begins(p) = {} THEN <<>> ELSE SubSeq(p, Min(Begins(p)), Len(p))
        /\ UNCHANGED <<sent, wire, buf, running, thread, queue, spawned, chunk, frame, got, calls, delivered, mishaps>>
    BY <1>10 DEF NoFrame
  <2>2. pending' \in Seq(Int) /\ <<>> \in Seq(Int)
    <3> DEFINE p == seen[r]
    <3>1. p \in Seq(Int)
      BY <1>1
    <3>2. pending' = IF Begins(p) = {} THEN <<>> ELSE SubSeq(p, Min(Begins(p)), Len(p))
      BY <2>1
    <3> HIDE DEF p
    <3> QED
      BY <3>1, <3>2, Rest
  <2>3. PortHasOneReader' /\ reader' \in [Reader -> Places]
    BY <2>1, ReaderGoesOn
  <2>4. Types' /\ Hands'
    BY <2>1, <2>2, <2>3 DEF Safe, Types, Hands, calls
  <2> QED
    BY <2>3, <2>4 DEF Safe
<1> QED
  BY <1>2, <1>3, <1>4, <1>5, <1>6, <1>7, <1>8, <1>9, <1>10 DEF ReaderStep

LEMMA StepSafe == Safe /\ [Next]_vars => Safe'
<1> SUFFICES ASSUME Safe, [Next]_vars PROVE Safe'
  OBVIOUS
<1>1. CASE SetMonitorIndex \/ UNCHANGED vars
  <2>1. UNCHANGED <<sent, wire, buf, pending, running, thread, threads, queue, got, calls, delivered, mishaps>>
    BY <1>1 DEF SetMonitorIndex, vars, mux
  <2> QED
    BY <2>1, OtherSafe DEF Safe, Types
<1>2. ASSUME NEW s \in Subscriber, Subscribe(s) \/ StartThread(s) \/ Unsubscribe(s) PROVE Safe'
  BY <1>2, SubscribeSafe, StartSafe, LeaveSafe DEF Caller
<1>3. ASSUME NEW c \in Closer, Close(c) PROVE Safe'
  BY <1>3, LeaveSafe DEF Caller
<1>4. ASSUME NEW c \in Caller, Stop(c) PROVE Safe'
  BY <1>4, LeaveSafe, StoppedSafe DEF Stop
<1> QED
  BY <1>1, <1>2, <1>3, <1>4, SendSafe, ReadSafe, ReaderSafe DEF Next

\* Whatever the clients, the streams, the failures and the threads that close do, in
\* whichever order: the port has one reader at a time, as long as no stream subscribes in
\* the middle of a stop() and no wait for the reader is given up.
THEOREM OneReader == Spec => []PortHasOneReader
<1>1. Safe => PortHasOneReader
  BY DEF Safe
<1>2. Safe /\ [Next]_vars => Safe'
  BY StepSafe
<1> QED
  BY <1>1, <1>2, InitSafe, PTL DEF Spec

-----------------------------------------------------------------------------
(* Whom the reader serves. *)

\* A reader is asked for by a stream, or its stop() is due.
Asked == running => subs # {} \/ \E c \in Caller : Is(c, "stop")

\* Unless the port fails, or a stream comes in the middle of a stop(): who stops the reader
\* was the last stream, none waits for a reader that is to run, it is there, and if it
\* was not started, somebody is about to start it.
Served == Free({Late, Overlap, Failed}) =>
    /\ \A s \in Subscriber : Is(s, "stop") => subs = {}
    /\ running => \A c \in Caller : ~Is(c, "join")
    /\ running => thread \in Reader /\ reader[thread] # "off"
    /\ running /\ reader[thread] = "new" => \E s \in Subscriber : Is(s, "start")
    /\ subs # {} => running

ServeInv == Safe /\ Asked /\ Served

LEMMA InitServe == Init => ServeInv
  BY InitSafe DEF Init, ServeInv, Asked, Served, Is, Caller

\* What changes neither who calls nor who reads.
LEMMA OtherServe ==
  ASSUME ServeInv, UNCHANGED <<running, thread, subs, call>>, mishaps \subseteq mishaps',
         \A r \in Reader : /\ reader[r] # "off" => reader'[r] # "off" \/ ~running
                           /\ reader'[r] = "new" => reader[r] = "new"
  PROVE  Asked' /\ Served'
<1>1. Asked'
  BY DEF ServeInv, Asked, Is
<1>2. Served'
  BY DEF ServeInv, Served, Free, Is
<1> QED
  BY <1>1, <1>2

LEMMA SubscribeServe == ASSUME ServeInv, NEW s \in Subscriber, Subscribe(s) PROVE Asked' /\ Served'
<1>1. subs' # {} /\ mishaps' = mishaps \cup WhenLate /\ s \in Caller /\ call[s] = "out"
  BY DEF Subscribe, Caller, Is
<1>2. call \in [Caller -> Calls] /\ reader \in [Reader -> Places]
  BY DEF ServeInv, Safe, Types
<1>3. Asked'
  BY <1>1 DEF Asked
<1>4. SUFFICES ASSUME Free({Late, Overlap, Failed})' PROVE Served'
  BY <1>3 DEF Served
<1>5. Free({Late, Overlap, Failed}) /\ \A c \in Caller : ~Is(c, "stop") /\ ~Is(c, "join")
  BY <1>1, <1>4 DEF Free, WhenLate
<1>6. \E where \in {"in", "start"} : call' = [call EXCEPT ![s] = where]
  BY DEF Subscribe, Goes
<1>7. \A c \in Caller : ~Is(c, "stop")' /\ ~Is(c, "join")'
  BY <1>2, <1>5, <1>6 DEF Is
<1>8. CASE running
  <2>1. UNCHANGED <<running, thread, reader>> /\ call' = [call EXCEPT ![s] = "in"]
    BY <1>8 DEF Subscribe, Goes
  <2>2. \A t \in Subscriber : Is(t, "start") => Is(t, "start")'
    BY <1>1, <1>2, <2>1 DEF Is, Caller
  <2> QED
    BY <1>5, <1>7, <1>8, <2>1, <2>2 DEF ServeInv, Served, Caller
<1>9. CASE ~running
  <2>1. /\ running' = TRUE /\ thread' = spawned + 1 /\ reader' = [reader EXCEPT ![spawned + 1] = "new"]
        /\ call' = [call EXCEPT ![s] = "start"] /\ spawned < MaxReaders
    BY <1>9 DEF Subscribe, Spawn, Goes
  <2>2. spawned + 1 \in Reader
    BY <2>1, MuxAssumption DEF ServeInv, Safe, Types, Reader
  <2>3. reader'[thread'] = "new" /\ Is(s, "start")'
    BY <1>1, <1>2, <2>1, <2>2 DEF Is
  <2> QED
    BY <1>7, <2>1, <2>2, <2>3 DEF Served, Caller
<1> QED
  BY <1>8, <1>9

LEMMA StartServe == ASSUME ServeInv, NEW s \in Subscriber, StartThread(s) PROVE Asked' /\ Served'
<1>1. /\ UNCHANGED <<running, thread, subs, mishaps>> /\ s \in Caller /\ call[s] = "start"
      /\ \E where \in {"in", "broken"} : call' = [call EXCEPT ![s] = where]
  BY DEF StartThread, mux, Is, Goes, Caller
<1>2. call \in [Caller -> Calls] /\ reader \in [Reader -> Places]
  BY DEF ServeInv, Safe, Types
<1>3. \A c \in Caller : (Is(c, "stop")' <=> Is(c, "stop")) /\ (Is(c, "join")' <=> Is(c, "join"))
  BY <1>1, <1>2 DEF Is
<1>4. Asked'
  BY <1>1, <1>3 DEF ServeInv, Asked
<1>5. \/ /\ thread \in Reader /\ reader[thread] = "new"
         /\ reader' = [reader EXCEPT ![thread] = "check"]
      \/ reader' = reader /\ ~(thread # NoThread /\ reader[thread] = "new")
  BY DEF StartThread, ServeInv, Safe, Types
<1>6. SUFFICES ASSUME Free({Late, Overlap, Failed})' PROVE Served'
  BY <1>4 DEF Served
<1>7. Free({Late, Overlap, Failed})
  BY <1>1, <1>6 DEF Free
<1>8. running => thread \in Reader /\ reader'[thread] # "off" /\ reader'[thread] # "new"
  <2> SUFFICES ASSUME running PROVE thread \in Reader /\ reader'[thread] # "off" /\ reader'[thread] # "new"
    OBVIOUS
  <2>1. thread \in Reader /\ reader[thread] # "off" /\ thread # NoThread
    BY <1>7 DEF ServeInv, Served, NoThread, Reader
  <2>2. CASE reader' = [reader EXCEPT ![thread] = "check"]
    BY <1>2, <2>1, <2>2
  <2>3. CASE reader' = reader /\ ~(thread # NoThread /\ reader[thread] = "new")
    BY <2>1, <2>3
  <2> QED
    BY <1>5, <2>2, <2>3
<1> QED
  BY <1>1, <1>3, <1>7, <1>8 DEF ServeInv, Served, Caller

LEMMA StopServe ==
  ASSUME ServeInv, NEW c \in Caller, (c \in Subscriber /\ Unsubscribe(c)) \/ (c \in Closer /\ Close(c)) \/ Stop(c)
  PROVE  Asked' /\ Served'
<1>1. call \in [Caller -> Calls] /\ Subscriber \subseteq Caller
  BY DEF ServeInv, Safe, Types, Caller
<1>2. CASE c \in Subscriber /\ Unsubscribe(c)
  <2>1. /\ call[c] = "in" /\ subs' = subs \ {c} /\ UNCHANGED <<running, thread, reader, mishaps>>
        /\ call' = [call EXCEPT ![c] = IF subs = {c} THEN "stop" ELSE "out"]
    BY <1>2 DEF Unsubscribe, threads, Is, Goes
  <2>2. \A d \in Caller : /\ (Is(d, "join")' <=> Is(d, "join")) /\ (Is(d, "start")' <=> Is(d, "start"))
                          /\ Is(d, "stop") => Is(d, "stop")'
                          /\ Is(d, "stop")' => Is(d, "stop") \/ (d = c /\ subs = {c})
    BY <1>1, <2>1 DEF Is
  <2>3. Asked'
    <3>1. subs = {c} => Is(c, "stop")'
      BY <1>1, <2>1 DEF Is
    <3>2. subs # {} /\ subs # {c} => subs' # {}
      BY <2>1
    <3> QED
      BY <2>1, <2>2, <3>1, <3>2 DEF ServeInv, Asked
  <2>4. Served'
    BY <1>1, <2>1, <2>2 DEF ServeInv, Served, Free
  <2> QED
    BY <2>3, <2>4
<1>3. CASE c \in Closer /\ Close(c)
  <2>1. /\ UNCHANGED <<subs, running, thread, reader, mishaps>> /\ call[c] = "out"
        /\ call' = [call EXCEPT ![c] = "stop"]
    BY <1>3 DEF Close, mux, threads, Is, Goes
  <2>2. \A d \in Caller : /\ (Is(d, "join")' <=> Is(d, "join")) /\ (Is(d, "start")' <=> Is(d, "start"))
                          /\ Is(d, "stop") => Is(d, "stop")'
                          /\ Is(d, "stop")' => Is(d, "stop") \/ d = c
    BY <1>1, <2>1 DEF Is
  <2>3. c \notin Subscriber
    BY <1>3, MuxAssumption
  <2> QED
    BY <1>1, <2>1, <2>2, <2>3 DEF ServeInv, Asked, Served, Free
<1>4. CASE StopBegin(c)
  <2>1. /\ UNCHANGED <<subs, thread, reader>> /\ call[c] = "stop" /\ running' = FALSE
        /\ \E where \in {"join", "out", "closed"} : call' = [call EXCEPT ![c] = where]
        /\ mishaps' = IF c \in Closer THEN mishaps \cup {Failed} ELSE mishaps
    BY <1>4 DEF StopBegin, threads, Is, Goes, Ended
  <2>2. \A d \in Caller : Is(d, "stop")' => Is(d, "stop")
    BY <1>1, <2>1 DEF Is
  <2>3. Free({Late, Overlap, Failed})' => Free({Late, Overlap, Failed}) /\ c \in Subscriber
    BY <2>1 DEF Free, Caller
  <2>4. Free({Late, Overlap, Failed})' => subs = {}
    BY <2>1, <2>3 DEF ServeInv, Served, Is
  <2> QED
    BY <1>1, <2>1, <2>2, <2>4 DEF Asked, Served
<1>5. CASE StopEnd(c) \/ StopRaises(c)
  <2>1. /\ UNCHANGED <<subs, running, reader>> /\ call[c] = "join" /\ mishaps \subseteq mishaps'
        /\ thread' = thread \/ thread' = NoThread
        /\ \E where \in {"out", "closed"} : call' = [call EXCEPT ![c] = where]
    BY <1>5 DEF StopEnd, StopRaises, mux, threads, Is, Goes, Ended
  <2>2. \A d \in Caller : /\ Is(d, "stop")' <=> Is(d, "stop")
                          /\ Is(d, "join")' => Is(d, "join")
    BY <1>1, <2>1 DEF Is
  <2>3. Free({Late, Overlap, Failed})' => ~running /\ Free({Late, Overlap, Failed})
    BY <2>1 DEF ServeInv, Served, Free, Is
  <2>4. Asked'
    BY <2>1, <2>2 DEF ServeInv, Asked
  <2>5. Served'
    BY <1>1, <2>1, <2>2, <2>3 DEF ServeInv, Served
  <2> QED
    BY <2>4, <2>5
<1> QED
  BY <1>2, <1>3, <1>4, <1>5 DEF Stop

LEMMA ReaderServe == ASSUME ServeInv, NEW r \in Reader, ReaderStep(r) PROVE Asked' /\ Served'
<1>1. reader \in [Reader -> Places]
  BY DEF ServeInv, Safe, Types
<1>2. CASE Fail(r)
  BY <1>2 DEF Fail, Asked, Served, Free
<1>3. CASE ~Fail(r)
  <2>1. UNCHANGED <<running, thread, subs, call, mishaps>>
    BY <1>3 DEF ReaderStep, Check, ReadChunk, AppendChunk, LoadPending, Extract, Deliver, HandBack, NoFrame, mux, calls
  <2>2. \E p \in Places : reader' = [reader EXCEPT ![r] = p] /\ p # "new" /\ (p # "off" \/ ~running)
    <3> USE DEF Places
    <3>1. CASE Check(r)
      <4>1. reader' = [reader EXCEPT ![r] = IF running THEN "read" ELSE "off"]
        BY <3>1 DEF Check
      <4> QED
        BY <4>1
    <3>2. CASE Extract(r)
      <4> DEFINE f == SubSeq(seen[r], Min(Begins(seen[r])), Min(Ends(seen[r])))
                 at == IF ForSubscribers(f) THEN "deliver" ELSE "hand"
      <4>1. reader' = [reader EXCEPT ![r] = at]
        BY <3>2 DEF Extract
      <4>2. at \in Places /\ at # "new" /\ at # "off"
        OBVIOUS
      <4> HIDE DEF at
      <4> QED
        BY <4>1, <4>2
    <3>3. CASE ~Check(r) /\ ~Extract(r)
      <4>1. \E at \in {"check", "append", "load", "store"} : reader' = [reader EXCEPT ![r] = at]
        BY <1>3, <3>3 DEF ReaderStep, ReadChunk, AppendChunk, LoadPending, Deliver, HandBack, NoFrame
      <4> QED
        BY <4>1
    <3> QED
      BY <3>1, <3>2, <3>3
  <2>3. \A k \in Reader : /\ reader[k] # "off" => reader'[k] # "off" \/ ~running
                          /\ reader'[k] = "new" => reader[k] = "new"
    BY <1>1, <2>2
  <2> QED
    BY <2>1, <2>3, OtherServe
<1> QED
  BY <1>2, <1>3

LEMMA StepServe == ServeInv /\ [Next]_vars => ServeInv'
<1> SUFFICES ASSUME ServeInv, [Next]_vars PROVE ServeInv'
  OBVIOUS
<1>1. Safe'
  BY StepSafe DEF ServeInv
<1>2. mishaps \subseteq mishaps'
  BY MishapsStay
<1>3. CASE Send \/ SetMonitorIndex \/ Read \/ UNCHANGED vars
  <2>1. UNCHANGED <<running, thread, subs, call, reader>>
    BY <1>3 DEF Send, SetMonitorIndex, Read, ReadBuffered, ReadCall, ReadWaited, ReadNothing, ReadPort, TakeBuf, vars, mux, threads, calls
  <2> QED
    BY <1>1, <1>2, <2>1, OtherServe DEF ServeInv
<1>4. ASSUME NEW s \in Subscriber, Subscribe(s) \/ StartThread(s) \/ Unsubscribe(s) PROVE Asked' /\ Served'
  BY <1>4, SubscribeServe, StartServe, StopServe DEF Caller
<1>5. ASSUME NEW c \in Closer, Close(c) PROVE Asked' /\ Served'
  BY <1>5, StopServe DEF Caller
<1>6. ASSUME NEW c \in Caller, Stop(c) PROVE Asked' /\ Served'
  BY <1>6, StopServe
<1> QED
  BY <1>1, <1>3, <1>4, <1>5, <1>6, ReaderServe DEF Next, ServeInv

\* A reader runs for the streams alone; and while there is a stream there is one, started
\* or about to be, unless the port fails or a stream comes in the middle of a stop().
THEOREM StreamsAreServed == Spec => []ReaderServesStreams
<1>1. ServeInv => ReaderServesStreams
  <2> SUFFICES ASSUME ServeInv PROVE ReaderServesStreams
    OBVIOUS
  <2>1. running => subs # {} \/ \E c \in Caller : Is(c, "stop")
    BY DEF ServeInv, Asked
  <2>2. ASSUME Free({Late, Overlap, Failed}), subs # {}
        PROVE  (\E r \in Reader : reader[r] \notin {"off", "new"}) \/ (\E s \in Subscriber : Is(s, "start"))
    BY <2>2 DEF ServeInv, Served
  <2>3. Free({Late, Overlap, Failed}) /\ subs # {} => running
    BY DEF ServeInv, Served
  <2> QED
    BY <2>1, <2>2, <2>3 DEF ReaderServesStreams
<1>2. ServeInv /\ [Next]_vars => ServeInv'
  BY StepServe
<1> QED
  BY <1>1, <1>2, InitServe, PTL DEF Spec

-----------------------------------------------------------------------------
(* Where the pieces are. *)

LEMMA Halves == \A t \in Int : ~IsHead(t) => IsHead(t - 1)
<1> SUFFICES ASSUME NEW t \in Int, ~(t % 2 = 1) PROVE (t - 1) % 2 = 1
  BY DEF IsHead
<1>1. t % 2 \in 0 .. 1 /\ t = 2 * (t \div 2) + (t % 2) /\ t \div 2 \in Int
  OBVIOUS
<1>2. t - 1 = 2 * (t \div 2 - 1) + 1
  BY <1>1
<1> QED
  BY <1>1, <1>2

\* The next piece is sent: it is a beginning, or its beginning is on the way or went to read().
LEMMA AccountSend ==
  ASSUME NEW n, NEW G, NEW F, NEW U, NEW D, Accounted(n, G, F, U, D)
  PROVE  Accounted(n + 1, G, F, U \cup {n + 1}, D)
<1>1. n \in Nat /\ G \cup F \cup U \subseteq 1 .. n /\ D \subseteq Monitor /\ Monitor \subseteq Nat
  BY MuxAssumption DEF Accounted
<1>2. n + 1 \in Nat /\ G \cup F \cup (U \cup {n + 1}) \subseteq 1 .. n + 1
  BY <1>1
<1>3. \A m \in D : 2 * m <= n + 1 /\ 2 * m <= n
  BY <1>1 DEF Accounted
<1>4. \A k \in 1 .. n + 1 : k \in 1 .. n \/ k = n + 1
  BY <1>1
<1>5. ASSUME ~IsHead(n + 1), n \notin U \cup G PROVE FALSE
  <2>1. IsHead(n) /\ n + 1 - 1 = n
    BY <1>1, <1>5, Halves
  <2>2. CASE n = 0
    BY <2>1, <2>2 DEF IsHead
  <2>3. CASE n \in F
    <3>1. \E y \in F : y > n
      BY <2>1, <2>3 DEF Accounted
    <3> QED
      BY <1>1, <3>1
  <2>4. ASSUME NEW m \in D, n \in {2 * m - 1, 2 * m} PROVE FALSE
    <3>1. m \in Nat /\ 2 * m <= n
      BY <1>1, <1>3
    <3>2. n = 2 * m
      BY <1>1, <2>4, <3>1
    <3>3. (2 * m) % 2 = 0
      BY <3>1
    <3> QED
      BY <2>1, <3>2, <3>3 DEF IsHead
  <2>5. n # 0 => n \in 1 .. n
    BY <1>1
  <2> QED
    BY <1>5, <2>1, <2>2, <2>3, <2>4, <2>5 DEF Accounted
<1>6. n + 1 - 1 = n
  BY <1>1
<1> QED
  BY <1>1, <1>2, <1>3, <1>4, <1>5, <1>6 DEF Accounted

\* Pieces go to read() as they come from the port.
LEMMA AccountMove ==
  ASSUME NEW n, NEW G, NEW F, NEW A, NEW U, NEW D, Accounted(n, G, F, A \cup U, D)
  PROVE  Accounted(n, G \cup A, F, U, D)
  BY DEF Accounted

\* The noise N goes, the frame E is taken.
LEMMA AccountCut ==
  ASSUME NEW n, NEW G, NEW N, NEW E, NEW U, NEW D, Accounted(n, G, {}, N \cup E \cup U, D),
         \A x \in N : ~IsHead(x), \A x \in N, y \in E \cup U : x < y, \A x \in E, y \in U : x < y,
         \A x \in E : IsHead(x) => \E y \in E : y > x
  PROVE  Accounted(n, G, E, U, D)
<1>1. n \in Nat /\ G \cup N \cup E \cup U \subseteq 1 .. n
  BY DEF Accounted
<1>2. \A x \in N \cup E \cup U : x \in Int /\ x - 1 < x /\ x - 1 \in Int
  BY <1>1
<1>3. ASSUME NEW t \in U, ~IsHead(t) PROVE t - 1 \in U \cup G
  <2>1. t - 1 \in N \cup E \cup U \cup G /\ IsHead(t - 1)
    BY <1>2, <1>3, Halves DEF Accounted
  <2>2. t - 1 \notin N
    BY <2>1
  <2>3. ASSUME t - 1 \in E PROVE FALSE
    <3>1. PICK y \in E : y > t - 1
      BY <2>1, <2>3
    <3>2. y < t /\ y \in Int /\ t \in Int
      BY <1>2, <3>1
    <3> QED
      BY <3>1, <3>2
  <2> QED
    BY <2>1, <2>2, <2>3
<1>4. ASSUME NEW k \in N PROVE ~IsHead(k) /\ k - 1 \in G
  <2>1. k - 1 \in N \cup E \cup U \cup G /\ IsHead(k - 1) /\ ~IsHead(k)
    BY <1>2, <1>4, Halves DEF Accounted
  <2>2. k - 1 \notin N
    BY <2>1
  <2>3. k - 1 \notin E \cup U
    <3> SUFFICES ASSUME k - 1 \in E \cup U PROVE FALSE
      OBVIOUS
    <3>1. k < k - 1 /\ k \in Int
      BY <1>2, <1>4
    <3> QED
      BY <3>1
  <2> QED
    BY <2>1, <2>2, <2>3
<1> QED
  BY <1>1, <1>3, <1>4 DEF Accounted

LEMMA AccountDeliver ==
  ASSUME NEW n, NEW G, NEW U, NEW D, NEW m \in Monitor, Accounted(n, G, {2 * m - 1, 2 * m}, U, D)
  PROVE  Accounted(n, G, {}, U, D \cup {m}) /\ 2 * m <= n
<1>1. n \in Nat /\ m \in Nat /\ 2 * m \in 1 .. n
  BY MuxAssumption DEF Accounted
<1>2. 2 * m <= n
  BY <1>1
<1> QED
  BY <1>1, <1>2 DEF Accounted

LEMMA AccountHand ==
  ASSUME NEW n, NEW G, NEW F, NEW U, NEW D, Accounted(n, G, F, U, D)
  PROVE  Accounted(n, G \cup F, {}, U, D)
  BY DEF Accounted

-----------------------------------------------------------------------------
(* The stream, step by step. *)

LEMMA InitStream == Init => StreamInv
<1> SUFFICES ASSUME Init PROVE StreamInv
  OBVIOUS
<1>1. /\ got = <<>> /\ buf = <<>> /\ InHand = <<>> /\ pending = <<>> /\ Chunks = <<>> /\ wire = <<>>
      /\ sent = 0 /\ delivered = {} /\ \A s \in Subscriber : queue[s] = <<>>
      /\ \A r \in Reader : reader[r] = "off"
  BY DEF Init, InHand, Chunks, Held
<1>2. Given = {} /\ ToSet(InHand) = {} /\ Unframed = {} /\ Ahead = {}
  BY <1>1, EmptyGoesUp DEF Given, Unframed, Ahead
<1>3. InLine(InHand, pending, Chunks, wire)
  BY <1>1, EmptyGoesUp DEF InLine, Below
<1>4. Accounted(sent, Given, ToSet(InHand), Unframed, delivered)
  BY <1>1, <1>2 DEF Accounted
<1>5. Ordered /\ Queued /\ SeenIsPending
  BY <1>1, <1>2, EmptyGoesUp DEF Ordered, Queued, SeenIsPending, Below
<1> QED
  BY <1>3, <1>4, <1>5, InitSafe DEF StreamInv, Flows

\* What a reader that has not ended has in hand is all there is in hand.
LEMMA InHands ==
  ASSUME StreamInv, Free({Overlap, GaveUp})
  PROVE  /\ Flows
         /\ {got, buf, InHand, pending, Chunks, wire} \subseteq Seq(Int)
         /\ \A r \in Reader : reader[r] # "off" =>
               /\ r = thread /\ r # NoThread /\ InHand = frame[r] /\ Chunks = chunk[r]
               /\ InHand # <<>> => reader[r] \in {"deliver", "hand"}
               /\ Chunks # <<>> => reader[r] = "append"
               /\ \A k \in Reader : k # r => reader[k] = "off"
         /\ (\A r \in Reader : reader[r] = "off") => InHand = <<>> /\ Chunks = <<>>
<1>1. /\ \A r \in Reader : reader[r] # "off" => r = thread /\ r # NoThread
      /\ thread = NoThread \/ thread \in Reader
      /\ \A r \in Reader : r # NoThread
  BY DEF StreamInv, Safe, PortHasOneReader, Types, Reader, NoThread
<1>2. {got, buf, InHand, pending, Chunks, wire} \subseteq Seq(Int)
  <2>1. InHand \in Seq(Int) /\ Chunks \in Seq(Int)
    BY <1>1 DEF StreamInv, Safe, Types, InHand, Chunks, Held
  <2> QED
    BY <2>1 DEF StreamInv, Safe, Types
<1>3. ASSUME NEW r \in Reader, reader[r] # "off"
      PROVE  /\ r = thread /\ r # NoThread /\ InHand = frame[r] /\ Chunks = chunk[r]
             /\ InHand # <<>> => reader[r] \in {"deliver", "hand"}
             /\ Chunks # <<>> => reader[r] = "append"
             /\ \A k \in Reader : k # r => reader[k] = "off"
  BY <1>1, <1>3 DEF StreamInv, Safe, Hands, InHand, Chunks, Held
<1>4. ASSUME \A r \in Reader : reader[r] = "off" PROVE InHand = <<>> /\ Chunks = <<>>
  BY <1>1, <1>4 DEF StreamInv, Safe, Hands, InHand, Chunks, Held
<1> QED
  BY <1>2, <1>3, <1>4 DEF StreamInv

\* The sets of pieces are numbers.
LEMMA Numbers ==
  ASSUME StreamInv, Free({Overlap, GaveUp})
  PROVE  /\ sent \in Nat /\ Given \subseteq 1 .. sent /\ Ahead \subseteq 1 .. sent
         /\ Ahead = ToSet(InHand) \cup ToSet(pending) \cup ToSet(Chunks) \cup ToSet(wire)
  BY InHands DEF Flows, Accounted, Ahead, Unframed

\* What the streams got stays behind what is on the way.
LEMMA QueuedStay ==
  ASSUME StreamInv, Free({Overlap, GaveUp}), sent' \in Nat, sent <= sent', Ahead' \subseteq Ahead \cup (sent + 1 .. sent'),
         \A s \in Subscriber : queue'[s] = queue[s] \/ queue'[s] = <<>>
  PROVE  Queued'
<1> SUFFICES ASSUME NEW s \in Subscriber
             PROVE  Up(queue'[s]) /\ \A g \in ToSet(queue'[s]) : 2 * g <= sent' /\ \A x \in Ahead' : 2 * g < x
  BY DEF Queued
<1>1. queue[s] \in Seq(Int) /\ sent \in Nat
  BY DEF StreamInv, Safe, Types
<1>2. CASE queue'[s] = <<>>
  BY <1>2, EmptyGoesUp
<1>3. CASE queue'[s] = queue[s]
  <2>1. Up(queue[s]) /\ \A g \in ToSet(queue[s]) : g \in Int /\ 2 * g <= sent /\ \A x \in Ahead : 2 * g < x
    BY <1>1, InHands, Elements DEF Flows, Queued
  <2>2. ASSUME NEW g \in Int, 2 * g <= sent, NEW x \in sent + 1 .. sent' PROVE 2 * g < x
    BY <1>1, <2>2
  <2>3. ASSUME NEW g \in Int, 2 * g <= sent PROVE 2 * g <= sent'
    BY <1>1, <2>3
  <2> QED
    BY <1>3, <2>1, <2>2, <2>3
<1> QED
  BY <1>2, <1>3

\* And what is handed on, in front of it.
LEMMA InFrontStays ==
  ASSUME StreamInv, Free({Overlap, GaveUp}), sent' \in Nat, mishaps \subseteq mishaps',
         Ahead' \subseteq Ahead \cup (sent + 1 .. sent'), UNCHANGED <<got, buf>>
  PROVE  Ordered'
<1>1. Given' = Given
  BY DEF Given
<1>2. Given \subseteq 1 .. sent /\ sent \in Nat
  BY Numbers
<1>3. \A x \in Given, y \in sent + 1 .. sent' : x < y
  BY <1>2
<1>4. Ordered
  BY InHands DEF Flows
<1> QED
  BY <1>1, <1>3, <1>4 DEF Ordered, Free

\* The pieces stay where they are.
LEMMA FlowsStay ==
  ASSUME StreamInv, Free({Overlap, GaveUp}), mishaps \subseteq mishaps',
         UNCHANGED <<sent, got, buf, pending, wire, delivered, InHand, Chunks>>,
         \A s \in Subscriber : queue'[s] = queue[s] \/ queue'[s] = <<>>,
         SeenIsPending'
  PROVE  Flows'
<1>1. UNCHANGED <<Given, Unframed, Ahead>>
  BY DEF Given, Unframed, Ahead
<1>2. sent \in Nat
  BY Numbers
<1>3. Queued' /\ Ordered'
  BY <1>1, <1>2, QueuedStay, InFrontStays
<1>4. InLine(InHand, pending, Chunks, wire)' /\ Accounted(sent, Given, ToSet(InHand), Unframed, delivered)'
  BY <1>1, InHands DEF Flows
<1> QED
  BY <1>3, <1>4 DEF Flows

LEMMA SendStream == ASSUME StreamInv, Free({Overlap, GaveUp}), Send PROVE Flows'
<1>1. /\ sent' = sent + 1 /\ wire' = Append(wire, sent + 1)
      /\ UNCHANGED <<got, buf, pending, queue, delivered, reader, seen, InHand, Chunks, mishaps>>
  BY DEF Send, mux, threads, InHand, Chunks, Held
<1>2. sent \in Nat /\ sent + 1 \in Nat /\ sent <= sent + 1 /\ sent + 1 .. sent + 1 = {sent + 1}
  BY Numbers
<1>3. /\ wire \in Seq(Int) /\ ToSet(wire') = ToSet(wire) \cup {sent + 1}
      /\ Up(wire') <=> Up(wire) /\ \A x \in ToSet(wire) : x < sent + 1
  BY <1>1, <1>2, InHands, OneBehind
<1>4. /\ Unframed' = Unframed \cup {sent + 1} /\ Ahead' = Ahead \cup {sent + 1} /\ Given' = Given
  BY <1>1, <1>3 DEF Unframed, Ahead, Given
<1>5. \A x \in Ahead : x < sent + 1
  BY <1>2, Numbers
<1>6. InLine(InHand, pending, Chunks, wire)'
  BY <1>1, <1>3, <1>5, InHands DEF Flows, InLine, Below, Ahead, Unframed
<1>7. Accounted(sent, Given, ToSet(InHand), Unframed, delivered)'
  BY <1>1, <1>4, InHands, AccountSend DEF Flows
<1>8. Queued' /\ Ordered'
  BY <1>1, <1>2, <1>4, QueuedStay, InFrontStays
<1>9. SeenIsPending'
  BY <1>1, InHands DEF Flows, SeenIsPending
<1> QED
  BY <1>6, <1>7, <1>8, <1>9 DEF Flows

LEMMA TakeStream ==
  ASSUME StreamInv, Free({Overlap, GaveUp}), NEW n \in 1 .. Len(buf),
         got' = got \o SubSeq(buf, 1, n), buf' = SubSeq(buf, n + 1, Len(buf)),
         UNCHANGED <<sent, wire, pending, queue, delivered, reader, seen, InHand, Chunks, mishaps>>
  PROVE  Flows'
<1> DEFINE p == SubSeq(buf, 1, n)
           q == SubSeq(buf, n + 1, Len(buf))
<1>1. {got, buf} \subseteq Seq(Int) /\ n \in 0 .. Len(buf)
  BY InHands
<1>2. /\ p \in Seq(Int) /\ q \in Seq(Int) /\ ToSet(buf) = ToSet(p) \cup ToSet(q)
      /\ Up(buf) => Up(p) /\ Up(q) /\ Below(p, q)
  BY <1>1, FrontOff
<1>3. got' = got \o p /\ buf' = q
  OBVIOUS
<1> HIDE DEF p, q
<1>4. ToSet(got') = ToSet(got) \cup ToSet(p) /\ (Up(got') <=> Up(got) /\ Up(p) /\ Below(got, p))
  BY <1>1, <1>2, <1>3, InRow
<1>5. UNCHANGED <<Given, Unframed, Ahead>>
  BY <1>2, <1>3, <1>4 DEF Given, Unframed, Ahead
<1>6. Ordered'
  <2> SUFFICES ASSUME Free({Bypass, Backlog}) PROVE Ordered'
    BY DEF Ordered, Free
  <2>1. Up(got) /\ Up(buf) /\ Below(got, buf) /\ \A x \in Given, y \in Ahead : x < y
    BY InHands DEF Flows, Ordered
  <2>2. Up(got') /\ Up(buf')
    BY <1>2, <1>3, <1>4, <2>1 DEF Below
  <2>3. Below(got', buf')
    BY <1>2, <1>3, <1>4, <2>1 DEF Below
  <2>4. \A x \in Given', y \in Ahead' : x < y
    BY <1>5, <2>1
  <2> QED
    BY <2>2, <2>3, <2>4 DEF Ordered
<1>7. Queued' /\ SeenIsPending'
  BY <1>5, InHands DEF Flows, Queued, SeenIsPending
<1>8. InLine(InHand, pending, Chunks, wire)' /\ Accounted(sent, Given, ToSet(InHand), Unframed, delivered)'
  BY <1>5, InHands DEF Flows
<1> QED
  BY <1>6, <1>7, <1>8 DEF Flows

\* The client takes what is in the port, in front of what the reader has or not.
LEMMA PortStream ==
  ASSUME StreamInv, Free({Overlap, GaveUp}), NEW n \in 0 .. Len(wire), n > 0, ReadPort(n)
  PROVE  Flows'
<1> DEFINE p == SubSeq(wire, 1, n)
           q == SubSeq(wire, n + 1, Len(wire))
<1>1. /\ got' = got \o p /\ wire' = q
      /\ mishaps' = IF Older THEN mishaps \cup {Bypass} ELSE mishaps
      /\ UNCHANGED <<sent, buf, pending, queue, delivered, reader, seen, InHand, Chunks>>
  BY DEF ReadPort, TakeWire, mux, threads, InHand, Chunks, Held
<1>2. /\ p \in Seq(Int) /\ q \in Seq(Int) /\ ToSet(wire) = ToSet(p) \cup ToSet(q)
      /\ Up(wire) => Up(p) /\ Up(q) /\ Below(p, q)
  BY InHands, FrontOff
<1> HIDE DEF p, q
<1>3. ToSet(got') = ToSet(got) \cup ToSet(p) /\ (Up(got') <=> Up(got) /\ Up(p) /\ Below(got, p))
  BY <1>1, <1>2, InHands, InRow
<1>4. /\ Given' = Given \cup ToSet(p)
      /\ Unframed = ToSet(p) \cup Unframed' /\ Ahead' \subseteq Ahead
  BY <1>1, <1>2, <1>3 DEF Given, Unframed, Ahead
<1>5. InLine(InHand, pending, Chunks, wire)'
  BY <1>1, <1>2, InHands DEF Flows, InLine, Below
<1>6. Accounted(sent, Given, ToSet(InHand), Unframed, delivered)'
  BY <1>1, <1>4, InHands, AccountMove DEF Flows
<1>7. Queued' /\ SeenIsPending'
  <2>1. Queued'
    BY <1>1, <1>4, Numbers, QueuedStay
  <2> QED
    BY <1>1, <2>1, InHands DEF Flows, SeenIsPending
<1>8. Ordered'
  <2> SUFFICES ASSUME Free({Bypass, Backlog})' PROVE Ordered'
    BY DEF Ordered
  <2>1. ~Older /\ Free({Bypass, Backlog})
    BY <1>1 DEF Free
  <2>2. buf = <<>> /\ pending = <<>> /\ InHand = <<>> /\ Chunks = <<>>
    <3>1. thread \in Reader \cup {NoThread}
      BY DEF StreamInv, Safe, Types
    <3> QED
      BY <2>1, <3>1 DEF Older, InHand, Chunks, Held
  <2>3. Up(got) /\ \A x \in Given, y \in Ahead : x < y
    BY <2>1, InHands DEF Flows, Ordered
  <2>4. Up(p) /\ Below(p, q)
    BY <1>2, InHands DEF Flows, InLine
  <2>5. ToSet(p) \subseteq Ahead /\ ToSet(got) \subseteq Given
    BY <1>2 DEF Ahead, Unframed, Given
  <2>6. Up(got')
    BY <1>3, <2>3, <2>4, <2>5 DEF Below
  <2>7. Up(buf') /\ Below(got', buf')
    BY <1>1, <2>2, EmptyGoesUp DEF Below
  <2>8. Ahead' = ToSet(q) /\ Given' = ToSet(got) \cup ToSet(p) /\ ToSet(q) \subseteq Ahead
    BY <1>1, <1>2, <1>3, <2>2, EmptyGoesUp DEF Ahead, Unframed, Given
  <2>9. \A x \in Given', y \in Ahead' : x < y
    BY <2>3, <2>4, <2>5, <2>8 DEF Below
  <2> QED
    BY <2>6, <2>7, <2>9 DEF Ordered
<1> QED
  BY <1>5, <1>6, <1>7, <1>8 DEF Flows

LEMMA ReadStream == ASSUME StreamInv, Free({Overlap, GaveUp}), Read PROVE Flows'
<1>1. UNCHANGED <<sent, pending, running, thread, threads, calls, queue, delivered>> /\ Safe
  BY ReadTakes DEF StreamInv
<1>2. UNCHANGED <<pending, queue, delivered, reader, seen, InHand, Chunks>>
  BY <1>1 DEF threads, InHand, Chunks, Held
<1>3. CASE UNCHANGED <<got, buf, wire, mishaps>>
  <2>1. SeenIsPending'
    BY <1>2, InHands DEF Flows, SeenIsPending
  <2> QED
    BY <1>1, <1>2, <1>3, <2>1, FlowsStay
<1>4. ASSUME NEW n \in 1 .. Len(buf), got' = got \o SubSeq(buf, 1, n), buf' = SubSeq(buf, n + 1, Len(buf)),
             UNCHANGED <<wire, mishaps>>
      PROVE  Flows'
  BY <1>1, <1>2, <1>4, TakeStream
<1>5. ASSUME NEW n \in 0 .. Len(wire), n > 0 /\ ReadPort(n) PROVE Flows'
  BY <1>5, PortStream
<1> QED
  BY <1>1, <1>3, <1>4, <1>5, ReadTakes

\* Streams and closing threads, up to the end of a stop().
LEMMA CallStream ==
  ASSUME StreamInv, Free({Overlap, GaveUp})', mishaps \subseteq mishaps',
         \/ \E s \in Subscriber : Subscribe(s) \/ StartThread(s) \/ Unsubscribe(s)
         \/ \E c \in Caller : Close(c) \/ StopBegin(c) \/ StopRaises(c)
  PROVE  Flows'
<1>1. Free({Overlap, GaveUp})
  BY DEF Free
<1>2. /\ UNCHANGED <<sent, got, buf, pending, wire, delivered, chunk, frame, seen>>
      /\ \A s \in Subscriber : queue'[s] = queue[s] \/ queue'[s] = <<>>
  BY DEF Subscribe, StartThread, Unsubscribe, Close, StopBegin, StopRaises, mux, threads, StreamInv, Safe, Types
<1>3. ASSUME NEW s \in Subscriber, Subscribe(s), ~running
      PROVE  UNCHANGED <<InHand, Chunks>> /\ SeenIsPending'
  <2>1. /\ spawned < MaxReaders /\ thread' = spawned + 1 /\ reader' = [reader EXCEPT ![spawned + 1] = "new"]
        /\ mishaps' = mishaps \cup WhenLate
    BY <1>3 DEF Subscribe, Spawn
  <2>2. spawned + 1 \in Reader /\ spawned + 1 # NoThread
    BY <2>1, MuxAssumption DEF StreamInv, Safe, Types, Reader, NoThread
  <2>3. \A c \in Caller : ~Is(c, "join")
    BY <2>1 DEF Free, WhenLate
  <2>4. \A r \in Reader : reader[r] = "off"
    BY <1>1, <1>3, <2>3 DEF StreamInv, Safe, PortHasOneReader
  <2>5. InHand = <<>> /\ Chunks = <<>>
    BY <1>1, <2>4, InHands
  <2>6. frame[spawned + 1] = <<>> /\ chunk[spawned + 1] = <<>>
    BY <2>2, <2>4 DEF StreamInv, Safe, Hands
  <2>7. InHand' = <<>> /\ Chunks' = <<>>
    BY <1>2, <2>1, <2>2, <2>6 DEF InHand, Chunks, Held
  <2>8. SeenIsPending'
    BY <2>1, <2>4 DEF SeenIsPending, StreamInv, Safe, Types
  <2> QED
    BY <2>5, <2>7, <2>8
<1>4. ASSUME NEW s \in Subscriber, StartThread(s)
      PROVE  UNCHANGED <<InHand, Chunks>> /\ SeenIsPending'
  <2>1. thread' = thread /\ (reader' = reader \/ reader' = [reader EXCEPT ![thread] = "check"])
    BY <1>4 DEF StartThread, mux
  <2>2. \A r \in Reader : reader'[r] = "store" => reader[r] = "store"
    BY <2>1 DEF StreamInv, Safe, Types
  <2>3. SeenIsPending'
    BY <1>1, <1>2, <2>2, InHands DEF Flows, SeenIsPending
  <2> QED
    BY <1>2, <2>1, <2>3 DEF InHand, Chunks, Held
<1>5. ASSUME UNCHANGED <<thread, reader>>
      PROVE  UNCHANGED <<InHand, Chunks>> /\ SeenIsPending'
  <2>1. SeenIsPending'
    BY <1>1, <1>2, <1>5, InHands DEF Flows, SeenIsPending
  <2> QED
    BY <1>2, <1>5, <2>1 DEF InHand, Chunks, Held
<1>6. \/ UNCHANGED <<thread, reader>>
      \/ \E s \in Subscriber : StartThread(s)
      \/ \E s \in Subscriber : Subscribe(s) /\ ~running
  BY DEF Subscribe, Unsubscribe, Close, StopBegin, StopRaises, mux, threads
<1> QED
  BY <1>1, <1>2, <1>3, <1>4, <1>5, <1>6, FlowsStay

\* The end of stop(): nothing is in hand, and the half-read frame goes to the front.
LEMMA StopStream ==
  ASSUME StreamInv, Free({Overlap, GaveUp})', NEW c \in Caller, StopEnd(c)
  PROVE  Flows'
<1>1. /\ thread' = NoThread /\ buf' = pending \o buf /\ pending' = <<>>
      /\ mishaps' = mishaps \cup WhenAlive \cup (IF pending # <<>> /\ buf # <<>> THEN {Backlog} ELSE {})
      /\ UNCHANGED <<sent, wire, got, queue, delivered, reader, chunk, frame, seen>>
  BY DEF StopEnd, threads
<1>2. Free({Overlap, GaveUp}) /\ \A r \in Reader : reader[r] = "off"
  BY <1>1 DEF Free, WhenAlive
<1>3. InHand = <<>> /\ Chunks = <<>> /\ InHand' = <<>> /\ Chunks' = <<>>
  BY <1>1, <1>2, InHands DEF InHand, Chunks, Held
<1>4. pending \in Seq(Int) /\ buf \in Seq(Int)
  BY <1>2, InHands
<1>5. ToSet(buf') = ToSet(pending) \cup ToSet(buf)
  BY <1>1, <1>4, InRow
<1>6. /\ Given' = Given \cup ToSet(pending) /\ Ahead' \subseteq Ahead
      /\ Unframed = ToSet(pending) \cup Unframed'
  BY <1>1, <1>3, <1>5, EmptyGoesUp DEF Given, Unframed, Ahead
<1>7. InLine(InHand, pending, Chunks, wire)'
  BY <1>1, <1>2, <1>3, EmptyGoesUp, InHands DEF Flows, InLine, Below
<1>8. Accounted(sent, Given, ToSet(InHand), Unframed, delivered)'
  BY <1>1, <1>2, <1>3, <1>6, InHands, AccountMove DEF Flows
<1>9. Queued' /\ SeenIsPending'
  <2>1. Queued'
    BY <1>1, <1>2, <1>6, Numbers, QueuedStay
  <2> QED
    BY <1>1, <1>2, <2>1 DEF SeenIsPending
<1>10. Ordered'
  <2> SUFFICES ASSUME Free({Bypass, Backlog})' PROVE Ordered'
    BY DEF Ordered
  <2>1. Free({Bypass, Backlog}) /\ (pending = <<>> \/ buf = <<>>)
    BY <1>1 DEF Free
  <2>2. Up(got) /\ Up(buf) /\ Below(got, buf) /\ \A x \in Given, y \in Ahead : x < y
    BY <1>2, <2>1, InHands DEF Flows, Ordered
  <2>3. /\ Up(pending) /\ Below(pending, wire)
        /\ ToSet(pending) \subseteq Ahead /\ ToSet(got) \subseteq Given
    BY <1>2, InHands DEF Flows, InLine, Ahead, Unframed, Given
  <2>4. buf' = pending \/ buf' = buf
    BY <1>1, <1>4, <2>1, Empty
  <2>5. buf' = buf => ToSet(buf') = ToSet(buf)
    OBVIOUS
  <2>6. Up(buf') /\ Below(got, buf')
    BY <2>2, <2>3, <2>4 DEF Below
  <2>7. Ahead' = ToSet(wire) /\ ToSet(wire) \subseteq Ahead
    BY <1>1, <1>3, EmptyGoesUp DEF Ahead, Unframed
  <2>8. \A x \in Given', y \in Ahead' : x < y
    BY <1>6, <2>2, <2>3, <2>7 DEF Below
  <2> QED
    BY <1>1, <2>2, <2>6, <2>8 DEF Ordered
<1> QED
  BY <1>7, <1>8, <1>9, <1>10 DEF Flows

\* A reader's step, if it is the one that is there, touches what that reader has in hand.
LEMMA ReaderHolds ==
  ASSUME StreamInv, Free({Overlap, GaveUp}), NEW r \in Reader, reader[r] # "off",
         NEW at, reader' = [reader EXCEPT ![r] = at], thread' = thread,
         NEW f \in Seq(Int), frame' = [frame EXCEPT ![r] = f],
         NEW c \in Seq(Int), chunk' = [chunk EXCEPT ![r] = c]
  PROVE  /\ InHand' = f /\ Chunks' = c
         /\ \A k \in Reader : reader'[k] = "store" => k = r /\ at = "store"
<1>1. r = thread /\ r # NoThread /\ \A k \in Reader : k # r => reader[k] = "off"
  BY InHands
<1>2. /\ reader \in [Reader -> Places] /\ frame \in [Reader -> Seq(Int)] /\ chunk \in [Reader -> Seq(Int)]
  BY DEF StreamInv, Safe, Types
<1>3. InHand' = frame'[r] /\ Chunks' = chunk'[r]
  BY <1>1 DEF InHand, Chunks, Held
<1>4. frame'[r] = f /\ chunk'[r] = c
  BY <1>2
<1>5. \A k \in Reader : reader'[k] = "store" => k = r /\ at = "store"
  BY <1>1, <1>2
<1> QED
  BY <1>3, <1>4, <1>5

LEMMA SameFunction == ASSUME NEW R, NEW S, NEW f \in [R -> S], NEW r \in R PROVE f = [f EXCEPT ![r] = f[r]]
  OBVIOUS

LEMMA ChunkStream ==
  ASSUME StreamInv, Free({Overlap, GaveUp}), NEW r \in Reader, NEW n \in 0 .. Len(wire), ReadChunk(r, n)
  PROVE  Flows'
<1> DEFINE p == SubSeq(wire, 1, n)
           q == SubSeq(wire, n + 1, Len(wire))
           at == IF n = 0 THEN "check" ELSE "append"
<1>1. /\ reader[r] = "read" /\ wire' = q /\ chunk' = [chunk EXCEPT ![r] = p] /\ reader' = [reader EXCEPT ![r] = at]
      /\ UNCHANGED <<sent, buf, pending, thread, queue, seen, frame, got, delivered, mishaps>>
  BY DEF ReadChunk, TakeWire, mux
<1>2. /\ p \in Seq(Int) /\ q \in Seq(Int) /\ ToSet(wire) = ToSet(p) \cup ToSet(q)
      /\ Up(wire) => Up(p) /\ Up(q) /\ Below(p, q)
  BY InHands, FrontOff
<1>3. at # "store"
  OBVIOUS
<1> HIDE DEF p, q, at
<1>4. InHand = <<>> /\ Chunks = <<>> /\ frame[r] = <<>>
  BY <1>1, InHands
<1>5. frame' = [frame EXCEPT ![r] = <<>>] /\ <<>> \in Seq(Int)
  BY <1>1, <1>4, SameFunction DEF StreamInv, Safe, Types
<1>6. InHand' = <<>> /\ Chunks' = p /\ SeenIsPending'
  BY <1>1, <1>2, <1>3, <1>5, ReaderHolds DEF SeenIsPending
<1>7. UNCHANGED <<Given, Unframed, Ahead>>
  BY <1>1, <1>2, <1>4, <1>6, EmptyGoesUp DEF Given, Unframed, Ahead
<1>8. InLine(InHand, pending, Chunks, wire)'
  BY <1>1, <1>2, <1>4, <1>6, EmptyGoesUp, InHands DEF Flows, InLine, Below
<1>9. Accounted(sent, Given, ToSet(InHand), Unframed, delivered)'
  BY <1>1, <1>4, <1>6, <1>7, InHands DEF Flows
<1>10. Queued' /\ Ordered'
  BY <1>1, <1>7, Numbers, QueuedStay, InFrontStays
<1> QED
  BY <1>6, <1>8, <1>9, <1>10 DEF Flows

LEMMA AppendStream ==
  ASSUME StreamInv, Free({Overlap, GaveUp}), NEW r \in Reader, AppendChunk(r)
  PROVE  Flows'
<1>1. /\ reader[r] = "append" /\ pending' = pending \o chunk[r]
      /\ chunk' = [chunk EXCEPT ![r] = <<>>] /\ reader' = [reader EXCEPT ![r] = "load"]
      /\ UNCHANGED <<sent, buf, wire, thread, queue, seen, frame, got, delivered, mishaps>>
  BY DEF AppendChunk
<1>2. InHand = <<>> /\ Chunks = chunk[r] /\ frame[r] = <<>> /\ Chunks \in Seq(Int) /\ pending \in Seq(Int)
  BY <1>1, InHands
<1>3. frame' = [frame EXCEPT ![r] = <<>>] /\ <<>> \in Seq(Int)
  BY <1>1, <1>2, SameFunction DEF StreamInv, Safe, Types
<1>4. InHand' = <<>> /\ Chunks' = <<>> /\ SeenIsPending'
  <2>1. InHand' = <<>> /\ Chunks' = <<>> /\ \A k \in Reader : reader'[k] = "store" => k = r /\ "load" = "store"
    BY <1>1, <1>3, ReaderHolds, Zenon
  <2>2. SeenIsPending'
    BY <2>1 DEF SeenIsPending
  <2> QED
    BY <2>1, <2>2
<1>5. /\ ToSet(pending') = ToSet(pending) \cup ToSet(Chunks)
      /\ Up(pending') <=> Up(pending) /\ Up(Chunks) /\ Below(pending, Chunks)
  BY <1>1, <1>2, InRow
<1>6. UNCHANGED <<Given, Unframed, Ahead>>
  BY <1>1, <1>2, <1>4, <1>5, EmptyGoesUp DEF Given, Unframed, Ahead
<1>7. InLine(InHand, pending, Chunks, wire)'
  BY <1>1, <1>4, <1>5, EmptyGoesUp, InHands DEF Flows, InLine, Below
<1>8. Accounted(sent, Given, ToSet(InHand), Unframed, delivered)'
  BY <1>1, <1>2, <1>4, <1>6, InHands DEF Flows
<1>9. Queued' /\ Ordered'
  BY <1>1, <1>6, Numbers, QueuedStay, InFrontStays
<1> QED
  BY <1>4, <1>7, <1>8, <1>9 DEF Flows

\* A frame is taken out of _pending, or what cannot begin one.
LEMMA CutStream ==
  ASSUME StreamInv, Free({Overlap, GaveUp}), NEW r \in Reader, reader[r] = "store",
         NEW at, reader' = [reader EXCEPT ![r] = at], at # "store",
         UNCHANGED <<sent, wire, buf, thread, queue, chunk, got, delivered, mishaps>>,
         NEW n \in Seq(Int), NEW f \in Seq(Int), NEW q \in Seq(Int),
         frame' = [frame EXCEPT ![r] = f], pending' = q,
         ToSet(pending) = ToSet(n) \cup ToSet(f) \cup ToSet(q), \A x \in ToSet(n) : ~IsHead(x),
         Up(f), Up(q), Below(n, f), Below(n, q), Below(f, q),
         \A x \in ToSet(f) : IsHead(x) => \E y \in ToSet(f) : y > x
  PROVE  Flows'
<1>1. InHand = <<>> /\ Chunks = <<>> /\ chunk[r] = <<>>
  BY InHands
<1>2. chunk' = [chunk EXCEPT ![r] = <<>>] /\ <<>> \in Seq(Int)
  BY <1>1, SameFunction DEF StreamInv, Safe, Types
<1>3. InHand' = f /\ Chunks' = <<>> /\ SeenIsPending'
  <2>1. InHand' = f /\ Chunks' = <<>> /\ \A k \in Reader : reader'[k] = "store" => k = r /\ at = "store"
    BY <1>2, ReaderHolds, Zenon
  <2>2. SeenIsPending'
    BY <2>1 DEF SeenIsPending
  <2> QED
    BY <2>1, <2>2
<1>4. /\ Unframed = ToSet(n) \cup ToSet(f) \cup Unframed' /\ Unframed' = ToSet(q) \cup ToSet(wire)
      /\ Given' = Given /\ Ahead' \subseteq Ahead
  BY <1>1, <1>3, EmptyGoesUp DEF Unframed, Ahead, Given
<1>5. Up(wire) /\ Below(pending, wire)
  BY InHands DEF Flows, InLine
<1>6. InLine(InHand, pending, Chunks, wire)'
  BY <1>3, <1>5, EmptyGoesUp DEF InLine, Below
<1>7. Accounted(sent, Given, ToSet(InHand), Unframed, delivered)'
  <2>1. Accounted(sent, Given, {}, ToSet(n) \cup ToSet(f) \cup Unframed', delivered)
    BY <1>1, <1>4, EmptyGoesUp, InHands DEF Flows
  <2>2. \A x \in ToSet(n), y \in ToSet(f) \cup Unframed' : x < y
    BY <1>4, <1>5 DEF Below
  <2>3. \A x \in ToSet(f), y \in Unframed' : x < y
    BY <1>4, <1>5 DEF Below
  <2>4. Accounted(sent, Given, ToSet(f), Unframed', delivered)
    BY <2>1, <2>2, <2>3, AccountCut
  <2> QED
    BY <1>3, <1>4, <2>4
<1>8. Queued' /\ Ordered'
  BY <1>4, Numbers, QueuedStay, InFrontStays
<1> QED
  BY <1>3, <1>6, <1>7, <1>8 DEF Flows

LEMMA ExtractStream ==
  ASSUME StreamInv, Free({Overlap, GaveUp}), NEW r \in Reader, Extract(r)
  PROVE  Flows'
<1>1. reader[r] = "store" /\ seen[r] = pending /\ Ends(pending) # {} /\ pending \in Seq(Int) /\ Up(pending)
  BY InHands DEF Extract, Flows, SeenIsPending, InLine
<1> DEFINE f == SubSeq(pending, Min(Begins(pending)), Min(Ends(pending)))
           q == SubSeq(pending, Min(Ends(pending)) + 1, Len(pending))
           at == IF ForSubscribers(f) THEN "deliver" ELSE "hand"
<1>2. /\ frame' = [frame EXCEPT ![r] = f] /\ pending' = q /\ reader' = [reader EXCEPT ![r] = at]
      /\ UNCHANGED <<sent, wire, buf, thread, queue, chunk, got, delivered, mishaps>>
  BY <1>1 DEF Extract
<1>3. /\ f \in Seq(Int) /\ q \in Seq(Int)
      /\ \E n \in Seq(Int) :
            /\ ToSet(pending) = ToSet(n) \cup ToSet(f) \cup ToSet(q)
            /\ \A x \in ToSet(n) : ~IsHead(x)
            /\ Up(f) /\ Up(q) /\ Below(n, f) /\ Below(n, q) /\ Below(f, q)
            /\ \A x \in ToSet(f) : IsHead(x) => \E y \in ToSet(f) : y > x
  BY <1>1, Cut
<1>4. at # "store"
  OBVIOUS
<1> HIDE DEF f, q, at
<1> QED
  BY <1>1, <1>2, <1>3, <1>4, CutStream

LEMMA NoFrameStream ==
  ASSUME StreamInv, Free({Overlap, GaveUp}), NEW r \in Reader, NoFrame(r)
  PROVE  Flows'
<1>1. reader[r] = "store" /\ seen[r] = pending /\ pending \in Seq(Int) /\ Up(pending)
  BY InHands DEF NoFrame, Flows, SeenIsPending, InLine
<1> DEFINE q == IF Begins(pending) = {} THEN <<>> ELSE SubSeq(pending, Min(Begins(pending)), Len(pending))
<1>2. /\ pending' = q /\ reader' = [reader EXCEPT ![r] = "check"]
      /\ UNCHANGED <<sent, wire, buf, thread, queue, chunk, frame, got, delivered, mishaps>>
  BY <1>1 DEF NoFrame
<1>3. frame[r] = <<>> /\ <<>> \in Seq(Int)
  BY <1>1, InHands DEF StreamInv, Safe, Hands
<1>4. frame' = [frame EXCEPT ![r] = <<>>]
  BY <1>2, <1>3, SameFunction DEF StreamInv, Safe, Types
<1>5. /\ q \in Seq(Int)
      /\ \E n \in Seq(Int) : /\ ToSet(pending) = ToSet(n) \cup ToSet(<<>>) \cup ToSet(q)
                             /\ \A x \in ToSet(n) : ~IsHead(x)
                             /\ Up(<<>>) /\ Up(q) /\ Below(n, <<>>) /\ Below(n, q) /\ Below(<<>>, q)
                             /\ \A x \in ToSet(<<>>) : IsHead(x) => \E y \in ToSet(<<>>) : y > x
  <2>1. /\ q \in Seq(Int)
        /\ \E n \in Seq(Int) : /\ ToSet(pending) = ToSet(n) \cup ToSet(q) /\ \A x \in ToSet(n) : ~IsHead(x)
                               /\ Up(pending) => Up(q) /\ Below(n, q)
    BY <1>1, Rest
  <2> HIDE DEF q
  <2> QED
    BY <1>1, <2>1, EmptyGoesUp DEF Below
<1> HIDE DEF q
<1> QED
  BY <1>1, <1>2, <1>3, <1>4, <1>5, CutStream

LEMMA DeliverStream ==
  ASSUME StreamInv, Free({Overlap, GaveUp}), NEW r \in Reader, Deliver(r)
  PROVE  Flows'
<1>1. PICK m \in Monitor : frame[r] = <<2 * m - 1, 2 * m>>
  BY DEF Deliver, StreamInv, Safe, Hands
<1>2. m \in Nat /\ Last(frame[r]) \div 2 = m
  BY <1>1, LastOfFrame
<1>3. /\ reader[r] = "deliver" /\ frame' = [frame EXCEPT ![r] = <<>>] /\ reader' = [reader EXCEPT ![r] = "load"]
      /\ queue' = [s \in Subscriber |-> IF s \in subs THEN Append(queue[s], m) ELSE queue[s]]
      /\ delivered' = delivered \cup {m}
      /\ UNCHANGED <<sent, wire, buf, pending, thread, chunk, seen, got, mishaps>>
  BY <1>2 DEF Deliver, mux
<1>4. InHand = frame[r] /\ chunk[r] = <<>> /\ Chunks = <<>> /\ <<>> \in Seq(Int)
  BY <1>3, InHands
<1>5. chunk' = [chunk EXCEPT ![r] = <<>>]
  BY <1>3, <1>4, SameFunction DEF StreamInv, Safe, Types
<1>6. InHand' = <<>> /\ Chunks' = <<>> /\ SeenIsPending'
  <2>1. InHand' = <<>> /\ Chunks' = <<>> /\ \A k \in Reader : reader'[k] = "store" => k = r /\ "load" = "store"
    BY <1>3, <1>4, <1>5, ReaderHolds, Zenon
  <2>2. SeenIsPending'
    BY <2>1 DEF SeenIsPending
  <2> QED
    BY <2>1, <2>2
<1>7. ToSet(InHand) = {2 * m - 1, 2 * m}
  BY <1>1, <1>4 DEF ToSet
<1>8. UNCHANGED <<Given, Unframed>> /\ Ahead = {2 * m - 1, 2 * m} \cup Unframed /\ Ahead' = Unframed
  BY <1>3, <1>4, <1>6, <1>7, EmptyGoesUp DEF Given, Unframed, Ahead
<1>9. InLine(InHand, pending, Chunks, wire)'
  BY <1>3, <1>4, <1>6, EmptyGoesUp, InHands DEF Flows, InLine, Below
<1>10. Accounted(sent, Given, ToSet(InHand), Unframed, delivered)' /\ 2 * m <= sent
  <2>1. Accounted(sent, Given, {2 * m - 1, 2 * m}, Unframed, delivered)
    BY <1>7, InHands DEF Flows
  <2>2. Accounted(sent, Given, {}, Unframed, delivered \cup {m}) /\ 2 * m <= sent
    BY <2>1, AccountDeliver
  <2> QED
    BY <1>3, <1>6, <1>8, <2>2, EmptyGoesUp
<1>11. Ordered'
  BY <1>3, <1>8, Numbers, InFrontStays
<1>12. \A x \in Unframed : 2 * m < x
  <2>1. Below(InHand, pending) /\ Below(InHand, Chunks) /\ Below(InHand, wire)
    BY InHands DEF Flows, InLine
  <2> QED
    BY <1>7, <2>1 DEF Below, Unframed
<1>13. Queued'
  <2> SUFFICES ASSUME NEW s \in Subscriber
               PROVE  Up(queue'[s]) /\ \A g \in ToSet(queue'[s]) : 2 * g <= sent /\ \A x \in Unframed : 2 * g < x
    BY <1>3, <1>8 DEF Queued
  <2>1. /\ queue[s] \in Seq(Int) /\ Up(queue[s])
        /\ \A g \in ToSet(queue[s]) : g \in Int /\ 2 * g <= sent /\ \A x \in Ahead : 2 * g < x
    <3>1. queue[s] \in Seq(Int)
      BY DEF StreamInv, Safe, Types
    <3> QED
      BY <3>1, InHands, Elements DEF Flows, Queued
  <2>2. \A g \in ToSet(queue[s]) : g < m
    <3> SUFFICES ASSUME NEW g \in ToSet(queue[s]) PROVE g < m
      OBVIOUS
    <3>1. g \in Int /\ 2 * g < 2 * m - 1
      BY <1>8, <2>1
    <3> QED
      BY <1>2, <3>1
  <2>3. /\ ToSet(Append(queue[s], m)) = ToSet(queue[s]) \cup {m}
        /\ Up(Append(queue[s], m))
    BY <1>2, <2>1, <2>2, OneBehind
  <2>4. \A g \in ToSet(queue[s]) \cup {m} : 2 * g <= sent /\ \A x \in Unframed : 2 * g < x
    BY <1>8, <1>10, <1>12, <2>1
  <2>5. queue'[s] = queue[s] \/ queue'[s] = Append(queue[s], m)
    BY <1>3
  <2> QED
    BY <2>1, <2>3, <2>4, <2>5
<1> QED
  BY <1>6, <1>9, <1>10, <1>11, <1>13 DEF Flows

LEMMA HandBackStream ==
  ASSUME StreamInv, Free({Overlap, GaveUp}), NEW r \in Reader, HandBack(r)
  PROVE  Flows'
<1>1. /\ reader[r] = "hand" /\ buf' = buf \o frame[r] /\ frame' = [frame EXCEPT ![r] = <<>>]
      /\ reader' = [reader EXCEPT ![r] = "load"]
      /\ UNCHANGED <<sent, wire, pending, thread, queue, chunk, seen, got, delivered, mishaps>>
  BY DEF HandBack
<1>2. InHand = frame[r] /\ chunk[r] = <<>> /\ Chunks = <<>> /\ <<>> \in Seq(Int) /\ InHand \in Seq(Int) /\ buf \in Seq(Int)
  BY <1>1, InHands
<1>3. chunk' = [chunk EXCEPT ![r] = <<>>]
  BY <1>1, <1>2, SameFunction DEF StreamInv, Safe, Types
<1>4. InHand' = <<>> /\ Chunks' = <<>> /\ SeenIsPending'
  <2>1. InHand' = <<>> /\ Chunks' = <<>> /\ \A k \in Reader : reader'[k] = "store" => k = r /\ "load" = "store"
    BY <1>1, <1>2, <1>3, ReaderHolds, Zenon
  <2>2. SeenIsPending'
    BY <2>1 DEF SeenIsPending
  <2> QED
    BY <2>1, <2>2
<1>5. ToSet(buf') = ToSet(buf) \cup ToSet(InHand) /\ (Up(buf') <=> Up(buf) /\ Up(InHand) /\ Below(buf, InHand))
  BY <1>1, <1>2, InRow
<1>6. /\ Given' = Given \cup ToSet(InHand) /\ UNCHANGED Unframed
      /\ Ahead = ToSet(InHand) \cup Unframed /\ Ahead' = Unframed
  BY <1>1, <1>2, <1>4, <1>5, EmptyGoesUp DEF Given, Unframed, Ahead
<1>7. InLine(InHand, pending, Chunks, wire)'
  BY <1>1, <1>2, <1>4, EmptyGoesUp, InHands DEF Flows, InLine, Below
<1>8. Accounted(sent, Given, ToSet(InHand), Unframed, delivered)'
  <2>1. Accounted(sent, Given \cup ToSet(InHand), {}, Unframed, delivered)
    BY InHands, AccountHand DEF Flows
  <2> QED
    BY <1>1, <1>4, <1>6, <2>1, EmptyGoesUp
<1>9. Queued'
  BY <1>1, <1>6, Numbers, QueuedStay
<1>10. Ordered'
  <2> SUFFICES ASSUME Free({Bypass, Backlog})' PROVE Ordered'
    BY DEF Ordered
  <2>1. Up(got) /\ Up(buf) /\ Below(got, buf) /\ \A x \in Given, y \in Ahead : x < y
    BY <1>1, InHands DEF Flows, Ordered, Free
  <2>2. Up(InHand) /\ \A x \in ToSet(InHand), y \in Unframed : x < y
    BY InHands DEF Flows, InLine, Below, Unframed
  <2>3. Up(buf') /\ Below(got', buf')
    BY <1>1, <1>5, <1>6, <2>1, <2>2 DEF Below, Given
  <2>4. \A x \in Given', y \in Ahead' : x < y
    BY <1>6, <2>1, <2>2
  <2> QED
    BY <1>1, <2>1, <2>3, <2>4 DEF Ordered
<1> QED
  BY <1>4, <1>7, <1>8, <1>9, <1>10 DEF Flows

LEMMA ReaderStream ==
  ASSUME StreamInv, Free({Overlap, GaveUp}), NEW r \in Reader, ReaderStep(r)
  PROVE  Flows'
<1>1. CASE Check(r) \/ LoadPending(r) \/ Fail(r)
  <2>1. /\ UNCHANGED <<sent, got, buf, pending, wire, delivered, queue, chunk, frame>> /\ reader[r] \in {"check", "load", "read"}
        /\ mishaps \subseteq mishaps'
    BY <1>1 DEF Check, LoadPending, Fail, mux
  <2>2. /\ \A k \in Reader : k # r => reader[k] = "off"
        /\ InHand = <<>> /\ Chunks = <<>> /\ frame[r] = <<>> /\ chunk[r] = <<>> /\ r = thread
    BY <2>1, InHands
  <2>3. thread' = NoThread \/ thread' = thread
    BY <1>1 DEF Check, LoadPending, Fail, mux
  <2>4. InHand' = <<>> /\ Chunks' = <<>>
    BY <2>1, <2>2, <2>3 DEF InHand, Chunks, Held
  <2>5. SeenIsPending'
    <3>1. reader \in [Reader -> Places] /\ seen \in [Reader -> Seq(Int)]
      BY DEF StreamInv, Safe, Types
    <3>2. CASE Check(r) \/ Fail(r)
      <4>1. \E at \in {"read", "off"} : reader' = [reader EXCEPT ![r] = at]
        BY <3>2 DEF Check, Fail
      <4> QED
        BY <2>2, <3>1, <4>1 DEF SeenIsPending
    <3>3. CASE LoadPending(r)
      BY <2>1, <2>2, <3>1, <3>3 DEF LoadPending, SeenIsPending
    <3> QED
      BY <1>1, <3>2, <3>3
  <2> QED
    BY <2>1, <2>2, <2>4, <2>5, FlowsStay
<1> QED
  BY <1>1, ChunkStream, AppendStream, ExtractStream, DeliverStream, HandBackStream, NoFrameStream DEF ReaderStep

LEMMA StepStream == StreamInv /\ [Next]_vars => StreamInv'
<1> SUFFICES ASSUME StreamInv, [Next]_vars PROVE StreamInv'
  OBVIOUS
<1>1. Safe' /\ mishaps \subseteq mishaps'
  BY StepSafe, MishapsStay DEF StreamInv
<1>2. SUFFICES ASSUME Free({Overlap, GaveUp})' PROVE Flows'
  BY <1>1 DEF StreamInv
<1>3. Free({Overlap, GaveUp})
  BY <1>1, <1>2 DEF Free
<1>4. CASE SetMonitorIndex \/ UNCHANGED vars
  <2>1. UNCHANGED <<sent, got, buf, pending, wire, delivered, queue, reader, seen, InHand, Chunks>>
    BY <1>4 DEF SetMonitorIndex, vars, mux, threads, InHand, Chunks, Held
  <2>2. SeenIsPending'
    BY <1>3, <2>1, InHands DEF Flows, SeenIsPending
  <2> QED
    BY <1>1, <1>3, <2>1, <2>2, FlowsStay
<1>5. ASSUME NEW s \in Subscriber, Subscribe(s) \/ StartThread(s) \/ Unsubscribe(s) PROVE Flows'
  BY <1>1, <1>2, <1>5, CallStream
<1>6. ASSUME NEW c \in Caller, Close(c) \/ Stop(c) PROVE Flows'
  BY <1>1, <1>2, <1>6, CallStream, StopStream DEF Stop
<1> QED
  BY <1>3, <1>4, <1>5, <1>6, SendStream, ReadStream, ReaderStream DEF Next, Caller

-----------------------------------------------------------------------------
(* What follows from it. *)

\* The whole stream is in line, or only what is still on the way.
LEMMA StreamIs ==
  ASSUME StreamInv, Free({Overlap, GaveUp})
  PROVE  /\ Stream \in Seq(Int) /\ ToSet(Stream) = Given \cup Ahead
         /\ Free({Bypass, Backlog}) => Up(Stream)
<1>1. /\ got \in Seq(Int) /\ buf \in Seq(Int) /\ InHand \in Seq(Int) /\ pending \in Seq(Int)
      /\ Chunks \in Seq(Int) /\ wire \in Seq(Int)
  BY InHands
<1> DEFINE s2 == got \o buf
           s3 == s2 \o InHand
           s4 == s3 \o pending
           s5 == s4 \o Chunks
           s6 == s5 \o wire
<1>2. s2 \in Seq(Int) /\ s3 \in Seq(Int) /\ s4 \in Seq(Int) /\ s5 \in Seq(Int) /\ s6 \in Seq(Int)
  BY <1>1
<1>3. /\ ToSet(s2) = ToSet(got) \cup ToSet(buf) /\ (Up(s2) <=> Up(got) /\ Up(buf) /\ Below(got, buf))
      /\ ToSet(s3) = ToSet(s2) \cup ToSet(InHand) /\ (Up(s3) <=> Up(s2) /\ Up(InHand) /\ Below(s2, InHand))
      /\ ToSet(s4) = ToSet(s3) \cup ToSet(pending) /\ (Up(s4) <=> Up(s3) /\ Up(pending) /\ Below(s3, pending))
      /\ ToSet(s5) = ToSet(s4) \cup ToSet(Chunks) /\ (Up(s5) <=> Up(s4) /\ Up(Chunks) /\ Below(s4, Chunks))
      /\ ToSet(s6) = ToSet(s5) \cup ToSet(wire) /\ (Up(s6) <=> Up(s5) /\ Up(wire) /\ Below(s5, wire))
  <2>1. ToSet(s2) = ToSet(got) \cup ToSet(buf) /\ (Up(s2) <=> Up(got) /\ Up(buf) /\ Below(got, buf))
    BY <1>1, InRow
  <2> HIDE DEF s2
  <2>2. ToSet(s3) = ToSet(s2) \cup ToSet(InHand) /\ (Up(s3) <=> Up(s2) /\ Up(InHand) /\ Below(s2, InHand))
    BY <1>1, <1>2, InRow
  <2> HIDE DEF s3
  <2>3. ToSet(s4) = ToSet(s3) \cup ToSet(pending) /\ (Up(s4) <=> Up(s3) /\ Up(pending) /\ Below(s3, pending))
    BY <1>1, <1>2, InRow
  <2> HIDE DEF s4
  <2>4. ToSet(s5) = ToSet(s4) \cup ToSet(Chunks) /\ (Up(s5) <=> Up(s4) /\ Up(Chunks) /\ Below(s4, Chunks))
    BY <1>1, <1>2, InRow
  <2> HIDE DEF s5
  <2>5. ToSet(s6) = ToSet(s5) \cup ToSet(wire) /\ (Up(s6) <=> Up(s5) /\ Up(wire) /\ Below(s5, wire))
    BY <1>1, <1>2, InRow
  <2> QED
    BY <2>1, <2>2, <2>3, <2>4, <2>5
<1>4. Stream = s6
  BY DEF Stream
<1> HIDE DEF s2, s3, s4, s5, s6
<1>5. ToSet(s6) = Given \cup Ahead
  BY <1>3 DEF Given, Ahead, Unframed
<1>6. ASSUME Free({Bypass, Backlog}) PROVE Up(s6)
  <2>1. Up(got) /\ Up(buf) /\ Below(got, buf) /\ \A x \in Given, y \in Ahead : x < y
    BY <1>6, InHands DEF Flows, Ordered
  <2>2. InLine(InHand, pending, Chunks, wire)
    BY InHands DEF Flows
  <2>3. Below(s2, InHand) /\ Below(s2, pending) /\ Below(s2, Chunks) /\ Below(s2, wire)
    BY <1>3, <2>1 DEF Below, Given, Ahead, Unframed
  <2>4. Below(s3, pending) /\ Below(s3, Chunks) /\ Below(s3, wire) /\ Up(s3)
    BY <1>3, <2>1, <2>2, <2>3 DEF InLine, Below
  <2>5. Below(s4, Chunks) /\ Below(s4, wire) /\ Up(s4)
    BY <1>3, <2>2, <2>4 DEF InLine, Below
  <2>6. Below(s5, wire) /\ Up(s5)
    BY <1>3, <2>2, <2>5 DEF InLine, Below
  <2> QED
    BY <1>3, <2>2, <2>6 DEF InLine
<1> QED
  BY <1>2, <1>4, <1>5, <1>6

LEMMA UpRises == ASSUME NEW s \in Seq(Int), Up(s) PROVE Rising(s)
  BY DEF Up, Rising

\* For any frames, streams, closing threads and readers: read() answers the pieces in the
\* order they were sent, and each stream gets its notifications so, except where a client
\* overtakes the reader, and where stop() puts a half-read frame in front.
THEOREM StreamStaysInOrder == Spec => []StreamInOrder
<1>1. StreamInv => StreamInOrder
  <2> SUFFICES ASSUME StreamInv, Free({Overlap, GaveUp})
               PROVE  /\ Free({Bypass, Backlog}) => Rising(Stream)
                      /\ \A s \in Subscriber : Rising(queue[s])
    BY DEF StreamInOrder
  <2>1. Free({Bypass, Backlog}) => Rising(Stream)
    BY StreamIs, UpRises
  <2>2. ASSUME NEW s \in Subscriber PROVE Rising(queue[s])
    <3>1. queue[s] \in Seq(Int) /\ Up(queue[s])
      BY InHands DEF StreamInv, Safe, Types, Flows, Queued
    <3> QED
      BY <3>1, UpRises
  <2> QED
    BY <2>1, <2>2
<1>2. StreamInv /\ [Next]_vars => StreamInv'
  BY StepStream
<1> QED
  BY <1>1, <1>2, InitStream, PTL DEF Spec

\* And nothing is lost but the notifications that were delivered, and ends of frames whose
\* beginning went to read() by the other way.
THEOREM NothingIsLost == Spec => []NothingLost
<1>1. StreamInv => NothingLost
  <2> SUFFICES ASSUME StreamInv, Free({Overlap, GaveUp}), NEW k \in Lost
               PROVE  \/ \E m \in delivered \cap Monitor : k \in {2 * m - 1, 2 * m}
                      \/ ~IsHead(k) /\ k - 1 \in ToSet(got \o buf)
    BY DEF NothingLost
  <2>1. k \in 1 .. sent /\ k \notin Given \cup Ahead
    BY StreamIs DEF Lost
  <2>2. ToSet(got \o buf) = Given
    BY InHands, InRow DEF Given
  <2>3. /\ delivered \subseteq Monitor
        /\ k \in Given \cup ToSet(InHand) \cup Unframed \/ (\E m \in delivered : k \in {2 * m - 1, 2 * m})
              \/ (~IsHead(k) /\ k - 1 \in Given)
    BY <2>1, InHands DEF Flows, Accounted
  <2> QED
    BY <2>1, <2>2, <2>3 DEF Ahead
<1>2. StreamInv /\ [Next]_vars => StreamInv'
  BY StepStream
<1> QED
  BY <1>1, <1>2, InitStream, PTL DEF Spec

-----------------------------------------------------------------------------
(* The practice mode: the count of the streams and the flag of the keyboard, and the way from the     *)
(* keyboard's report to the screen, in whichever order streams are opened and closed.                *)

Closing == {"failed", "closing", "unsubscribed", "unavailable", "last", "lastFailed"}
Stages == {"off", "open", "streaming"} \cup Opening \cup Closing
HasQueue == Opening \cup {"streaming", "failed", "closing"}
Counting == {"first", "counted", "entered", "streaming", "failed", "closing", "unsubscribed", "unavailable"}
Alive == {"open", "streaming"} \cup Opening
Counted == {s \in Source : stage[s] \in Counting}

Layers == SUBSET ToSet(Order)
PracticeState ==
    [pressed : SUBSET Pos, ids : Layers, highest : Nat,
     output : Seq([text : Pos \cup Knob, encoder : BOOLEAN])]

PracticeTypes ==
    /\ stage \in [Source -> Stages]
    /\ DOMAIN queues = Source
    /\ \A s \in Source :
          IF stage[s] \in HasQueue THEN queues[s] \in Seq(StreamEvent) ELSE queues[s] = None
    /\ written \in Seq(StreamEvent)
    /\ monitoring \in BOOLEAN /\ clients \in Nat
    /\ stream \in Source \cup {None}
    /\ practice \in PracticeState \cup {None} /\ drawn \in PracticeState \cup {None}
    /\ active \in Layers

\* No client is forgotten, and while the flag is on there is one, or a disable is due or has failed.
StreamsInv ==
    /\ IsFiniteSet(Counted) /\ clients = Cardinality(Counted)
    /\ stream # None => stage[stream] \notin {"closing", "unsubscribed", "last"}
    /\ monitoring /\ ~undone => clients > 0 \/ \E s \in Source : stage[s] \in {"last", "lastFailed"}

\* The events on their way to the page.
OnTheWay == written \o (IF stage[stream] \in HasQueue THEN queues[stream] ELSE <<>>)
\* Since it was subscribed, the stream was told of every event, or needed not be.
Reported == stage[stream] \in HasQueue /\ ~missed

\* "w" is what is on its way.  The last event of a key says how the key is now ("held"), and
\* where there is none the page knows.
KeysInv(w, pressed, held) ==
    /\ \A p : (\A k \in DOMAIN w : ~(w[k].type = "key" /\ w[k].position = p)) => (p \in pressed <=> p \in held)
    /\ \A k \in DOMAIN w : w[k].type = "key" =>
          \/ w[k].pressed <=> w[k].position \in held
          \/ \E l \in DOMAIN w : k < l /\ w[l].type = "key" /\ w[l].position = w[k].position

\* The last report of the layers is what they are now.
LayersInv(w, ids) ==
    \A k \in DOMAIN w : w[k].type = "layers" =>
        w[k] = LayersEvent(ids) \/ \E l \in DOMAIN w : k < l /\ w[l].type = "layers"

\* Between two presses of a keycode it is let go, and a chip of it stands for a press
\* before all that is on its way.
PressOf(e, c) == e.type = "keycode" /\ e.code = c /\ e.pressed
ReleaseOf(e, c) == e.type = "keycode" /\ e.code = c /\ ~e.pressed
OneEach(output) == \A i, j \in DOMAIN output : output[i].text = output[j].text => i = j
CodesInv(w, output, on) ==
    /\ \A c : \A k, l \in DOMAIN w : k < l /\ PressOf(w[k], c) /\ PressOf(w[l], c) =>
          \E m \in DOMAIN w : k < m /\ m < l /\ ReleaseOf(w[m], c)
    /\ \A c : \A k \in DOMAIN w : PressOf(w[k], c) /\ c \notin on =>
          \E m \in DOMAIN w : k < m /\ ReleaseOf(w[m], c)
    /\ \A i \in DOMAIN output : \A k \in DOMAIN w : PressOf(w[k], output[i].text) =>
          \E m \in DOMAIN w : m < k /\ ReleaseOf(w[m], output[i].text)
    /\ \A i \in DOMAIN output : output[i].text \notin on =>
          \E m \in DOMAIN w : ReleaseOf(w[m], output[i].text)
    /\ OneEach(output)

CodesOn == (down \ DOMAIN LayerKey) \cup turning

ScreenInv ==
    /\ before \subseteq down /\ down \subseteq Pos /\ turning \subseteq Knob
    /\ stream # None /\ stage[stream] \in Alive =>
          /\ stage[stream] # "streaming" => written = <<>>
          /\ Unheard => before = down
          /\ practice # None /\ ~raced /\ stage[stream] # "streaming" => practice.pressed = {} /\ practice.output = <<>>
          /\ Reported => LayersInv(OnTheWay, active)
          /\ Reported /\ practice # None /\ ~raced =>
                /\ KeysInv(OnTheWay, practice.pressed, down \ before)
                /\ CodesInv(OnTheWay, practice.output, CodesOn)
          /\ Reported /\ stage[stream] = "streaming" /\ (\A k \in DOMAIN OnTheWay : OnTheWay[k].type # "layers") =>
                /\ picked \/ layerIdx = Highest(active)
                /\ practice # None /\ ~raced => practice.ids = active /\ practice.highest = Highest(active)

PracticeInv == PracticeTypes /\ StreamsInv /\ ScreenInv

-----------------------------------------------------------------------------
(* Sequences: "v" is "w" with "e" behind it, or before it. *)

Behind(w, e, v) ==
    \E n \in Nat \ {0} :
        /\ DOMAIN w = 1 .. n - 1 /\ DOMAIN v = 1 .. n
        /\ v[n] = e /\ \A k \in 1 .. n - 1 : v[k] = w[k]
InFront(e, w, v) ==
    \E n \in Nat \ {0} :
        /\ DOMAIN w = 1 .. n - 1 /\ DOMAIN v = 1 .. n
        /\ v[1] = e /\ \A k \in 1 .. n - 1 : v[k + 1] = w[k]

\* Two sequences in a row, place by place.
LEMMA InARow ==
  ASSUME NEW S, NEW p \in Seq(S), NEW q \in Seq(S)
  PROVE  /\ p \o q \in Seq(S) /\ Len(p \o q) = Len(p) + Len(q)
         /\ \A i \in 1 .. Len(p) : (p \o q)[i] = p[i]
         /\ \A i \in 1 .. Len(p) + Len(q) : i > Len(p) => (p \o q)[i] = q[i - Len(p)]
<1>1. /\ p \o q \in Seq(S) /\ Len(p \o q) = Len(p) + Len(q)
      /\ \A i \in 1 .. Len(p) + Len(q) : (p \o q)[i] = IF i <= Len(p) THEN p[i] ELSE q[i - Len(p)]
  BY ConcatProperties
<1>2. Len(p) \in Nat /\ Len(q) \in Nat
  OBVIOUS
<1>3. \A i \in 1 .. Len(p) : i \in 1 .. Len(p) + Len(q) /\ i <= Len(p)
  BY <1>2
<1>4. \A i \in 1 .. Len(p) + Len(q) : i > Len(p) => ~(i <= Len(p))
  BY <1>2
<1> QED
  BY <1>1, <1>3, <1>4

\* Sequences of the same length with the same elements are the same.
LEMMA SameElements ==
  ASSUME NEW S, NEW p \in Seq(S), NEW q \in Seq(S), Len(p) = Len(q),
         \A i \in 1 .. Len(p) : p[i] = q[i]
  PROVE  p = q
<1>1. DOMAIN p = 1 .. Len(p) /\ DOMAIN q = 1 .. Len(p)
  OBVIOUS
<1> QED
  BY <1>1

\* Reports come behind what is on its way.
LEMMA ComesBehind ==
  ASSUME NEW S, NEW w \in Seq(S), NEW q \in Seq(S), NEW a \in S
  PROVE  q \o <<a>> \in Seq(S) /\ Behind(w \o q, a, w \o (q \o <<a>>))
<1> DEFINE u == q \o <<a>>
<1>1. <<a>> \in Seq(S) /\ Len(<<a>>) = 1 /\ <<a>>[1] = a
  OBVIOUS
<1>2. /\ u \in Seq(S) /\ Len(u) = Len(q) + 1
      /\ \A i \in 1 .. Len(q) : u[i] = q[i]
      /\ \A i \in 1 .. Len(q) + 1 : i > Len(q) => u[i] = <<a>>[i - Len(q)]
  BY <1>1, InARow
<1>3. Len(q) \in Nat /\ Len(w) \in Nat
  OBVIOUS
<1>4. u[Len(q) + 1] = a
  <2>1. Len(q) + 1 \in 1 .. Len(q) + 1 /\ Len(q) + 1 > Len(q) /\ Len(q) + 1 - Len(q) = 1
    BY <1>3
  <2> HIDE DEF u
  <2> QED
    BY <1>1, <1>2, <2>1
<1> HIDE DEF u
<1> DEFINE n == Len(w) + Len(q) + 1
           y == w \o q
           v == w \o u
<1>5. /\ y \in Seq(S) /\ Len(y) = n - 1
      /\ \A i \in 1 .. Len(w) : y[i] = w[i]
      /\ \A i \in 1 .. n - 1 : i > Len(w) => y[i] = q[i - Len(w)]
  BY <1>3, InARow
<1>6. /\ v \in Seq(S) /\ Len(v) = n
      /\ \A i \in 1 .. Len(w) : v[i] = w[i]
      /\ \A i \in 1 .. n : i > Len(w) => v[i] = u[i - Len(w)]
  <2>1. Len(w) + Len(u) = n
    BY <1>2, <1>3
  <2> HIDE DEF n, v
  <2>2. /\ w \o u \in Seq(S) /\ Len(w \o u) = Len(w) + Len(u)
        /\ \A i \in 1 .. Len(w) : (w \o u)[i] = w[i]
        /\ \A i \in 1 .. Len(w) + Len(u) : i > Len(w) => (w \o u)[i] = u[i - Len(w)]
    BY <1>2, InARow
  <2> QED
    BY <2>1, <2>2 DEF v
<1>7. n \in Nat \ {0}
  BY <1>3
<1>8. DOMAIN y = 1 .. n - 1 /\ DOMAIN v = 1 .. n
  BY <1>5, <1>6
<1> HIDE DEF y, v
<1>9. v[n] = a
  <2>1. n \in 1 .. n /\ n > Len(w) /\ n - Len(w) = Len(q) + 1
    BY <1>3
  <2> HIDE DEF n
  <2> QED
    BY <1>4, <1>6, <2>1
<1>10. ASSUME NEW k \in 1 .. n - 1 PROVE v[k] = y[k]
  <2>1. k \in 1 .. n /\ (k > Len(w) \/ k \in 1 .. Len(w)) /\ (k > Len(w) => k - Len(w) \in 1 .. Len(q))
    BY <1>3
  <2> HIDE DEF n
  <2> QED
    BY <1>2, <1>5, <1>6, <2>1
<1>11. Behind(y, a, v)
  <2> HIDE DEF n
  <2> QED
    BY <1>7, <1>8, <1>9, <1>10 DEF Behind
<1> QED
  BY <1>2, <1>11 DEF u, y, v

\* Two reports, one after the other.
LEMMA TwoReports ==
  ASSUME NEW S, NEW w \in Seq(S), NEW q \in Seq(S), NEW a \in S, NEW b \in S
  PROVE  /\ q \o <<a, b>> \in Seq(S)
         /\ \E u \in Seq(S) : Behind(w \o q, a, w \o u) /\ Behind(w \o u, b, w \o (q \o <<a, b>>))
<1> DEFINE u == q \o <<a>>
<1>1. u \in Seq(S) /\ Behind(w \o q, a, w \o u)
  BY ComesBehind
<1>2. u \o <<b>> \in Seq(S) /\ Behind(w \o u, b, w \o (u \o <<b>>))
  <2> HIDE DEF u
  <2> QED
    BY <1>1, ComesBehind
<1>3. u \o <<b>> = q \o <<a, b>>
  <2>1. /\ <<a>> \in Seq(S) /\ <<b>> \in Seq(S) /\ <<a, b>> \in Seq(S)
        /\ Len(<<a>>) = 1 /\ Len(<<b>>) = 1 /\ Len(<<a, b>>) = 2
        /\ <<a>>[1] = a /\ <<b>>[1] = b /\ <<a, b>>[1] = a /\ <<a, b>>[2] = b
    OBVIOUS
  <2> DEFINE ab == <<a>> \o <<b>>
  <2>2. /\ ab \in Seq(S) /\ Len(ab) = 1 + 1 /\ \A i \in 1 .. 1 : ab[i] = <<a>>[i]
        /\ \A i \in 1 .. 1 + 1 : i > 1 => ab[i] = <<b>>[i - 1]
    BY <2>1, InARow
  <2> HIDE DEF ab
  <2>3. ab[1] = a /\ ab[2] = b /\ Len(ab) = 2
    BY <2>1, <2>2
  <2>4. ab = <<a, b>>
    BY <2>1, <2>2, <2>3, SameElements
  <2>5. u \o <<b>> = q \o (<<a>> \o <<b>>)
    BY <2>1, ConcatAssociative
  <2> QED
    BY <2>4, <2>5 DEF ab
<1> QED
  BY <1>1, <1>2, <1>3

\* A sequence is its head and its tail.
LEMMA HeadThenTail ==
  ASSUME NEW S, NEW w \in Seq(S), w # <<>>
  PROVE  /\ Head(w) \in S /\ <<Head(w)>> \in Seq(S) /\ Tail(w) \in Seq(S)
         /\ w = <<Head(w)>> \o Tail(w)
<1>1. /\ Head(w) \in S /\ <<Head(w)>> \in Seq(S) /\ Tail(w) \in Seq(S)
      /\ Len(<<Head(w)>>) = 1 /\ <<Head(w)>>[1] = w[1]
      /\ Len(w) \in Nat /\ Len(w) >= 1 /\ Len(Tail(w)) = Len(w) - 1
      /\ \A i \in 1 .. Len(w) - 1 : Tail(w)[i] = w[i + 1]
  OBVIOUS
<1> DEFINE h == <<Head(w)>>
           t == Tail(w)
           u == h \o t
<1>2. h \in Seq(S) /\ t \in Seq(S) /\ Len(h) = 1 /\ h[1] = w[1] /\ Len(t) = Len(w) - 1
      /\ \A i \in 1 .. Len(w) - 1 : t[i] = w[i + 1]
  BY <1>1
<1> HIDE DEF h, t
<1>3. /\ u \in Seq(S) /\ Len(u) = Len(h) + Len(t)
      /\ \A i \in 1 .. Len(h) : u[i] = h[i]
      /\ \A i \in 1 .. Len(h) + Len(t) : i > Len(h) => u[i] = t[i - Len(h)]
  <2>1. h \in Seq(S) /\ t \in Seq(S)
    BY <1>2
  <2> QED
    BY <2>1, InARow
<1> HIDE DEF u
<1>4. Len(u) = Len(w) /\ u[1] = w[1]
  BY <1>1, <1>2, <1>3
<1>5. ASSUME NEW i \in 1 .. Len(w) PROVE u[i] = w[i]
  <2>1. CASE i = 1
    BY <1>4, <2>1
  <2>2. CASE i # 1
    <3>1. i \in 1 .. Len(h) + Len(t) /\ i > Len(h) /\ i - Len(h) \in 1 .. Len(w) - 1 /\ (i - Len(h)) + 1 = i
      BY <1>1, <1>2, <2>2
    <3> QED
      BY <1>2, <1>3, <3>1
  <2> QED
    BY <2>1, <2>2
<1>6. u = w
  BY <1>3, <1>4, <1>5, SameElements
<1> QED
  BY <1>1, <1>6 DEF u, h, t

\* What is forwarded keeps its place.
LEMMA Forwarded ==
  ASSUME NEW S, NEW w \in Seq(S), NEW q \in Seq(S), q # <<>>
  PROVE  /\ Append(w, Head(q)) \in Seq(S) /\ Tail(q) \in Seq(S)
         /\ Append(w, Head(q)) \o Tail(q) = w \o q
<1>1. Head(q) \in S /\ <<Head(q)>> \in Seq(S) /\ Tail(q) \in Seq(S) /\ q = <<Head(q)>> \o Tail(q)
  BY HeadThenTail
<1>2. Append(w, Head(q)) = w \o <<Head(q)>> /\ Append(w, Head(q)) \in Seq(S)
  BY <1>1
<1>3. (w \o <<Head(q)>>) \o Tail(q) = w \o (<<Head(q)>> \o Tail(q))
  BY <1>1, ConcatAssociative
<1> QED
  BY <1>1, <1>2, <1>3

\* An element before others.
LEMMA PutInFront ==
  ASSUME NEW S, NEW q \in Seq(S), NEW e \in S
  PROVE  InFront(e, q, <<e>> \o q)
<1> DEFINE n == Len(q) + 1
           h == <<e>>
           u == h \o q
<1>1. h \in Seq(S) /\ Len(h) = 1 /\ h[1] = e /\ Len(q) \in Nat /\ DOMAIN q = 1 .. n - 1
  OBVIOUS
<1> HIDE DEF h
<1>2. /\ u \in Seq(S) /\ Len(u) = Len(h) + Len(q)
      /\ \A i \in 1 .. Len(h) : u[i] = h[i]
      /\ \A i \in 1 .. Len(h) + Len(q) : i > Len(h) => u[i] = q[i - Len(h)]
  BY <1>1, InARow
<1> HIDE DEF u
<1>3. DOMAIN u = 1 .. n /\ u[1] = e /\ n \in Nat \ {0}
  BY <1>1, <1>2
<1>4. ASSUME NEW k \in 1 .. n - 1 PROVE u[k + 1] = q[k]
  <2>1. k + 1 \in 1 .. Len(h) + Len(q) /\ k + 1 > Len(h) /\ (k + 1) - Len(h) = k
    BY <1>1
  <2> QED
    BY <1>2, <2>1
<1>5. InFront(e, q, u)
  <2> HIDE DEF n
  <2> QED
    BY <1>1, <1>3, <1>4 DEF InFront
<1> QED
  BY <1>5 DEF u, h

\* The page takes the first of what is on its way.
LEMMA TakesFirst ==
  ASSUME NEW S, NEW w \in Seq(S), NEW q \in Seq(S), w # <<>>
  PROVE  Tail(w) \in Seq(S) /\ Head(w) \in S /\ InFront(Head(w), Tail(w) \o q, w \o q)
<1>1. Head(w) \in S /\ <<Head(w)>> \in Seq(S) /\ Tail(w) \in Seq(S) /\ w = <<Head(w)>> \o Tail(w)
  BY HeadThenTail
<1>2. Tail(w) \o q \in Seq(S)
  BY <1>1, InARow
<1>3. (<<Head(w)>> \o Tail(w)) \o q = <<Head(w)>> \o (Tail(w) \o q)
  BY <1>1, ConcatAssociative
<1>4. InFront(Head(w), Tail(w) \o q, <<Head(w)>> \o (Tail(w) \o q))
  BY <1>1, <1>2, PutInFront
<1> QED
  BY <1>1, <1>3, <1>4

-----------------------------------------------------------------------------
(* The keys, the layers and the codes when a report comes in, when the page takes one, and when the *)
(* report of the layers is written before the others. *)

LEMMA KeyReported ==
  ASSUME NEW w, NEW v, NEW pr, NEW held, NEW p, NEW b \in BOOLEAN,
         KeysInv(w, pr, held), Behind(w, KeyEvent(p, b), v)
  PROVE  KeysInv(v, pr, IF b THEN held \cup {p} ELSE held \ {p})
<1> DEFINE h == IF b THEN held \cup {p} ELSE held \ {p}
<1>1. PICK n \in Nat \ {0} : /\ DOMAIN w = 1 .. n - 1 /\ DOMAIN v = 1 .. n
                             /\ v[n] = KeyEvent(p, b) /\ \A k \in 1 .. n - 1 : v[k] = w[k]
  BY DEF Behind
<1>2. n \in DOMAIN v /\ v[n].type = "key" /\ v[n].position = p /\ v[n].pressed = b /\ \A k \in DOMAIN w : k < n /\ k \in DOMAIN v
  BY <1>1 DEF KeyEvent
<1>3. (b <=> p \in h) /\ \A x : x # p => (x \in h <=> x \in held)
  OBVIOUS
<1> HIDE DEF h
<1>4. ASSUME NEW x, \A k \in DOMAIN v : ~(v[k].type = "key" /\ v[k].position = x)
      PROVE  x \in pr <=> x \in h
  <2>1. x # p /\ \A k \in DOMAIN w : ~(w[k].type = "key" /\ w[k].position = x)
    BY <1>1, <1>2, <1>4
  <2> QED
    BY <1>3, <2>1 DEF KeysInv
<1>5. ASSUME NEW k \in DOMAIN v, v[k].type = "key"
      PROVE  \/ v[k].pressed <=> v[k].position \in h
             \/ \E l \in DOMAIN v : k < l /\ v[l].type = "key" /\ v[l].position = v[k].position
  <2>1. CASE k = n
    BY <1>2, <1>3, <2>1
  <2>2. CASE k # n /\ v[k].position = p
    <3>1. k < n
      BY <1>1, <2>2
    <3> QED
      BY <1>2, <2>2, <3>1
  <2>3. CASE k # n /\ v[k].position # p
    <3>1. k \in DOMAIN w /\ v[k] = w[k]
      BY <1>1, <2>3
    <3>2. \/ w[k].pressed <=> w[k].position \in held
          \/ \E l \in DOMAIN w : k < l /\ w[l].type = "key" /\ w[l].position = w[k].position
      BY <1>5, <3>1 DEF KeysInv
    <3>3. CASE w[k].pressed <=> w[k].position \in held
      BY <1>3, <2>3, <3>1, <3>3
    <3>4. CASE \E l \in DOMAIN w : k < l /\ w[l].type = "key" /\ w[l].position = w[k].position
      BY <1>1, <1>2, <3>1, <3>4
    <3> QED
      BY <3>2, <3>3, <3>4
  <2> QED
    BY <2>1, <2>2, <2>3
<1> QED
  BY <1>4, <1>5 DEF KeysInv, h

LEMMA OtherThanKey ==
  ASSUME NEW w, NEW v, NEW pr, NEW held, NEW e, e.type # "key",
         KeysInv(w, pr, held), Behind(w, e, v)
  PROVE  KeysInv(v, pr, held)
<1>1. PICK n \in Nat \ {0} : /\ DOMAIN w = 1 .. n - 1 /\ DOMAIN v = 1 .. n
                             /\ v[n] = e /\ \A k \in 1 .. n - 1 : v[k] = w[k]
  BY DEF Behind
<1>2. \A k \in DOMAIN w : k \in DOMAIN v /\ v[k] = w[k]
  BY <1>1
<1>3. \A k \in DOMAIN v : v[k].type = "key" => k \in DOMAIN w
  BY <1>1
<1> QED
  BY <1>2, <1>3 DEF KeysInv

LEMMA TakesKey ==
  ASSUME NEW w, NEW v, NEW pr, NEW held, NEW e, e.type = "key",
         KeysInv(v, pr, held), InFront(e, w, v)
  PROVE  KeysInv(w, IF e.pressed THEN pr \cup {e.position} ELSE pr \ {e.position}, held)
<1> DEFINE p == e.position
           q == IF e.pressed THEN pr \cup {e.position} ELSE pr \ {e.position}
<1>1. PICK n \in Nat \ {0} : /\ DOMAIN w = 1 .. n - 1 /\ DOMAIN v = 1 .. n
                             /\ v[1] = e /\ \A k \in 1 .. n - 1 : v[k + 1] = w[k]
  BY DEF InFront
<1>2. /\ 1 \in DOMAIN v /\ \A k \in DOMAIN w : k + 1 \in DOMAIN v /\ v[k + 1] = w[k] /\ k \in Nat
      /\ \A k \in DOMAIN v : k \in Nat /\ (k = 1 \/ (k - 1 \in DOMAIN w /\ (k - 1) + 1 = k))
  BY <1>1
<1>3. (e.pressed <=> p \in q) /\ \A x : x # p => (x \in q <=> x \in pr)
  OBVIOUS
<1> HIDE DEF q
<1>4. ASSUME NEW x, \A k \in DOMAIN w : ~(w[k].type = "key" /\ w[k].position = x)
      PROVE  x \in q <=> x \in held
  <2>1. \A k \in DOMAIN v : v[k].type = "key" /\ v[k].position = x => k = 1
    BY <1>2, <1>4
  <2>2. CASE x = p
    <3>1. \A l \in DOMAIN v : ~(1 < l /\ v[l].type = "key" /\ v[l].position = p)
      BY <2>1, <2>2
    <3>2. e.pressed <=> p \in held
      BY <1>1, <1>2, <3>1 DEF KeysInv
    <3> QED
      BY <1>3, <2>2, <3>2
  <2>3. CASE x # p
    <3>1. \A k \in DOMAIN v : ~(v[k].type = "key" /\ v[k].position = x)
      BY <1>1, <2>1, <2>3
    <3> QED
      BY <1>3, <2>3, <3>1 DEF KeysInv
  <2> QED
    BY <2>2, <2>3
<1>5. ASSUME NEW k \in DOMAIN w, w[k].type = "key"
      PROVE  \/ w[k].pressed <=> w[k].position \in held
             \/ \E l \in DOMAIN w : k < l /\ w[l].type = "key" /\ w[l].position = w[k].position
  <2>1. k + 1 \in DOMAIN v /\ v[k + 1] = w[k] /\ k \in Nat /\ k >= 1
    BY <1>1
  <2>2. CASE \E l \in DOMAIN v : k + 1 < l /\ v[l].type = "key" /\ v[l].position = v[k + 1].position
    <3>1. PICK l \in DOMAIN v : k + 1 < l /\ v[l].type = "key" /\ v[l].position = v[k + 1].position
      BY <2>2
    <3>2. l - 1 \in DOMAIN w /\ w[l - 1] = v[l] /\ k < l - 1
      BY <1>1, <2>1, <3>1
    <3> QED
      BY <2>1, <3>1, <3>2
  <2> QED
    BY <1>5, <2>1, <2>2 DEF KeysInv
<1> QED
  BY <1>4, <1>5 DEF KeysInv, q

LEMMA TakesNoKey ==
  ASSUME NEW w, NEW v, NEW pr, NEW held, NEW e, e.type # "key", InFront(e, w, v)
  PROVE  KeysInv(v, pr, held) <=> KeysInv(w, pr, held)
<1>1. PICK n \in Nat \ {0} : /\ DOMAIN w = 1 .. n - 1 /\ DOMAIN v = 1 .. n
                             /\ v[1] = e /\ \A k \in 1 .. n - 1 : v[k + 1] = w[k]
  BY DEF InFront
<1>2. ASSUME NEW x
      PROVE  (\E k \in DOMAIN v : v[k].type = "key" /\ v[k].position = x)
                <=> \E k \in DOMAIN w : w[k].type = "key" /\ w[k].position = x
  <2>1. ASSUME NEW k \in DOMAIN v, v[k].type = "key" PROVE k - 1 \in DOMAIN w /\ w[k - 1] = v[k]
    BY <1>1, <2>1
  <2>2. \A k \in DOMAIN w : k + 1 \in DOMAIN v /\ v[k + 1] = w[k]
    BY <1>1
  <2> QED
    BY <2>1, <2>2
<1>3. ASSUME NEW k \in DOMAIN w
      PROVE  (\E l \in DOMAIN v : k + 1 < l /\ v[l].type = "key" /\ v[l].position = w[k].position)
                <=> \E l \in DOMAIN w : k < l /\ w[l].type = "key" /\ w[l].position = w[k].position
  <2>1. ASSUME NEW l \in DOMAIN v, k + 1 < l PROVE l - 1 \in DOMAIN w /\ w[l - 1] = v[l] /\ k < l - 1
    BY <1>1, <2>1
  <2>2. \A l \in DOMAIN w : k < l => l + 1 \in DOMAIN v /\ v[l + 1] = w[l] /\ k + 1 < l + 1
    BY <1>1
  <2> QED
    BY <2>1, <2>2
<1>4. ASSUME KeysInv(v, pr, held) PROVE KeysInv(w, pr, held)
  <2>1. \A x : (\A k \in DOMAIN w : ~(w[k].type = "key" /\ w[k].position = x)) => (x \in pr <=> x \in held)
    BY <1>2, <1>4 DEF KeysInv
  <2>2. ASSUME NEW k \in DOMAIN w, w[k].type = "key"
        PROVE  \/ w[k].pressed <=> w[k].position \in held
               \/ \E l \in DOMAIN w : k < l /\ w[l].type = "key" /\ w[l].position = w[k].position
    <3>1. k + 1 \in DOMAIN v /\ v[k + 1] = w[k]
      BY <1>1
    <3> QED
      BY <1>3, <1>4, <2>2, <3>1 DEF KeysInv
  <2> QED
    BY <2>1, <2>2 DEF KeysInv
<1>5. ASSUME KeysInv(w, pr, held) PROVE KeysInv(v, pr, held)
  <2>1. \A x : (\A k \in DOMAIN v : ~(v[k].type = "key" /\ v[k].position = x)) => (x \in pr <=> x \in held)
    BY <1>2, <1>5 DEF KeysInv
  <2>2. ASSUME NEW k \in DOMAIN v, v[k].type = "key"
        PROVE  \/ v[k].pressed <=> v[k].position \in held
               \/ \E l \in DOMAIN v : k < l /\ v[l].type = "key" /\ v[l].position = v[k].position
    <3>1. PICK m \in DOMAIN w : m = k - 1
      BY <1>1, <2>2
    <3>2. k = m + 1 /\ v[k] = w[m]
      BY <1>1, <3>1
    <3>3. CASE \E l \in DOMAIN w : m < l /\ w[l].type = "key" /\ w[l].position = w[m].position
      <4>1. \E l \in DOMAIN v : m + 1 < l /\ v[l].type = "key" /\ v[l].position = w[m].position
        BY <1>3, <3>3
      <4> QED
        BY <3>2, <4>1
    <3>4. \/ w[m].pressed <=> w[m].position \in held
          \/ \E l \in DOMAIN w : m < l /\ w[l].type = "key" /\ w[l].position = w[m].position
      BY <1>5, <2>2, <3>2 DEF KeysInv
    <3> QED
      BY <3>2, <3>3, <3>4
  <2> QED
    BY <2>1, <2>2 DEF KeysInv
<1> QED
  BY <1>4, <1>5

LEMMA LayersReported ==
  ASSUME NEW w, NEW v, NEW ids, Behind(w, LayersEvent(ids), v)
  PROVE  LayersInv(v, ids)
<1>1. PICK n \in Nat \ {0} : DOMAIN w = 1 .. n - 1 /\ DOMAIN v = 1 .. n /\ v[n] = LayersEvent(ids)
  BY DEF Behind
<1>2. n \in DOMAIN v /\ v[n].type = "layers" /\ \A k \in DOMAIN v : k < n \/ k = n
  BY <1>1 DEF LayersEvent
<1> QED
  BY <1>1, <1>2 DEF LayersInv

LEMMA OtherThanLayers ==
  ASSUME NEW w, NEW v, NEW ids, NEW e, e.type # "layers", LayersInv(w, ids), Behind(w, e, v)
  PROVE  LayersInv(v, ids)
<1>1. PICK n \in Nat \ {0} : /\ DOMAIN w = 1 .. n - 1 /\ DOMAIN v = 1 .. n
                             /\ v[n] = e /\ \A k \in 1 .. n - 1 : v[k] = w[k]
  BY DEF Behind
<1>2. \A k \in DOMAIN w : k \in DOMAIN v /\ v[k] = w[k]
  BY <1>1
<1>3. \A k \in DOMAIN v : v[k].type = "layers" => k \in DOMAIN w
  BY <1>1
<1> QED
  BY <1>2, <1>3 DEF LayersInv

LEMMA TakesLayers ==
  ASSUME NEW w, NEW v, NEW ids, NEW e, LayersInv(v, ids), InFront(e, w, v)
  PROVE  /\ LayersInv(w, ids)
         /\ (\A k \in DOMAIN w : w[k].type # "layers") =>
               IF e.type = "layers" THEN e = LayersEvent(ids) ELSE \A k \in DOMAIN v : v[k].type # "layers"
<1>1. PICK n \in Nat \ {0} : /\ DOMAIN w = 1 .. n - 1 /\ DOMAIN v = 1 .. n
                             /\ v[1] = e /\ \A k \in 1 .. n - 1 : v[k + 1] = w[k]
  BY DEF InFront
<1>2. \A k \in DOMAIN w : k \in Nat /\ k + 1 \in DOMAIN v /\ v[k + 1] = w[k]
  BY <1>1
<1>3. \A k \in DOMAIN v : k = 1 \/ (k \in Nat /\ k - 1 \in DOMAIN w /\ w[k - 1] = v[k] /\ 1 < k)
  BY <1>1
<1>4. 1 \in DOMAIN v
  BY <1>1
<1>5. ASSUME NEW k \in DOMAIN w, w[k].type = "layers"
      PROVE  w[k] = LayersEvent(ids) \/ \E l \in DOMAIN w : k < l /\ w[l].type = "layers"
  <2>1. k \in Nat /\ 1 <= k /\ k + 1 \in DOMAIN v /\ v[k + 1] = w[k]
    BY <1>1, <1>2
  <2>2. v[k + 1] = LayersEvent(ids) \/ \E l \in DOMAIN v : k + 1 < l /\ v[l].type = "layers"
    BY <1>5, <2>1 DEF LayersInv
  <2>3. CASE \E l \in DOMAIN v : k + 1 < l /\ v[l].type = "layers"
    <3>1. PICK l \in DOMAIN v : k + 1 < l /\ v[l].type = "layers"
      BY <2>3
    <3>2. l - 1 \in DOMAIN w /\ w[l - 1] = v[l] /\ k < l - 1
      BY <1>1, <2>1, <3>1
    <3> QED
      BY <3>1, <3>2
  <2> QED
    BY <2>1, <2>2, <2>3
<1>6. ASSUME \A k \in DOMAIN w : w[k].type # "layers"
      PROVE  IF e.type = "layers" THEN e = LayersEvent(ids) ELSE \A k \in DOMAIN v : v[k].type # "layers"
  <2>1. \A k \in DOMAIN v : v[k].type = "layers" => k = 1
    BY <1>3, <1>6
  <2>2. e.type = "layers" => e = LayersEvent(ids)
    BY <1>1, <1>4, <2>1 DEF LayersInv
  <2> QED
    BY <1>1, <2>1, <2>2
<1> QED
  BY <1>5, <1>6 DEF LayersInv

LEMMA LayersFirst ==
  ASSUME NEW w, NEW v, NEW ids, LayersInv(w, ids), InFront(LayersEvent(ids), w, v)
  PROVE  LayersInv(v, ids) /\ \E k \in DOMAIN v : v[k].type = "layers"
<1>1. PICK n \in Nat \ {0} : /\ DOMAIN w = 1 .. n - 1 /\ DOMAIN v = 1 .. n
                             /\ v[1] = LayersEvent(ids) /\ \A k \in 1 .. n - 1 : v[k + 1] = w[k]
  BY DEF InFront
<1>2. 1 \in DOMAIN v /\ v[1].type = "layers"
  BY <1>1 DEF LayersEvent
<1>3. ASSUME NEW k \in DOMAIN v, k # 1, v[k].type = "layers"
      PROVE  v[k] = LayersEvent(ids) \/ \E l \in DOMAIN v : k < l /\ v[l].type = "layers"
  <2>1. PICK m \in DOMAIN w : m = k - 1
    BY <1>1, <1>3
  <2>2. v[k] = w[m] /\ k = m + 1 /\ m \in Nat
    BY <1>1, <2>1
  <2>3. w[m] = LayersEvent(ids) \/ \E l \in DOMAIN w : m < l /\ w[l].type = "layers"
    BY <1>3, <2>2 DEF LayersInv
  <2>4. CASE \E l \in DOMAIN w : m < l /\ w[l].type = "layers"
    <3>1. PICK l \in DOMAIN w : m < l /\ w[l].type = "layers"
      BY <2>4
    <3>2. l + 1 \in DOMAIN v /\ v[l + 1] = w[l] /\ k < l + 1
      BY <1>1, <2>2, <3>1
    <3> QED
      BY <3>1, <3>2
  <2> QED
    BY <2>2, <2>3, <2>4
<1> QED
  BY <1>1, <1>2, <1>3 DEF LayersInv

LEMMA CodeReported ==
  ASSUME NEW w, NEW v, NEW output, NEW on, NEW c, NEW b \in BOOLEAN, b => c \notin on,
         CodesInv(w, output, on), Behind(w, KeycodeEvent(c, b), v)
  PROVE  CodesInv(v, output, IF b THEN on \cup {c} ELSE on \ {c})
<1> DEFINE h == IF b THEN on \cup {c} ELSE on \ {c}
<1>1. PICK n \in Nat \ {0} : /\ DOMAIN w = 1 .. n - 1 /\ DOMAIN v = 1 .. n
                             /\ v[n] = KeycodeEvent(c, b) /\ \A k \in 1 .. n - 1 : v[k] = w[k]
  BY DEF Behind
<1>2. \A k \in DOMAIN w : k \in DOMAIN v /\ v[k] = w[k] /\ k < n
  BY <1>1
<1>3. n \in DOMAIN v /\ \A x : (PressOf(v[n], x) <=> x = c /\ b) /\ (ReleaseOf(v[n], x) <=> x = c /\ ~b)
  <2>1. n \in DOMAIN v /\ v[n].type = "keycode" /\ v[n].code = c /\ v[n].pressed = b
    BY <1>1 DEF KeycodeEvent
  <2>2. (b = TRUE <=> b) /\ (b = FALSE <=> ~b)
    OBVIOUS
  <2> QED
    BY <2>1, <2>2 DEF PressOf, ReleaseOf
<1>4. \A k \in DOMAIN v : k = n \/ k \in DOMAIN w
  BY <1>1
<1>5. ASSUME NEW x, x \notin h PROVE x \notin on \/ (x = c /\ ~b)
  BY <1>5
<1> HIDE DEF h
<1>6. ASSUME NEW x, NEW k \in DOMAIN v, PressOf(v[k], x), x \notin h
      PROVE  \E m \in DOMAIN v : k < m /\ ReleaseOf(v[m], x)
  <2>1. x \in h \/ k # n
    <3>1. b => c \in h
      BY DEF h
    <3> QED
      BY <1>3, <1>6, <3>1
  <2>2. k \in DOMAIN w /\ v[k] = w[k] /\ k < n
    BY <1>2, <1>4, <1>6, <2>1
  <2>3. CASE x \notin on
    <3>1. \E m \in DOMAIN w : k < m /\ ReleaseOf(w[m], x)
      BY <1>6, <2>2, <2>3 DEF CodesInv
    <3> QED
      BY <1>2, <3>1
  <2>4. CASE x = c /\ ~b
    BY <1>3, <2>2, <2>4
  <2> QED
    BY <1>5, <1>6, <2>3, <2>4
<1>7. ASSUME NEW x, NEW k \in DOMAIN v, NEW l \in DOMAIN v, k < l, PressOf(v[k], x), PressOf(v[l], x)
      PROVE  \E m \in DOMAIN v : k < m /\ m < l /\ ReleaseOf(v[m], x)
  <2>1. k \in DOMAIN w /\ v[k] = w[k]
    BY <1>1, <1>2, <1>4, <1>7
  <2>2. CASE l = n
    <3>1. x = c /\ x \notin on
      BY <1>3, <1>7, <2>2
    <3>2. \E m \in DOMAIN w : k < m /\ ReleaseOf(w[m], x)
      BY <1>7, <2>1, <3>1 DEF CodesInv
    <3> QED
      BY <1>2, <2>2, <3>2
  <2>3. CASE l \in DOMAIN w
    <3>1. \E m \in DOMAIN w : k < m /\ m < l /\ ReleaseOf(w[m], x)
      BY <1>2, <1>7, <2>1, <2>3 DEF CodesInv
    <3> QED
      BY <1>2, <3>1
  <2> QED
    BY <1>4, <2>2, <2>3
<1>8. ASSUME NEW i \in DOMAIN output, output[i].text \notin h
      PROVE  \E m \in DOMAIN v : ReleaseOf(v[m], output[i].text)
  <2>1. CASE output[i].text \notin on
    <3>1. \E m \in DOMAIN w : ReleaseOf(w[m], output[i].text)
      BY <2>1 DEF CodesInv
    <3> QED
      BY <1>2, <3>1
  <2>2. CASE output[i].text = c /\ ~b
    BY <1>3, <2>2
  <2> QED
    BY <1>5, <1>8, <2>1, <2>2
<1>9. ASSUME NEW i \in DOMAIN output, NEW k \in DOMAIN v, PressOf(v[k], output[i].text)
      PROVE  \E m \in DOMAIN v : m < k /\ ReleaseOf(v[m], output[i].text)
  <2>1. CASE k = n
    <3>1. output[i].text \notin on
      BY <1>3, <1>9, <2>1
    <3>2. \E m \in DOMAIN w : ReleaseOf(w[m], output[i].text)
      BY <3>1 DEF CodesInv
    <3> QED
      BY <1>2, <2>1, <3>2
  <2>2. CASE k \in DOMAIN w
    <3>1. \E m \in DOMAIN w : m < k /\ ReleaseOf(w[m], output[i].text)
      BY <1>2, <1>9, <2>2 DEF CodesInv
    <3> QED
      BY <1>2, <3>1
  <2> QED
    BY <1>4, <2>1, <2>2
<1>10. OneEach(output)
  BY DEF CodesInv
<1> QED
  BY <1>6, <1>7, <1>8, <1>9, <1>10 DEF CodesInv, h

LEMMA OtherThanCode ==
  ASSUME NEW w, NEW v, NEW output, NEW on, NEW e, e.type # "keycode",
         CodesInv(w, output, on), Behind(w, e, v)
  PROVE  CodesInv(v, output, on)
<1>1. PICK n \in Nat \ {0} : /\ DOMAIN w = 1 .. n - 1 /\ DOMAIN v = 1 .. n
                             /\ v[n] = e /\ \A k \in 1 .. n - 1 : v[k] = w[k]
  BY DEF Behind
<1>2. \A k \in DOMAIN w : k \in DOMAIN v /\ v[k] = w[k]
  BY <1>1
<1>3. \A k \in DOMAIN v : \A x : PressOf(v[k], x) \/ ReleaseOf(v[k], x) => k \in DOMAIN w /\ v[k] = w[k]
  BY <1>1 DEF PressOf, ReleaseOf
<1> QED
  BY <1>2, <1>3 DEF CodesInv

\* The codes on their way, but for the first.
LEMMA CodesTail ==
  ASSUME NEW w, NEW v, NEW e, InFront(e, w, v)
  PROVE  /\ (\A k \in DOMAIN w : k \in Nat) /\ (\A k \in DOMAIN v : k \in Nat)
         /\ 1 \in DOMAIN v /\ v[1] = e
         /\ \A k \in DOMAIN w : k >= 1 /\ k + 1 \in DOMAIN v /\ v[k + 1] = w[k]
         /\ \A k \in DOMAIN v : k = 1 \/ \E m \in DOMAIN w : k = m + 1
<1>1. PICK n \in Nat \ {0} : /\ DOMAIN w = 1 .. n - 1 /\ DOMAIN v = 1 .. n
                             /\ v[1] = e /\ \A k \in 1 .. n - 1 : v[k + 1] = w[k]
  BY DEF InFront
<1>2. \A k \in DOMAIN w : k >= 1 /\ k + 1 \in DOMAIN v /\ v[k + 1] = w[k]
  BY <1>1
<1>3. \A k \in DOMAIN v : k = 1 \/ (k - 1 \in DOMAIN w /\ k = (k - 1) + 1)
  BY <1>1
<1>4. (\A k \in DOMAIN w : k \in Nat) /\ (\A k \in DOMAIN v : k \in Nat) /\ 1 \in DOMAIN v /\ v[1] = e
  BY <1>1
<1> QED
  BY <1>2, <1>3, <1>4

\* A chip that is older than all of "v" is older than "w", and one whose release the page
\* takes is gone.
LEMMA TakesCode ==
  ASSUME NEW w, NEW v, NEW e, NEW out, NEW on, InFront(e, w, v), CodesInv(v, out, on),
         NEW new, OneEach(new),
         \A i \in DOMAIN new :
            \/ PressOf(e, new[i].text)
            \/ (\E j \in DOMAIN out : out[j].text = new[i].text) /\ ~ReleaseOf(e, new[i].text)
  PROVE  CodesInv(w, new, on)
<1>1. /\ (\A k \in DOMAIN w : k \in Nat) /\ (\A k \in DOMAIN v : k \in Nat)
      /\ 1 \in DOMAIN v /\ v[1] = e
      /\ \A k \in DOMAIN w : k >= 1 /\ k + 1 \in DOMAIN v /\ v[k + 1] = w[k]
      /\ \A k \in DOMAIN v : k = 1 \/ \E m \in DOMAIN w : k = m + 1
  BY CodesTail
<1>2. ASSUME NEW c, NEW k \in DOMAIN w, NEW l \in DOMAIN w, k < l, PressOf(w[k], c), PressOf(w[l], c)
      PROVE  \E m \in DOMAIN w : k < m /\ m < l /\ ReleaseOf(w[m], c)
  <2>1. /\ k + 1 \in DOMAIN v /\ l + 1 \in DOMAIN v /\ k + 1 < l + 1
        /\ PressOf(v[k + 1], c) /\ PressOf(v[l + 1], c)
    BY <1>1, <1>2
  <2>2. PICK y \in DOMAIN v : k + 1 < y /\ y < l + 1 /\ ReleaseOf(v[y], c)
    BY <2>1 DEF CodesInv
  <2>3. PICK m \in DOMAIN w : y = m + 1
    BY <1>1, <2>2
  <2>4. k < m /\ m < l /\ ReleaseOf(w[m], c)
    BY <1>1, <2>2, <2>3
  <2> QED
    BY <2>4
<1>3. ASSUME NEW c, NEW k \in DOMAIN w, PressOf(w[k], c), c \notin on
      PROVE  \E m \in DOMAIN w : k < m /\ ReleaseOf(w[m], c)
  <2>1. k + 1 \in DOMAIN v /\ PressOf(v[k + 1], c)
    BY <1>1, <1>3
  <2>2. PICK y \in DOMAIN v : k + 1 < y /\ ReleaseOf(v[y], c)
    BY <1>3, <2>1 DEF CodesInv
  <2>3. PICK m \in DOMAIN w : y = m + 1
    BY <1>1, <2>2
  <2>4. k < m /\ ReleaseOf(w[m], c)
    BY <1>1, <2>2, <2>3
  <2> QED
    BY <2>4
<1>4. ASSUME NEW i \in DOMAIN new, NEW k \in DOMAIN w, PressOf(w[k], new[i].text)
      PROVE  \E m \in DOMAIN w : m < k /\ ReleaseOf(w[m], new[i].text)
  <2> DEFINE c == new[i].text
  <2> HIDE DEF c
  <2>0. PressOf(w[k], c)
    BY <1>4 DEF c
  <2>1. k + 1 \in DOMAIN v /\ PressOf(v[k + 1], c) /\ 1 < k + 1
    BY <1>1, <2>0
  <2>2. CASE PressOf(e, c)
    <3>1. PICK y \in DOMAIN v : 1 < y /\ y < k + 1 /\ ReleaseOf(v[y], c)
      BY <1>1, <2>1, <2>2 DEF CodesInv
    <3>2. PICK m \in DOMAIN w : y = m + 1
      BY <1>1, <3>1
    <3>3. m < k /\ ReleaseOf(w[m], c)
      BY <1>1, <3>1, <3>2
    <3> QED
      BY <3>3 DEF c
  <2>3. CASE (\E j \in DOMAIN out : out[j].text = c) /\ ~ReleaseOf(e, c)
    <3>1. PICK y \in DOMAIN v : y < k + 1 /\ ReleaseOf(v[y], c)
      BY <2>1, <2>3 DEF CodesInv
    <3>2. PICK m \in DOMAIN w : y = m + 1
      BY <1>1, <2>3, <3>1
    <3>3. m < k /\ ReleaseOf(w[m], c)
      BY <1>1, <3>1, <3>2
    <3> QED
      BY <3>3 DEF c
  <2> QED
    BY <2>2, <2>3 DEF c
<1>5. ASSUME NEW i \in DOMAIN new, new[i].text \notin on
      PROVE  \E m \in DOMAIN w : ReleaseOf(w[m], new[i].text)
  <2> DEFINE c == new[i].text
  <2> HIDE DEF c
  <2>1. PICK y \in DOMAIN v : ReleaseOf(v[y], c) /\ y # 1
    <3>1. CASE PressOf(e, c)
      <4>1. PICK y \in DOMAIN v : 1 < y /\ ReleaseOf(v[y], c)
        BY <1>1, <1>5, <3>1 DEF CodesInv, c
      <4> QED
        BY <4>1
    <3>2. CASE (\E j \in DOMAIN out : out[j].text = c) /\ ~ReleaseOf(e, c)
      <4>1. PICK y \in DOMAIN v : ReleaseOf(v[y], c)
        BY <1>5, <3>2 DEF CodesInv, c
      <4> QED
        BY <1>1, <3>2, <4>1
    <3> QED
      BY <3>1, <3>2 DEF c
  <2>2. PICK m \in DOMAIN w : y = m + 1
    BY <1>1, <2>1
  <2>3. ReleaseOf(w[m], c)
    BY <1>1, <2>1, <2>2
  <2> QED
    BY <2>3 DEF c
<1> QED
  BY <1>2, <1>3, <1>4, <1>5 DEF CodesInv

\* The report of the layers comes before them.
LEMMA NoCodeFirst ==
  ASSUME NEW w, NEW v, NEW e, NEW out, NEW on, InFront(e, w, v), CodesInv(w, out, on), e.type # "keycode"
  PROVE  CodesInv(v, out, on)
<1>1. /\ (\A k \in DOMAIN w : k \in Nat) /\ (\A k \in DOMAIN v : k \in Nat)
      /\ 1 \in DOMAIN v /\ v[1] = e
      /\ \A k \in DOMAIN w : k >= 1 /\ k + 1 \in DOMAIN v /\ v[k + 1] = w[k]
      /\ \A k \in DOMAIN v : k = 1 \/ \E m \in DOMAIN w : k = m + 1
  BY CodesTail
<1>2. \A x : ~PressOf(v[1], x) /\ ~ReleaseOf(v[1], x)
  BY <1>1 DEF PressOf, ReleaseOf
<1>3. ASSUME NEW c, NEW k \in DOMAIN v, NEW l \in DOMAIN v, k < l, PressOf(v[k], c), PressOf(v[l], c)
      PROVE  \E m \in DOMAIN v : k < m /\ m < l /\ ReleaseOf(v[m], c)
  <2>1. PICK a \in DOMAIN w, z \in DOMAIN w : k = a + 1 /\ l = z + 1
    BY <1>1, <1>2, <1>3
  <2>2. a < z /\ PressOf(w[a], c) /\ PressOf(w[z], c)
    BY <1>1, <1>3, <2>1
  <2>3. PICK m \in DOMAIN w : a < m /\ m < z /\ ReleaseOf(w[m], c)
    BY <2>2 DEF CodesInv
  <2>4. m + 1 \in DOMAIN v /\ k < m + 1 /\ m + 1 < l /\ ReleaseOf(v[m + 1], c)
    BY <1>1, <2>1, <2>3
  <2> QED
    BY <2>4
<1>4. ASSUME NEW c, NEW k \in DOMAIN v, PressOf(v[k], c), c \notin on
      PROVE  \E m \in DOMAIN v : k < m /\ ReleaseOf(v[m], c)
  <2>1. PICK a \in DOMAIN w : k = a + 1
    BY <1>1, <1>2, <1>4
  <2>2. PressOf(w[a], c)
    BY <1>1, <1>4, <2>1
  <2>3. PICK m \in DOMAIN w : a < m /\ ReleaseOf(w[m], c)
    BY <1>4, <2>2 DEF CodesInv
  <2>4. m + 1 \in DOMAIN v /\ k < m + 1 /\ ReleaseOf(v[m + 1], c)
    BY <1>1, <2>1, <2>3
  <2> QED
    BY <2>4
<1>5. ASSUME NEW i \in DOMAIN out, NEW k \in DOMAIN v, PressOf(v[k], out[i].text)
      PROVE  \E m \in DOMAIN v : m < k /\ ReleaseOf(v[m], out[i].text)
  <2>1. PICK a \in DOMAIN w : k = a + 1
    BY <1>1, <1>2, <1>5
  <2>2. PressOf(w[a], out[i].text)
    BY <1>1, <1>5, <2>1
  <2>3. PICK m \in DOMAIN w : m < a /\ ReleaseOf(w[m], out[i].text)
    BY <2>2 DEF CodesInv
  <2>4. m + 1 \in DOMAIN v /\ m + 1 < k /\ ReleaseOf(v[m + 1], out[i].text)
    BY <1>1, <2>1, <2>3
  <2> QED
    BY <2>4
<1>6. ASSUME NEW i \in DOMAIN out, out[i].text \notin on
      PROVE  \E m \in DOMAIN v : ReleaseOf(v[m], out[i].text)
  <2>1. PICK m \in DOMAIN w : ReleaseOf(w[m], out[i].text)
    BY <1>6 DEF CodesInv
  <2> QED
    BY <1>1, <2>1
<1>7. OneEach(out)
  BY DEF CodesInv
<1> QED
  BY <1>3, <1>4, <1>5, <1>6, <1>7 DEF CodesInv

\* A release removes the chip of its keycode, the others stay.
LEMMA ChipGone ==
  ASSUME NEW T, NEW out \in Seq(T), NEW c
  PROVE  /\ WithoutFirst(out, c) \in Seq(T)
         /\ OneEach(out) =>
               /\ OneEach(WithoutFirst(out, c))
               /\ \A i \in DOMAIN WithoutFirst(out, c) :
                     WithoutFirst(out, c)[i].text # c /\ \E j \in DOMAIN out : out[j] = WithoutFirst(out, c)[i]
<1> DEFINE at == {i \in DOMAIN out : out[i].text = c}
           m == Min(at)
           p == SubSeq(out, 1, m - 1)
           q == SubSeq(out, m + 1, Len(out))
           r == p \o q
<1>1. CASE at = {}
  <2>1. WithoutFirst(out, c) = out
    BY <1>1 DEF WithoutFirst
  <2> QED
    BY <1>1, <2>1
<1>2. CASE at # {}
  <2>1. m \in at
    <3>1. at \in SUBSET Nat
      OBVIOUS
    <3> HIDE DEF at
    <3> QED
      BY <1>2, <3>1, FirstPlace
  <2>2. WithoutFirst(out, c) = r
    BY <1>2 DEF WithoutFirst, RemoveAt
  <2>3. m \in DOMAIN out /\ out[m].text = c
    BY <2>1
  <2>4. m \in Nat /\ m >= 1 /\ m <= Len(out) /\ Len(out) \in Nat /\ DOMAIN out = 1 .. Len(out)
    BY <2>3
  <2> HIDE DEF at, m
  <2>5. p \in Seq(T) /\ Len(p) = m - 1 /\ \A i \in 1 .. m - 1 : p[i] = out[i]
    BY <2>4
  <2>6. q \in Seq(T) /\ Len(q) = Len(out) - m /\ \A i \in 1 .. Len(out) - m : q[i] = out[m + i]
    <3> DEFINE n == Len(out)
               a == m + 1
    <3>1. a \in Int /\ n \in Int /\ (\A i \in a .. n : out[i] \in T) /\ n - a + 1 = n - m
      BY <2>4
    <3>2. \A i \in 1 .. n - m : (a + i) - 1 = m + i
      BY <2>4
    <3>a. n \in Nat /\ m \in Nat /\ m <= n
      BY <2>4
    <3> HIDE DEF n
    <3>3. (a <= n => n - a + 1 = n - m) /\ (~(a <= n) => n - m = 0)
      BY <3>a
    <3> HIDE DEF a
    <3>4. /\ SubSeq(out, a, n) \in Seq(T)
          /\ Len(SubSeq(out, a, n)) = IF a <= n THEN n - a + 1 ELSE 0
          /\ \A i \in 1 .. n - a + 1 : SubSeq(out, a, n)[i] = out[a + i - 1]
      BY <3>1, SubSeqProperties
    <3>5. SubSeq(out, a, n) \in Seq(T) /\ Len(SubSeq(out, a, n)) = n - m
          /\ \A i \in 1 .. n - m : SubSeq(out, a, n)[i] = out[m + i]
      BY <3>1, <3>2, <3>3, <3>4
    <3> QED
      BY <3>5 DEF a, n
  <2> HIDE DEF p, q
  <2>7. p \in Seq(T) /\ q \in Seq(T)
    BY <2>5, <2>6
  <2>8. /\ r \in Seq(T) /\ Len(r) = Len(p) + Len(q)
        /\ \A i \in 1 .. Len(p) : r[i] = p[i]
        /\ \A i \in 1 .. Len(p) + Len(q) : i > Len(p) => r[i] = q[i - Len(p)]
    BY <2>7, InARow
  <2> HIDE DEF r
  <2>9. DOMAIN r = 1 .. Len(out) - 1
    BY <2>4, <2>5, <2>6, <2>8
  <2>10. ASSUME NEW i \in DOMAIN r
         PROVE  /\ i < m => r[i] = out[i] /\ i \in DOMAIN out
                /\ ~(i < m) => r[i] = out[i + 1] /\ i + 1 \in DOMAIN out
                /\ i \in Nat
    <3>1. CASE i < m
      <4>1. i \in 1 .. Len(p) /\ i \in 1 .. m - 1
        BY <2>4, <2>5, <2>9, <3>1
      <4> QED
        BY <2>4, <2>5, <2>8, <2>9, <3>1, <4>1
    <3>2. CASE ~(i < m)
      <4>1. i \in 1 .. Len(p) + Len(q) /\ i > Len(p) /\ i - Len(p) \in 1 .. Len(out) - m /\ m + (i - Len(p)) = i + 1
        BY <2>4, <2>5, <2>6, <2>9, <3>2
      <4>2. r[i] = out[i + 1]
        BY <2>6, <2>8, <4>1
      <4> QED
        BY <2>4, <2>9, <3>2, <4>2
    <3> QED
      BY <3>1, <3>2
  <2>11. ASSUME OneEach(out), NEW i \in DOMAIN r PROVE r[i].text # c /\ \E j \in DOMAIN out : out[j] = r[i]
    <3>1. CASE i < m
      <4>1. i # m /\ r[i] = out[i] /\ i \in DOMAIN out
        BY <2>4, <2>10, <3>1
      <4> QED
        BY <2>3, <2>11, <4>1 DEF OneEach
    <3>2. CASE ~(i < m)
      <4>1. i + 1 # m /\ r[i] = out[i + 1] /\ i + 1 \in DOMAIN out
        BY <2>4, <2>10, <3>2
      <4> QED
        BY <2>3, <2>11, <4>1 DEF OneEach
    <3> QED
      BY <3>1, <3>2
  <2>12. ASSUME OneEach(out), NEW i \in DOMAIN r, NEW j \in DOMAIN r, r[i].text = r[j].text PROVE i = j
    <3> DEFINE a(k) == IF k < m THEN k ELSE k + 1
    <3>1. \A k \in DOMAIN r : r[k] = out[a(k)] /\ a(k) \in DOMAIN out /\ k \in Nat
      BY <2>10
    <3>2. a(i) = a(j)
      BY <2>12, <3>1 DEF OneEach
    <3> QED
      BY <2>4, <3>1, <3>2
  <2> QED
    BY <2>2, <2>8, <2>11, <2>12 DEF OneEach
<1> QED
  BY <1>1, <1>2

\* The highest layer is one of the keymap's.
LEMMA HighestIs ==
  ASSUME NEW ids
  PROVE  Highest(ids) \in 0 .. Len(Order) - 1 /\ FollowIndex(Highest(ids)) = Highest(ids)
<1>1. Len(Order) \in Nat /\ Len(Order) >= 1
  BY PracticeAssumption DEF PracticeAssumption
<1> DEFINE N == Len(Order) - 1
           T == {k \in Nat : k <= N /\ \A j \in 0 .. N : Order[j + 1] \in ids => j <= k}
<1>2. N \in T
  BY <1>1
<1>3. T \in SUBSET Nat /\ T # {}
  BY <1>2
<1>4. PICK k \in T : \A n \in T : k <= n
  <2> HIDE DEF T
  <2> QED
    BY <1>3, FirstPlace
<1>5. k \in 0 .. N /\ \A j \in 0 .. N : Order[j + 1] \in ids => j <= k
  BY <1>1
<1>6. Order[k + 1] \in ids \/ k = 0
  <2> SUFFICES ASSUME Order[k + 1] \notin ids, k # 0 PROVE FALSE
    OBVIOUS
  <2>1. k - 1 \in Nat /\ k - 1 <= N /\ ~(k <= k - 1)
    BY <1>1, <1>5
  <2>2. ASSUME NEW j \in 0 .. N, Order[j + 1] \in ids PROVE j <= k - 1
    <3>1. j <= k /\ j # k
      BY <1>5, <2>2
    <3> QED
      BY <1>1, <1>5, <3>1
  <2>3. k - 1 \in T
    BY <2>1, <2>2
  <2> QED
    BY <1>4, <2>1, <2>3
<1>7. Highest(ids) \in 0 .. N
  BY <1>5, <1>6 DEF Highest
<1>8. FollowIndex(Highest(ids)) = Highest(ids)
  BY <1>1, <1>7 DEF FollowIndex
<1> QED
  BY <1>7, <1>8

-----------------------------------------------------------------------------
(* Types. *)

LEMMA EventsAreEvents ==
  /\ \A p \in Pos, b \in BOOLEAN : KeyEvent(p, b) \in StreamEvent
  /\ \A ids \in Layers : LayersEvent(ids) \in StreamEvent
  /\ \A c \in Pos \cup Knob, b \in BOOLEAN : KeycodeEvent(c, b) \in StreamEvent
  /\ Unavailable \in StreamEvent
BY DEF StreamEvent, Layers

\* A report is appended to the queue of every stream that is subscribed, while the flag is on.
LEMMA ReportIs ==
  ASSUME PracticeTypes, NEW evs \in Seq(StreamEvent), Report(evs), stage' = stage
  PROVE  /\ DOMAIN queues' = Source
         /\ \A s \in Source :
               /\ IF stage'[s] \in HasQueue THEN queues'[s] \in Seq(StreamEvent) ELSE queues'[s] = None
               /\ stage[s] \in HasQueue => queues'[s] = IF monitoring THEN queues[s] \o evs ELSE queues[s]
<1>1. CASE ~monitoring
  BY <1>1 DEF Report, PracticeTypes
<1>2. CASE monitoring
  <2>1. queues' = [s \in Source |-> IF queues[s] = None THEN None ELSE queues[s] \o evs]
    BY <1>2 DEF Report
  <2>2. ASSUME NEW s \in Source, stage[s] \in HasQueue
        PROVE  queues'[s] = queues[s] \o evs /\ queues[s] \o evs \in Seq(StreamEvent)
    <3>1. queues[s] \in Seq(StreamEvent)
      BY <2>2 DEF PracticeTypes
    <3>2. queues[s] # None
      BY <3>1, NoneAssumption DEF NoneAssumption
    <3>3. queues[s] \o evs \in Seq(StreamEvent)
      BY <3>1, InARow
    <3> QED
      BY <2>1, <3>2, <3>3
  <2>3. ASSUME NEW s \in Source, stage[s] \notin HasQueue PROVE queues'[s] = None
    BY <2>1, <2>3 DEF PracticeTypes
  <2> QED
    BY <1>2, <2>1, <2>2, <2>3
<1> QED
  BY <1>1, <1>2 DEF PracticeTypes

\* What a key reports: its position, then the layers or its code.
After(p, b) == IF p \in DOMAIN LayerKey THEN LayersEvent(active') ELSE KeycodeEvent(p, b)

LEMMA KeyTypes ==
  ASSUME PracticeTypes, NEW p \in Pos, NEW b \in BOOLEAN,
         IF b THEN Press(p) ELSE Release(p)
  PROVE  /\ active' \in Layers /\ After(p, b) \in StreamEvent /\ KeyEvent(p, b) \in StreamEvent
         /\ Report(<<KeyEvent(p, b), After(p, b)>>)
         /\ UNCHANGED <<turning, monitoring, clients, stage, lock, stream, written, shown, undone>>
         /\ (p \notin DOMAIN LayerKey => active' = active)
<1>1. \A q \in DOMAIN LayerKey : LayerKey[q] \in ToSet(Order)
  BY PracticeAssumption DEF PracticeAssumption
<1>2. active \in SUBSET ToSet(Order)
  BY DEF PracticeTypes, Layers
<1>3. active' \in Layers /\ (p \notin DOMAIN LayerKey => active' = active)
  <2>1. CASE b
    BY <1>1, <1>2, <2>1 DEF Press, Layers
  <2>2. CASE ~b
    BY <1>1, <1>2, <2>2 DEF Release, Layers
  <2> QED
    BY <2>1, <2>2
<1>4. After(p, b) \in StreamEvent /\ KeyEvent(p, b) \in StreamEvent
  BY <1>3, EventsAreEvents DEF After
<1>5. /\ Report(<<KeyEvent(p, b), After(p, b)>>)
      /\ UNCHANGED <<turning, monitoring, clients, stage, lock, stream, written, shown, undone>>
  <2>1. CASE b
    <3>1. b = TRUE
      BY <2>1
    <3> QED
      BY <2>1, <3>1 DEF Press, After
  <2>2. CASE ~b
    <3>1. b = FALSE
      BY <2>2
    <3> QED
      BY <2>2, <3>1 DEF Release, After
  <2> QED
    BY <2>1, <2>2
<1> QED
  BY <1>3, <1>4, <1>5

LEMMA ReportedTypes ==
  ASSUME PracticeTypes, NEW evs \in Seq(StreamEvent), Report(evs), active' \in Layers,
         UNCHANGED <<monitoring, clients, stage, stream, written, practice, drawn>>
  PROVE  PracticeTypes'
BY ReportIs DEF PracticeTypes

LEMMA ReduceTypes ==
  ASSUME NEW st \in PracticeState, NEW e \in StreamEvent, e # Unavailable
  PROVE  Reduce(st, e) \in PracticeState
<1> DEFINE T == [text : Pos \cup Knob, encoder : BOOLEAN]
<1>1. /\ st.pressed \in SUBSET Pos /\ st.ids \in Layers /\ st.highest \in Nat /\ st.output \in Seq(T)
      /\ st = [pressed |-> st.pressed, ids |-> st.ids, highest |-> st.highest, output |-> st.output]
  BY DEF PracticeState
<1>2. CASE \E p \in Pos, b \in BOOLEAN : e = KeyEvent(p, b)
  <2>1. Reduce(st, e) = [st EXCEPT !.pressed = IF e.pressed THEN @ \cup {e.position} ELSE @ \ {e.position}]
        /\ e.position \in Pos
    BY <1>2 DEF Reduce, KeyEvent
  <2> QED
    BY <1>1, <2>1 DEF PracticeState
<1>3. CASE \E ids \in Layers : e = LayersEvent(ids)
  <2>1. PICK ids \in Layers : e = LayersEvent(ids)
    BY <1>3
  <2>2. Highest(ids) \in Nat
    BY HighestIs, PracticeAssumption DEF PracticeAssumption
  <2>3. Reduce(st, e) = [st EXCEPT !.ids = ids, !.highest = Highest(ids)]
    BY <2>1 DEF Reduce, LayersEvent
  <2> QED
    BY <1>1, <2>2, <2>3 DEF PracticeState
<1>4. CASE \E c \in Pos \cup Knob, b \in BOOLEAN : e = KeycodeEvent(c, b)
  <2>1. PICK c \in Pos \cup Knob, b \in BOOLEAN : e = KeycodeEvent(c, b)
    BY <1>4
  <2>2. Reduce(st, e) = [st EXCEPT !.output = IF b THEN Append(@, Chip(st, c)) ELSE WithoutFirst(@, c)]
    BY <2>1 DEF Reduce, KeycodeEvent
  <2>3. Append(st.output, Chip(st, c)) \in Seq(T)
    BY <1>1 DEF Chip
  <2>4. WithoutFirst(st.output, c) \in Seq(T)
    BY <1>1, ChipGone
  <2> QED
    BY <1>1, <2>2, <2>3, <2>4 DEF PracticeState
<1> QED
  BY <1>2, <1>3, <1>4 DEF StreamEvent, Layers

LEMMA TypesStep ==
  ASSUME PracticeTypes, [PracticeNext]_practiceVars
  PROVE  PracticeTypes'
<1>1. ASSUME NEW p \in Pos, NEW b \in BOOLEAN, IF b THEN Press(p) ELSE Release(p) PROVE PracticeTypes'
  <2>1. /\ active' \in Layers /\ After(p, b) \in StreamEvent /\ KeyEvent(p, b) \in StreamEvent
        /\ Report(<<KeyEvent(p, b), After(p, b)>>)
        /\ UNCHANGED <<turning, monitoring, clients, stage, lock, stream, written, shown, undone>>
    BY <1>1, KeyTypes
  <2> DEFINE evs == <<KeyEvent(p, b), After(p, b)>>
  <2>2. evs \in Seq(StreamEvent)
    BY <2>1
  <2> HIDE DEF evs
  <2> QED
    BY <2>1, <2>2, ReportedTypes DEF evs, shown
<1>2. ASSUME NEW c \in Knob, Turn(c) PROVE PracticeTypes'
  <2>1. KeycodeEvent(c, c \notin turning) \in StreamEvent
    <3>1. c \in Pos \cup Knob /\ (c \notin turning) \in BOOLEAN
      OBVIOUS
    <3> QED
      BY <3>1, EventsAreEvents
  <2> DEFINE evs == <<KeycodeEvent(c, c \notin turning)>>
  <2>2. evs \in Seq(StreamEvent)
    BY <2>1
  <2>3. Report(evs) /\ UNCHANGED <<monitoring, clients, stage, stream, written, practice, drawn, active>>
    BY <1>2 DEF Turn, shown
  <2>4. active' \in Layers
    BY <2>3 DEF PracticeTypes
  <2> HIDE DEF evs
  <2> QED
    BY <2>2, <2>3, <2>4, ReportedTypes
<1>3. ASSUME NEW s \in Source, Serve(s) PROVE PracticeTypes'
  <2>1. ASSUME NEW e \in StreamEvent, Written(s, e) PROVE written' \in Seq(StreamEvent)
    BY <2>1 DEF Written, PracticeTypes
  <2>2. \A where \in Stages : To(s, where) => stage' \in [Source -> Stages] /\ stage'[s] = where /\ \A t \in Source \ {s} : stage'[t] = stage[t]
    BY DEF To, PracticeTypes
  <2>3. CASE MonitorSubscribe(s)
    BY <2>2, <2>3 DEF MonitorSubscribe, PracticeTypes, Stages, Opening, Closing, HasQueue, keyboard, shown
  <2>4. CASE CountClient(s)
    <3>1. To(s, IF clients = 0 THEN "first" ELSE "counted") /\ At(s, "subscribed")
      BY <2>4 DEF CountClient
    <3> QED
      BY <2>2, <2>4, <3>1 DEF CountClient, PracticeTypes, Stages, Opening, Closing, HasQueue, keyboard, shown, At
  <2>5. CASE Enable(s)
    BY <2>2, <2>5 DEF Enable, PracticeTypes, Stages, Opening, Closing, HasQueue, keyboard, shown
  <2>6. CASE GetLayers(s)
    <3>1. LayersEvent(active) \in StreamEvent
      BY EventsAreEvents DEF PracticeTypes
    <3> QED
      BY <2>1, <2>2, <2>6, <3>1 DEF GetLayers, PracticeTypes, Stages, Opening, Closing, HasQueue, keyboard, shown, At
  <2>7. CASE OpenFails(s)
    BY <2>2, <2>7 DEF OpenFails, PracticeTypes, Stages, Opening, Closing, HasQueue, keyboard, shown, At
  <2>8. CASE Forward(s)
    <3>1. queues[s] \in Seq(StreamEvent) /\ queues[s] # <<>> /\ stage[s] \in HasQueue
      BY <2>8 DEF Forward, PracticeTypes, At, HasQueue
    <3>2. Head(queues[s]) \in StreamEvent /\ Tail(queues[s]) \in Seq(StreamEvent)
      BY <3>1
    <3> QED
      BY <2>1, <2>8, <3>1, <3>2 DEF Forward, PracticeTypes, shown, keyboard
  <2>9. CASE PageGone(s)
    BY <2>2, <2>9 DEF PageGone, PracticeTypes, Stages, Opening, Closing, HasQueue, keyboard, shown, At
  <2>10. CASE MonitorUnsubscribe(s)
    <3>1. To(s, IF At(s, "failed") THEN "unavailable" ELSE "unsubscribed")
      BY <2>10 DEF MonitorUnsubscribe
    <3> QED
      BY <2>2, <2>10, <3>1 DEF MonitorUnsubscribe, PracticeTypes, Stages, Opening, Closing, HasQueue, keyboard, shown
  <2>11. CASE DropClient(s)
    <3>1. written' \in Seq(StreamEvent)
      BY <2>1, <2>11, EventsAreEvents DEF DropClient, PracticeTypes
    <3>2. clients' \in Nat
      BY <2>11 DEF DropClient, PracticeTypes
    <3>3. stage[s] \notin HasQueue /\ \E where \in Stages \ HasQueue : To(s, where)
      BY <2>11 DEF DropClient, Stages, Closing, HasQueue, Opening
    <3>4. UNCHANGED <<queues, active, monitoring, stream, practice, drawn>>
      BY <2>11 DEF DropClient, keyboard, shown
    <3> QED
      BY <2>2, <3>1, <3>2, <3>3, <3>4 DEF PracticeTypes
  <2>12. CASE Disable(s)
    <3>1. written' \in Seq(StreamEvent)
      BY <2>1, <2>12, EventsAreEvents DEF Disable, PracticeTypes
    <3>2. monitoring' \in BOOLEAN
      BY <2>12 DEF Disable, PracticeTypes
    <3>3. stage[s] \notin HasQueue /\ To(s, "off")
      BY <2>12 DEF Disable, HasQueue, Opening
    <3>4. UNCHANGED <<queues, active, clients, stream, practice, drawn>>
      BY <2>12 DEF Disable, keyboard, shown
    <3> QED
      BY <2>2, <3>1, <3>2, <3>3, <3>4 DEF PracticeTypes, Stages, HasQueue, Opening
  <2> QED
    BY <1>3, <2>3, <2>4, <2>5, <2>6, <2>7, <2>8, <2>9, <2>10, <2>11, <2>12 DEF Serve
<1>4. ASSUME NEW s \in Source, StartPractice(s) PROVE PracticeTypes'
  <2>1. InitialPractice \in PracticeState
    BY DEF InitialPractice, PracticeState, Layers
  <2> QED
    BY <1>4, <2>1 DEF StartPractice, PracticeTypes, Stages, Opening, Closing, HasQueue, keyboard, At, To
<1>5. CASE StopPractice
  BY <1>5 DEF StopPractice, Stopped, PracticeTypes, keyboard, server
<1>6. CASE Receive
  <2>1. Head(written) \in StreamEvent /\ Tail(written) \in Seq(StreamEvent) /\ Head(written) # Unavailable
    BY <1>6, HeadThenTail DEF Receive, PracticeTypes
  <2>2. practice' \in PracticeState \cup {None}
    BY <1>6, <2>1, ReduceTypes DEF Receive, PracticeTypes
  <2> QED
    BY <1>6, <2>1, <2>2 DEF Receive, PracticeTypes, keyboard, server
<1>7. CASE ReceiveUnavailable
  BY <1>7 DEF ReceiveUnavailable, Stopped, PracticeTypes, keyboard, server
<1>8. CASE Draw
  BY <1>8 DEF Draw, PracticeTypes, keyboard, server
<1>9. CASE Clear
  <2>1. drawn \in PracticeState
    BY <1>9 DEF Clear, PracticeTypes
  <2>2. [drawn EXCEPT !.output = <<>>] \in PracticeState
    <3> DEFINE T == [text : Pos \cup Knob, encoder : BOOLEAN]
    <3>1. /\ drawn.pressed \in SUBSET Pos /\ drawn.ids \in Layers /\ drawn.highest \in Nat
          /\ drawn = [pressed |-> drawn.pressed, ids |-> drawn.ids, highest |-> drawn.highest, output |-> drawn.output]
      BY <2>1 DEF PracticeState
    <3>2. <<>> \in Seq(T)
      OBVIOUS
    <3>3. [drawn EXCEPT !.output = <<>>]
            = [pressed |-> drawn.pressed, ids |-> drawn.ids, highest |-> drawn.highest, output |-> <<>>]
      BY <3>1
    <3> QED
      BY <3>1, <3>2, <3>3 DEF PracticeState
  <2> QED
    BY <1>9, <2>2 DEF Clear, PracticeTypes, keyboard, server
<1>10. ASSUME NEW i \in 0 .. Len(Order) - 1, PickLayer(i) PROVE PracticeTypes'
  BY <1>10 DEF PickLayer, PracticeTypes, keyboard, server
<1>11. CASE UNCHANGED practiceVars
  BY <1>11 DEF practiceVars, PracticeTypes, keyboard, server, shown
<1>12. ASSUME NEW p \in Pos, Press(p) PROVE PracticeTypes'
  <2>1. TRUE \in BOOLEAN /\ IF TRUE THEN Press(p) ELSE Release(p)
    BY <1>12
  <2> QED
    BY <1>1, <2>1
<1>13. ASSUME NEW p \in Pos, Release(p) PROVE PracticeTypes'
  <2>1. FALSE \in BOOLEAN /\ IF FALSE THEN Press(p) ELSE Release(p)
    BY <1>13
  <2> QED
    BY <1>1, <2>1
<1> QED
  BY <1>2, <1>3, <1>4, <1>5, <1>6, <1>7, <1>8, <1>9, <1>10, <1>11, <1>12, <1>13 DEF PracticeNext

\* One stream moves on: what that does to the clients.
LEMMA Moves ==
  ASSUME PracticeTypes, StreamsInv, NEW s \in Source, NEW where \in Stages, To(s, where)
  PROVE  /\ stage' \in [Source -> Stages] /\ stage'[s] = where /\ \A t \in Source \ {s} : stage'[t] = stage[t]
         /\ (stage[s] \in Counting <=> where \in Counting) => IsFiniteSet(Counted') /\ clients = Cardinality(Counted')
         /\ stage[s] \notin Counting /\ where \in Counting =>
               IsFiniteSet(Counted') /\ clients + 1 = Cardinality(Counted')
         /\ stage[s] \in Counting /\ where \notin Counting =>
               clients > 0 /\ IsFiniteSet(Counted') /\ clients - 1 = Cardinality(Counted')
<1>1. stage' \in [Source -> Stages] /\ stage'[s] = where /\ \A t \in Source \ {s} : stage'[t] = stage[t]
  BY DEF To, PracticeTypes
<1>2. IsFiniteSet(Counted) /\ clients = Cardinality(Counted) /\ clients \in Nat
  BY DEF StreamsInv, PracticeTypes
<1>3. Counted = {t \in Source : stage[t] \in Counting} /\ Counted' = {t \in Source : stage'[t] \in Counting}
  BY DEF Counted
<1>4. ASSUME stage[s] \in Counting <=> where \in Counting PROVE Counted' = Counted
  BY <1>1, <1>3, <1>4
<1>5. ASSUME stage[s] \notin Counting, where \in Counting
      PROVE  IsFiniteSet(Counted') /\ clients + 1 = Cardinality(Counted')
  <2>1. Counted' = Counted \cup {s} /\ s \notin Counted
    BY <1>1, <1>3, <1>5
  <2> QED
    BY <1>2, <2>1, FS_AddElement
<1>6. ASSUME stage[s] \in Counting, where \notin Counting
      PROVE  clients > 0 /\ IsFiniteSet(Counted') /\ clients - 1 = Cardinality(Counted')
  <2>1. Counted' = Counted \ {s} /\ s \in Counted
    BY <1>1, <1>3, <1>6
  <2>2. IsFiniteSet(Counted') /\ Cardinality(Counted') = Cardinality(Counted) - 1
    BY <1>2, <2>1, FS_RemoveElement
  <2>3. Cardinality(Counted') \in Nat
    BY <2>2, FS_CardinalityType
  <2> QED
    BY <1>2, <2>2, <2>3
<1> QED
  BY <1>1, <1>2, <1>4, <1>5, <1>6

LEMMA StreamsStep ==
  ASSUME PracticeTypes, StreamsInv, [PracticeNext]_practiceVars
  PROVE  StreamsInv'
<1> USE DEF At
<1> DEFINE Due == \E t \in Source : stage[t] \in {"last", "lastFailed"}
<1>0. /\ IsFiniteSet(Counted) /\ clients = Cardinality(Counted) /\ clients \in Nat
      /\ stream # None => stage[stream] \notin {"closing", "unsubscribed", "last"}
      /\ stream \in Source \cup {None}
      /\ monitoring /\ ~undone => clients > 0 \/ Due
  BY DEF StreamsInv, PracticeTypes
<1>1. ASSUME UNCHANGED <<stage, clients, monitoring, undone>>, stream' = stream \/ stream' = None PROVE StreamsInv'
  <2>1. Counted' = Counted
    BY <1>1 DEF Counted
  <2> QED
    BY <1>0, <1>1, <2>1 DEF StreamsInv
<1>2. ASSUME NEW s \in Source, NEW where \in Stages, To(s, where), UNCHANGED <<clients, stream, undone>>,
             stage[s] \in Counting <=> where \in Counting,
             stage[s] \notin {"last", "lastFailed"}, monitoring' => monitoring \/ clients > 0,
             where \in {"closing", "unsubscribed", "last"} => stream # s
      PROVE  StreamsInv'
  <2>1. /\ stage'[s] = where /\ \A t \in Source \ {s} : stage'[t] = stage[t]
        /\ IsFiniteSet(Counted') /\ clients = Cardinality(Counted')
    BY <1>2, Moves
  <2>2. Due => Due'
    BY <1>2, <2>1
  <2>3. stream' # None => stage'[stream'] \notin {"closing", "unsubscribed", "last"}
    BY <1>0, <1>2, <2>1
  <2>4. monitoring' /\ ~undone' => clients' > 0 \/ Due'
    BY <1>0, <1>2, <2>2
  <2> QED
    BY <1>2, <2>1, <2>3, <2>4 DEF StreamsInv
<1>3. ASSUME NEW s \in Source, MonitorSubscribe(s) PROVE StreamsInv'
  <2>1. To(s, "subscribed") /\ stage[s] = "open" /\ UNCHANGED <<clients, stream, monitoring, undone>>
    BY <1>3 DEF MonitorSubscribe
  <2> QED
    BY <1>2, <2>1 DEF Stages, Opening, Counting
<1>4. ASSUME NEW s \in Source, CountClient(s) PROVE StreamsInv'
  <2>1. stage[s] = "subscribed" /\ clients' = clients + 1 /\ UNCHANGED <<stream, monitoring, undone>>
    BY <1>4 DEF CountClient, ghosts
  <2> DEFINE where == IF clients = 0 THEN "first" ELSE "counted"
  <2>2. To(s, where) /\ where \in Stages
    BY <1>4 DEF CountClient, Stages, Opening
  <2>3. stage[s] \notin Counting /\ where \in {"first", "counted"} /\ where \in Counting
    BY <2>1 DEF Counting
  <2> HIDE DEF where
  <2>4. /\ stage'[s] = where /\ \A t \in Source \ {s} : stage'[t] = stage[t]
        /\ IsFiniteSet(Counted') /\ clients + 1 = Cardinality(Counted')
    BY <2>2, <2>3, Moves
  <2>5. stream' # None => stage'[stream'] \notin {"closing", "unsubscribed", "last"}
    BY <1>0, <2>1, <2>3, <2>4
  <2>6. clients' > 0
    BY <1>0, <2>1
  <2> QED
    BY <2>1, <2>4, <2>5, <2>6 DEF StreamsInv
<1>5. ASSUME NEW s \in Source, Enable(s) PROVE StreamsInv'
  <2>1. stage[s] \in {"first", "counted"} /\ To(s, "entered") /\ UNCHANGED <<clients, stream, undone>>
    BY <1>5 DEF Enable, ghosts
  <2>2. clients > 0
    <3>1. s \in Counted
      BY <2>1 DEF Counted, Counting
    <3> QED
      BY <1>0, <3>1, FS_EmptySet
  <2> QED
    BY <1>2, <2>1, <2>2 DEF Stages, Opening, Counting
<1>6. ASSUME NEW s \in Source, GetLayers(s) \/ OpenFails(s) \/ PageGone(s) PROVE StreamsInv'
  <2>1. /\ stage[s] \in {"first", "entered", "streaming"} /\ UNCHANGED <<clients, stream, monitoring, undone>>
        /\ \E where \in {"streaming", "failed", "closing"} : To(s, where) /\ (where = "closing" => stream # s)
    BY <1>6 DEF GetLayers, OpenFails, PageGone, ghosts
  <2> QED
    BY <1>2, <2>1 DEF Stages, Closing, Counting
<1>7. ASSUME NEW s \in Source, Forward(s) PROVE StreamsInv'
  BY <1>1, <1>7 DEF Forward, ghosts
<1>8. ASSUME NEW s \in Source, MonitorUnsubscribe(s) PROVE StreamsInv'
  <2> DEFINE where == IF stage[s] = "failed" THEN "unavailable" ELSE "unsubscribed"
  <2>1. stage[s] \in {"failed", "closing"} /\ To(s, where) /\ UNCHANGED <<clients, stream, monitoring, undone>>
    BY <1>8 DEF MonitorUnsubscribe, ghosts
  <2>2. where = "unsubscribed" => stream # s
    BY <1>0, <2>1, NoneAssumption DEF NoneAssumption
  <2>3. where \in {"unavailable", "unsubscribed"}
    OBVIOUS
  <2> HIDE DEF where
  <2> QED
    BY <1>2, <2>1, <2>2, <2>3 DEF Stages, Closing, Counting
<1>9. ASSUME NEW s \in Source, DropClient(s) PROVE StreamsInv'
  <2> DEFINE where == IF clients' = 0 THEN IF stage[s] = "unavailable" THEN "lastFailed" ELSE "last" ELSE "off"
  <2>1. /\ stage[s] \in {"unsubscribed", "unavailable"} /\ To(s, where)
        /\ clients' = (IF clients > 0 THEN clients - 1 ELSE 0) /\ UNCHANGED <<stream, monitoring, undone>>
    BY <1>9 DEF DropClient, ghosts
  <2>2. where = "last" => stream # s
    BY <1>0, <2>1, NoneAssumption DEF NoneAssumption
  <2>3. where \in {"last", "lastFailed", "off"} /\ (where = "off" => clients' # 0)
    OBVIOUS
  <2> HIDE DEF where
  <2>4. stage[s] \in Counting /\ where \notin Counting /\ where \in Stages
    BY <2>1, <2>3 DEF Counting, Closing, Stages
  <2>5. /\ stage'[s] = where /\ \A t \in Source \ {s} : stage'[t] = stage[t]
        /\ IsFiniteSet(Counted') /\ clients > 0 /\ clients - 1 = Cardinality(Counted')
    BY <2>1, <2>4, Moves
  <2>6. clients' = Cardinality(Counted') /\ (clients' = 0 \/ clients' > 0)
    BY <1>0, <2>1, <2>5
  <2>7. clients' > 0 \/ Due'
    BY <2>3, <2>5, <2>6
  <2>8. stream' # None => stage'[stream'] \notin {"closing", "unsubscribed", "last"}
    BY <1>0, <2>1, <2>2, <2>3, <2>5
  <2> QED
    BY <2>5, <2>6, <2>7, <2>8 DEF StreamsInv
<1>10. ASSUME NEW s \in Source, Disable(s) PROVE StreamsInv'
  <2>1. stage[s] \in {"last", "lastFailed"} /\ To(s, "off") /\ UNCHANGED <<clients, stream>>
    BY <1>10 DEF Disable
  <2>2. /\ stage'[s] = "off" /\ \A t \in Source \ {s} : stage'[t] = stage[t]
        /\ IsFiniteSet(Counted') /\ clients = Cardinality(Counted')
    BY <2>1, Moves DEF Stages, Counting
  <2>3. ~(monitoring' /\ ~undone')
    BY <1>10 DEF Disable
  <2>4. stream' # None => stage'[stream'] \notin {"closing", "unsubscribed", "last"}
    BY <1>0, <2>1, <2>2
  <2> QED
    BY <2>1, <2>2, <2>3, <2>4 DEF StreamsInv
<1>11. ASSUME NEW s \in Source, StartPractice(s) PROVE StreamsInv'
  <2>1. stage[s] = "off" /\ To(s, "open") /\ UNCHANGED <<clients, monitoring, undone>> /\ stream' = s
    BY <1>11 DEF StartPractice
  <2>2. /\ stage'[s] = "open" /\ \A t \in Source \ {s} : stage'[t] = stage[t]
        /\ IsFiniteSet(Counted') /\ clients = Cardinality(Counted')
    BY <2>1, Moves DEF Stages, Counting
  <2>3. Due => Due'
    BY <2>1, <2>2
  <2>4. monitoring' /\ ~undone' => clients' > 0 \/ Due'
    BY <1>0, <2>1, <2>3
  <2> QED
    BY <2>1, <2>2, <2>4 DEF StreamsInv
<1>12. ASSUME NEW s \in Source, Serve(s) PROVE StreamsInv'
  BY <1>3, <1>4, <1>5, <1>6, <1>7, <1>8, <1>9, <1>10, <1>12 DEF Serve
<1>13. ASSUME NEW p \in Pos, Press(p) \/ Release(p) PROVE StreamsInv'
  BY <1>1, <1>13 DEF Press, Release
<1>14. ASSUME NEW c \in Knob, Turn(c) PROVE StreamsInv'
  BY <1>1, <1>14 DEF Turn
<1>15. CASE StopPractice \/ Receive \/ ReceiveUnavailable \/ Draw \/ Clear
  BY <1>1, <1>15 DEF StopPractice, Receive, ReceiveUnavailable, Draw, Clear, Stopped, server, ghosts
<1>16. ASSUME NEW i \in 0 .. Len(Order) - 1, PickLayer(i) PROVE StreamsInv'
  BY <1>1, <1>16 DEF PickLayer, server, ghosts
<1>17. CASE UNCHANGED practiceVars
  BY <1>1, <1>17 DEF practiceVars, server, ghosts
<1> QED
  BY <1>11, <1>12, <1>13, <1>14, <1>15, <1>16, <1>17 DEF PracticeNext

-----------------------------------------------------------------------------
(* The screen, the keyboard's steps. *)

LEMMA NothingOnTheWay ==
  ASSUME NEW ids, NEW on, NEW held
  PROVE  LayersInv(<<>>, ids) /\ KeysInv(<<>>, held, held) /\ CodesInv(<<>>, <<>>, on)
<1>1. DOMAIN <<>> = {}
  OBVIOUS
<1> QED
  BY <1>1 DEF LayersInv, KeysInv, CodesInv, OneEach

\* The stream the page has open.
LEMMA TheStream ==
  ASSUME PracticeTypes, ScreenInv, stream # None, stage[stream] \in Alive
  PROVE  /\ stream \in Source /\ written \in Seq(StreamEvent)
         /\ stage[stream] \in HasQueue => queues[stream] \in Seq(StreamEvent) /\ OnTheWay = written \o queues[stream]
         /\ stage[stream] \in HasQueue => stage[stream] \in Opening \cup {"streaming"}
         /\ Unheard => OnTheWay = <<>>
<1>1. stream \in Source /\ written \in Seq(StreamEvent)
  BY DEF PracticeTypes
<1>2. ASSUME stage[stream] \in HasQueue
      PROVE  queues[stream] \in Seq(StreamEvent) /\ OnTheWay = written \o queues[stream]
  BY <1>1, <1>2 DEF PracticeTypes, OnTheWay
<1>3. ASSUME Unheard PROVE OnTheWay = <<>>
  <2>1. stage[stream] \in HasQueue /\ queues[stream] = <<>> /\ stage[stream] # "streaming"
    BY <1>3 DEF Unheard, HasQueue, Opening
  <2>2. written = <<>>
    BY <2>1 DEF ScreenInv
  <2>3. <<>> \o <<>> = <<>>
    OBVIOUS
  <2> QED
    BY <1>2, <2>1, <2>2, <2>3
<1> QED
  BY <1>1, <1>2, <1>3 DEF HasQueue, Alive, Opening

\* A report comes behind what is on its way; one that is not made is missed, or the stream is unheard.
LEMMA ReportOnTheWay ==
  ASSUME PracticeTypes, ScreenInv, stream # None, stage[stream] \in Alive,
         NEW evs \in Seq(StreamEvent), evs # <<>>, Report(evs), UNCHANGED <<monitoring, stage, stream, written>>
  PROVE  /\ Reported' => Reported
         /\ Reported' /\ monitoring => OnTheWay' = written \o (queues[stream] \o evs)
         /\ Reported' /\ ~monitoring => Unheard'
         /\ Unheard' => before' = down' /\ OnTheWay' = <<>> /\ stage[stream] # "streaming"
<1>1. /\ stream \in Source
      /\ stage[stream] \in HasQueue => stage[stream] \in Opening \cup {"streaming"}
                                       /\ queues[stream] \in Seq(StreamEvent) /\ OnTheWay = written \o queues[stream]
      /\ Unheard => OnTheWay = <<>>
  BY TheStream
<1>2. \A s \in Source :
         stage[s] \in HasQueue => queues'[s] = IF monitoring THEN queues[s] \o evs ELSE queues[s]
  BY ReportIs
<1>3. missed' <=> missed \/ (~monitoring /\ ~Unheard /\ stage[stream] \in Opening \cup {"streaming"})
  BY DEF Report
<1>4. Reported' => Reported
  BY <1>3 DEF Reported
<1>5. ASSUME stage[stream] \in HasQueue
      PROVE  OnTheWay' = written \o (IF monitoring THEN queues[stream] \o evs ELSE queues[stream])
  BY <1>1, <1>2, <1>5 DEF OnTheWay
<1>6. ASSUME Reported', ~monitoring PROVE Unheard'
  <2>1. stage[stream] \in HasQueue /\ ~missed'
    BY <1>6 DEF Reported
  <2>2. Unheard
    BY <1>1, <1>3, <1>6, <2>1
  <2> QED
    BY <1>1, <1>2, <1>6, <2>1, <2>2 DEF Unheard
<1>7. ASSUME Unheard' PROVE ~monitoring /\ Unheard /\ before' = down' /\ OnTheWay' = OnTheWay /\ stage[stream] # "streaming"
  <2>1. stage[stream] \in Opening /\ stage[stream] \in HasQueue /\ queues'[stream] = <<>>
    BY <1>7 DEF Unheard, HasQueue
  <2>2. ASSUME monitoring PROVE FALSE
    <3> DEFINE q == queues[stream]
    <3>1. q \in Seq(StreamEvent) /\ q \o evs = <<>>
      BY <1>1, <1>2, <2>1, <2>2
    <3> HIDE DEF q
    <3>2. Len(q \o evs) = Len(q) + Len(evs) /\ Len(evs) >= 1 /\ Len(q) \in Nat
      BY <3>1, InARow
    <3>3. Len(<<>>) = 0
      OBVIOUS
    <3> QED
      BY <3>1, <3>2, <3>3
  <2>3. queues[stream] = <<>>
    BY <1>1, <1>2, <2>1, <2>2
  <2>4. Unheard
    BY <2>1, <2>3 DEF Unheard
  <2>5. before' = down'
    BY <2>2, <2>4 DEF Report
  <2> QED
    BY <1>1, <1>5, <2>1, <2>2, <2>4, <2>5 DEF Opening
<1> QED
  BY <1>1, <1>4, <1>5, <1>6, <1>7 DEF Reported

\* What the screen shows goes on to hold when the stream gets behind, or loses, nothing.
LEMMA Unseen ==
  ASSUME ScreenInv, UNCHANGED <<down, turning, active, stream, practice, raced, picked, layerIdx, before>>,
         stream # None /\ stage'[stream] \in Alive =>
            /\ stage[stream] \in Alive
            /\ stage'[stream] = "streaming" <=> stage[stream] = "streaming"
            /\ OnTheWay' = OnTheWay /\ (Reported' <=> Reported) /\ (Unheard' => Unheard)
            /\ stage'[stream] = "streaming" \/ written' = written
  PROVE  ScreenInv'
<1>1. (before \subseteq down /\ down \subseteq Pos /\ turning \subseteq Knob)'
  BY DEF ScreenInv
<1>2. CodesOn' = CodesOn
  BY DEF CodesOn
<1> SUFFICES ASSUME stream # None, stage'[stream] \in Alive
             PROVE  ScreenInv'
  BY <1>1 DEF ScreenInv
<1> QED
  BY <1>1, <1>2 DEF ScreenInv

\* A report that keeps what is on its way in step with the keyboard keeps the screen.
LEMMA ReportOnScreen ==
  ASSUME PracticeTypes, ScreenInv, NEW evs \in Seq(StreamEvent), evs # <<>>, Report(evs),
         UNCHANGED <<monitoring, stage, stream, written, practice, raced, picked, layerIdx>>,
         (down \subseteq Pos /\ turning \subseteq Knob)',
         ASSUME stream # None, stage[stream] \in Alive, Reported, monitoring, LayersInv(OnTheWay, active),
                NEW v, v = written \o (queues[stream] \o evs)
         PROVE  /\ LayersInv(v, active')
                /\ (\A k \in DOMAIN v : v[k].type # "layers") =>
                      active' = active /\ \A k \in DOMAIN OnTheWay : OnTheWay[k].type # "layers"
                /\ \A pr : KeysInv(OnTheWay, pr, down \ before) => KeysInv(v, pr, (down \ before)')
                /\ \A out : CodesInv(OnTheWay, out, CodesOn) => CodesInv(v, out, CodesOn')
  PROVE  ScreenInv'
<1>a. (before \subseteq down /\ down \subseteq Pos /\ turning \subseteq Knob)'
  BY DEF ScreenInv, Report
<1> SUFFICES ASSUME stream # None, stage[stream] \in Alive PROVE ScreenInv'
  BY <1>a DEF ScreenInv
<1>1. /\ Reported' => Reported
      /\ Reported' /\ monitoring => OnTheWay' = written \o (queues[stream] \o evs)
      /\ Reported' /\ ~monitoring => Unheard'
      /\ Unheard' => before' = down' /\ OnTheWay' = <<>> /\ stage[stream] # "streaming"
  BY ReportOnTheWay
<1>b. /\ (stage[stream] # "streaming" => written = <<>>)'
      /\ (practice # None /\ ~raced /\ stage[stream] # "streaming" => practice.pressed = {} /\ practice.output = <<>>)'
  BY DEF ScreenInv
<1>2. CASE ~Reported'
  BY <1>a, <1>b, <1>1, <1>2 DEF ScreenInv
<1>3. CASE Reported' /\ ~monitoring
  <2>1. (before = down)' /\ OnTheWay' = <<>> /\ stage[stream] # "streaming"
    BY <1>1, <1>3
  <2>2. (down \ before)' = {}
    BY <2>1
  <2>3. LayersInv(<<>>, active') /\ KeysInv(<<>>, {}, {}) /\ CodesInv(<<>>, <<>>, CodesOn')
    BY NothingOnTheWay
  <2>4. (practice # None /\ ~raced =>
           /\ KeysInv(OnTheWay, practice.pressed, down \ before)
           /\ CodesInv(OnTheWay, practice.output, CodesOn))'
    BY <1>b, <2>1, <2>2, <2>3
  <2>5. LayersInv(OnTheWay, active)'
    BY <2>1, <2>3
  <2> QED
    BY <1>a, <1>b, <2>1, <2>4, <2>5 DEF ScreenInv
<1>4. CASE Reported' /\ monitoring
  <2>0. Reported
    BY <1>1, <1>4
  <2>1. LayersInv(OnTheWay, active)
    BY <2>0 DEF ScreenInv
  <2>2. PICK v : v = written \o (queues[stream] \o evs)
    OBVIOUS
  <2>3. /\ LayersInv(v, active')
        /\ (\A k \in DOMAIN v : v[k].type # "layers") =>
              active' = active /\ \A k \in DOMAIN OnTheWay : OnTheWay[k].type # "layers"
        /\ \A pr : KeysInv(OnTheWay, pr, down \ before) => KeysInv(v, pr, (down \ before)')
        /\ \A out : CodesInv(OnTheWay, out, CodesOn) => CodesInv(v, out, CodesOn')
    BY <1>4, <2>0, <2>1, <2>2
  <2>4. OnTheWay' = v
    BY <1>1, <1>4, <2>2
  <2>5. (practice # None /\ ~raced =>
           /\ KeysInv(OnTheWay, practice.pressed, down \ before)
           /\ CodesInv(OnTheWay, practice.output, CodesOn))'
    BY <2>0, <2>3, <2>4 DEF ScreenInv
  <2>6. (stage[stream] = "streaming" /\ (\A k \in DOMAIN OnTheWay : OnTheWay[k].type # "layers") =>
           /\ picked \/ layerIdx = Highest(active)
           /\ practice # None /\ ~raced => practice.ids = active /\ practice.highest = Highest(active))'
    BY <2>0, <2>3, <2>4 DEF ScreenInv
  <2>7. LayersInv(OnTheWay, active)'
    BY <2>3, <2>4
  <2>8. Unheard' => (before = down)'
    BY <1>1
  <2> QED
    BY <1>a, <1>b, <2>5, <2>6, <2>7, <2>8 DEF ScreenInv
<1> QED
  BY <1>2, <1>3, <1>4

LEMMA KeyOnScreen ==
  ASSUME PracticeTypes, ScreenInv, NEW p \in Pos, NEW b \in BOOLEAN,
         IF b THEN Press(p) ELSE Release(p)
  PROVE  ScreenInv'
<1> DEFINE e == KeyEvent(p, b)
           a == After(p, b)
           evs == <<e, a>>
<1>1. /\ active' \in Layers /\ a \in StreamEvent /\ e \in StreamEvent
      /\ Report(evs)
      /\ UNCHANGED <<turning, monitoring, clients, stage, lock, stream, written, shown, undone>>
      /\ (p \notin DOMAIN LayerKey => active' = active)
  BY KeyTypes
<1>2. before \subseteq down /\ down \subseteq Pos /\ turning \subseteq Knob
  BY DEF ScreenInv
<1>3. /\ (down \subseteq Pos /\ turning \subseteq Knob)'
      /\ monitoring => (down \ before)' = (IF b THEN (down \ before) \cup {p} ELSE (down \ before) \ {p})
      /\ down' = (IF b THEN down \cup {p} ELSE down \ {p})
      /\ b => p \notin down
  <2>1. CASE b
    <3>1. p \notin down /\ down' = down \cup {p} /\ (monitoring => before' = before)
      BY <1>1, <1>2, <2>1 DEF Press, Report
    <3> QED
      BY <1>1, <1>2, <2>1, <3>1
  <2>2. CASE ~b
    <3>1. down' = down \ {p} /\ (monitoring => before' = before \ {p})
      BY <1>1, <1>2, <2>2 DEF Release, Report
    <3> QED
      BY <1>1, <1>2, <2>2, <3>1
  <2> QED
    BY <2>1, <2>2
<1>4. /\ p \in DOMAIN LayerKey => CodesOn' = CodesOn /\ a = LayersEvent(active')
      /\ p \notin DOMAIN LayerKey =>
            /\ CodesOn' = (IF b THEN CodesOn \cup {p} ELSE CodesOn \ {p}) /\ a = KeycodeEvent(p, b)
            /\ b => p \notin CodesOn
  <2>1. p \notin turning /\ turning' = turning
    BY <1>1, <1>2, PracticeAssumption DEF PracticeAssumption
  <2>2. CASE b
    BY <1>3, <2>1, <2>2 DEF CodesOn, After
  <2>3. CASE ~b
    BY <1>3, <2>1, <2>3 DEF CodesOn, After
  <2> QED
    BY <2>2, <2>3
<1>5. e.type = "key" /\ (p \in DOMAIN LayerKey => a.type = "layers") /\ (p \notin DOMAIN LayerKey => a.type = "keycode")
  BY DEF KeyEvent, After, LayersEvent, KeycodeEvent
<1>6. evs \in Seq(StreamEvent) /\ evs # <<>>
  BY <1>1
<1>7. ASSUME stream # None, stage[stream] \in Alive, Reported, monitoring,
             LayersInv(OnTheWay, active), NEW v, v = written \o (queues[stream] \o evs)
      PROVE  /\ LayersInv(v, active')
             /\ (\A k \in DOMAIN v : v[k].type # "layers") =>
                   active' = active /\ \A k \in DOMAIN OnTheWay : OnTheWay[k].type # "layers"
             /\ \A pr : KeysInv(OnTheWay, pr, down \ before) => KeysInv(v, pr, (down \ before)')
             /\ \A out : CodesInv(OnTheWay, out, CodesOn) => CodesInv(v, out, CodesOn')
  <2>1. /\ written \in Seq(StreamEvent) /\ queues[stream] \in Seq(StreamEvent)
        /\ OnTheWay = written \o queues[stream]
    BY <1>7, TheStream DEF Reported
  <2> HIDE DEF e, a
  <2>2. PICK u \in Seq(StreamEvent) : Behind(OnTheWay, e, written \o u) /\ Behind(written \o u, a, v)
    BY <1>1, <1>7, <2>1, TwoReports DEF evs
  <2> DEFINE w == written \o u
  <2>3. Behind(OnTheWay, e, w) /\ Behind(w, a, v)
    BY <2>2
  <2> HIDE DEF w
  <2>4. LayersInv(w, active)
    BY <1>5, <1>7, <2>3, OtherThanLayers
  <2>5. LayersInv(v, active')
    <3>1. CASE p \in DOMAIN LayerKey
      BY <1>4, <2>3, <3>1, LayersReported
    <3>2. CASE p \notin DOMAIN LayerKey
      BY <1>1, <1>5, <2>3, <2>4, <3>2, OtherThanLayers
    <3> QED
      BY <3>1, <3>2
  <2>6. ASSUME \A k \in DOMAIN v : v[k].type # "layers"
        PROVE  active' = active /\ \A k \in DOMAIN OnTheWay : OnTheWay[k].type # "layers"
    <3>1. a.type # "layers" /\ \A k \in DOMAIN w : w[k].type # "layers"
      BY <2>3, <2>6 DEF Behind
    <3>2. \A k \in DOMAIN OnTheWay : OnTheWay[k].type # "layers"
      BY <2>3, <3>1 DEF Behind
    <3> QED
      BY <1>1, <1>5, <3>1, <3>2
  <2>7. ASSUME NEW pr, KeysInv(OnTheWay, pr, down \ before) PROVE KeysInv(v, pr, (down \ before)')
    <3>1. KeysInv(w, pr, IF b THEN (down \ before) \cup {p} ELSE (down \ before) \ {p})
      BY <2>3, <2>7, KeyReported DEF e
    <3>2. KeysInv(w, pr, (down \ before)')
      BY <1>3, <1>7, <3>1
    <3>3. a.type # "key"
      BY <1>5
    <3> QED
      BY <2>3, <3>2, <3>3, OtherThanKey
  <2>8. ASSUME NEW out, CodesInv(OnTheWay, out, CodesOn) PROVE CodesInv(v, out, CodesOn')
    <3>1. CodesInv(w, out, CodesOn)
      BY <1>5, <2>3, <2>8, OtherThanCode
    <3>2. CASE p \in DOMAIN LayerKey
      BY <1>4, <1>5, <2>3, <3>1, <3>2, OtherThanCode
    <3>3. CASE p \notin DOMAIN LayerKey
      <4>1. Behind(w, KeycodeEvent(p, b), v) /\ (b => p \notin CodesOn)
        BY <1>4, <2>3, <3>3
      <4>2. CodesInv(v, out, IF b THEN CodesOn \cup {p} ELSE CodesOn \ {p})
        BY <3>1, <4>1, CodeReported
      <4> QED
        BY <1>4, <3>3, <4>2
    <3> QED
      BY <3>2, <3>3
  <2> QED
    BY <2>5, <2>6, <2>7, <2>8
<1> HIDE DEF evs
<1>8. UNCHANGED <<monitoring, stage, stream, written, practice, raced, picked, layerIdx>>
  BY <1>1 DEF shown
<1> QED
  BY <1>1, <1>3, <1>6, <1>7, <1>8, ReportOnScreen

LEMMA TurnOnScreen ==
  ASSUME PracticeTypes, ScreenInv, NEW c \in Knob, Turn(c)
  PROVE  ScreenInv'
<1> DEFINE b == c \notin turning
           e == KeycodeEvent(c, b)
           evs == <<e>>
<1>1. /\ turning' = (IF b THEN turning \cup {c} ELSE turning \ {c}) /\ Report(evs)
      /\ UNCHANGED <<down, active, monitoring, stage, stream, written, practice, raced, picked, layerIdx>>
  BY DEF Turn, shown
<1>2. before \subseteq down /\ down \subseteq Pos /\ turning \subseteq Knob
  BY DEF ScreenInv
<1>3. (down \subseteq Pos /\ turning \subseteq Knob)' /\ (monitoring => (down \ before)' = down \ before)
  BY <1>1, <1>2 DEF Report
<1>4. CodesOn' = (IF b THEN CodesOn \cup {c} ELSE CodesOn \ {c}) /\ (b => c \notin CodesOn)
  <2>1. c \notin down
    BY <1>2, PracticeAssumption DEF PracticeAssumption
  <2> QED
    BY <1>1, <2>1 DEF CodesOn
<1>5. b \in BOOLEAN /\ c \in Pos \cup Knob
  OBVIOUS
<1>6. e \in StreamEvent /\ e.type = "keycode"
  <2> HIDE DEF b
  <2> QED
    BY <1>5, EventsAreEvents DEF KeycodeEvent
<1>7. evs \in Seq(StreamEvent) /\ evs # <<>>
  BY <1>6
<1>8. ASSUME stream # None, stage[stream] \in Alive, Reported, monitoring,
             LayersInv(OnTheWay, active), NEW v, v = written \o (queues[stream] \o evs)
      PROVE  /\ LayersInv(v, active')
             /\ (\A k \in DOMAIN v : v[k].type # "layers") =>
                   active' = active /\ \A k \in DOMAIN OnTheWay : OnTheWay[k].type # "layers"
             /\ \A pr : KeysInv(OnTheWay, pr, down \ before) => KeysInv(v, pr, (down \ before)')
             /\ \A out : CodesInv(OnTheWay, out, CodesOn) => CodesInv(v, out, CodesOn')
  <2>1. /\ written \in Seq(StreamEvent) /\ queues[stream] \in Seq(StreamEvent)
        /\ OnTheWay = written \o queues[stream]
    BY <1>8, TheStream DEF Reported
  <2> HIDE DEF e, b
  <2>2. Behind(OnTheWay, e, v)
    BY <1>6, <1>8, <2>1, ComesBehind DEF evs
  <2>3. LayersInv(v, active')
    <3>1. e.type # "layers" /\ active' = active
      BY <1>1, <1>6
    <3> QED
      BY <1>8, <2>2, <3>1, OtherThanLayers
  <2>4. ASSUME \A k \in DOMAIN v : v[k].type # "layers"
        PROVE  active' = active /\ \A k \in DOMAIN OnTheWay : OnTheWay[k].type # "layers"
    BY <1>1, <2>2, <2>4 DEF Behind
  <2>5. ASSUME NEW pr, KeysInv(OnTheWay, pr, down \ before) PROVE KeysInv(v, pr, (down \ before)')
    <3>1. e.type # "key"
      BY <1>6
    <3>2. KeysInv(v, pr, down \ before)
      BY <2>2, <2>5, <3>1, OtherThanKey
    <3> QED
      BY <1>3, <1>8, <3>2
  <2>6. ASSUME NEW out, CodesInv(OnTheWay, out, CodesOn) PROVE CodesInv(v, out, CodesOn')
    <3>1. CodesInv(v, out, IF b THEN CodesOn \cup {c} ELSE CodesOn \ {c})
      BY <1>4, <1>5, <2>2, <2>6, CodeReported DEF e
    <3> QED
      BY <1>4, <3>1
  <2> QED
    BY <2>3, <2>4, <2>5, <2>6
<1> HIDE DEF evs
<1> QED
  BY <1>1, <1>3, <1>7, <1>8, ReportOnScreen
-----------------------------------------------------------------------------
(* The screen, the server's steps. *)

\* The stream is subscribed: nothing is on its way, and the keys that are held count as held before.
LEMMA SubscribeOnScreen ==
  ASSUME PracticeTypes, ScreenInv, stream # None,
         UNCHANGED <<down, turning, active, stream, written, practice, raced, picked, layerIdx>>,
         before' = down, stage[stream] = "open", stage'[stream] = "subscribed", queues'[stream] = <<>>
  PROVE  ScreenInv'
<1>1. /\ written = <<>> /\ down \subseteq Pos /\ turning \subseteq Knob
      /\ practice # None /\ ~raced => practice.pressed = {} /\ practice.output = <<>>
  BY DEF ScreenInv, Alive
<1>2. OnTheWay' = <<>>
  <2>1. <<>> \o <<>> = <<>>
    OBVIOUS
  <2> QED
    BY <1>1, <2>1 DEF OnTheWay
<1>3. (down \ before)' = {}
  OBVIOUS
<1>4. LayersInv(<<>>, active) /\ KeysInv(<<>>, {}, {}) /\ CodesInv(<<>>, <<>>, CodesOn')
  BY NothingOnTheWay
<1>5. (practice # None /\ ~raced =>
         /\ KeysInv(OnTheWay, practice.pressed, down \ before)
         /\ CodesInv(OnTheWay, practice.output, CodesOn))'
  BY <1>1, <1>2, <1>3, <1>4
<1>6. LayersInv(OnTheWay, active)'
  BY <1>2, <1>4
<1> QED
  BY <1>1, <1>5, <1>6 DEF ScreenInv

\* Another stream is served.
LEMMA OtherOnScreen ==
  ASSUME PracticeTypes, ScreenInv, NEW s \in Source, Serve(s), s # stream
  PROVE  ScreenInv'
<1>1. UNCHANGED <<down, turning, active, stream, written, practice, raced, picked, layerIdx, before, missed>>
  BY DEF Serve, MonitorSubscribe, CountClient, Enable, GetLayers, OpenFails, Forward, PageGone,
         MonitorUnsubscribe, DropClient, Disable, keyboard, shown, ghosts, Written
<1> SUFFICES ASSUME stream # None, stage'[stream] \in Alive
             PROVE  ScreenInv'
  BY <1>1, Unseen
<1>2. stream \in Source
  BY DEF PracticeTypes
<1>3. stage'[stream] = stage[stream]
  <2>1. \A where : To(s, where) => stage'[stream] = stage[stream]
    BY <1>2 DEF To, PracticeTypes
  <2> QED
    BY <2>1 DEF Serve, MonitorSubscribe, CountClient, Enable, GetLayers, OpenFails, Forward, PageGone,
         MonitorUnsubscribe, DropClient, Disable
<1>4. queues'[stream] = queues[stream]
  BY <1>2 DEF Serve, MonitorSubscribe, CountClient, Enable, GetLayers, OpenFails, Forward, PageGone,
         MonitorUnsubscribe, DropClient, Disable, PracticeTypes
<1>5. OnTheWay' = OnTheWay /\ (Reported' <=> Reported) /\ (Unheard' => Unheard)
  BY <1>1, <1>3, <1>4 DEF OnTheWay, Reported, Unheard
<1> QED
  BY <1>1, <1>3, <1>5, Unseen

\* The stream of the page is served.
LEMMA StreamOnScreen ==
  ASSUME PracticeTypes, ScreenInv, NEW s \in Source, Serve(s), s = stream
  PROVE  ScreenInv'
<1> USE DEF At
<1>1. stream # None /\ stream \in Source
  BY NoneAssumption DEF NoneAssumption
<1>2. \A where : To(s, where) => stage'[stream] = where
  BY <1>1 DEF To, PracticeTypes
<1>3. CASE MonitorSubscribe(s)
  <2>1. /\ UNCHANGED <<down, turning, active, stream, written, practice, raced, picked, layerIdx>>
        /\ before' = down /\ stage[stream] = "open" /\ stage'[stream] = "subscribed"
        /\ queues'[stream] = <<>>
    BY <1>1, <1>2, <1>3 DEF MonitorSubscribe, keyboard, shown, PracticeTypes
  <2> QED
    BY <1>1, <2>1, SubscribeOnScreen
<1>4. CASE CountClient(s) \/ Enable(s)
  <2>1. /\ UNCHANGED <<down, turning, active, stream, written, practice, raced, picked, layerIdx, queues, before, missed>>
        /\ stage[stream] \in {"subscribed", "first", "counted"}
    BY <1>4 DEF CountClient, Enable, keyboard, shown, ghosts
  <2>2. \E where \in {"first", "counted", "entered"} : To(s, where)
    BY <1>4 DEF CountClient, Enable
  <2>3. stage'[stream] \in {"first", "counted", "entered"}
    BY <1>2, <2>2
  <2>4. /\ stage[stream] \in Alive /\ stage[stream] \in HasQueue /\ stage'[stream] \in HasQueue
        /\ stage[stream] # "streaming" /\ stage'[stream] # "streaming"
    BY <2>1, <2>3 DEF Alive, HasQueue, Opening
  <2>5. OnTheWay' = OnTheWay /\ (Reported' <=> Reported) /\ (Unheard' => Unheard)
    BY <2>1, <2>3, <2>4 DEF OnTheWay, Reported, Unheard, Opening
  <2> QED
    BY <2>1, <2>4, <2>5, Unseen
<1>6. CASE GetLayers(s)
  <2> DEFINE e == LayersEvent(active)
  <2>1. /\ UNCHANGED <<down, turning, active, stream, practice, raced, picked, layerIdx, before, queues, missed>>
        /\ stage[stream] = "entered" /\ stage'[stream] = "streaming" /\ written' = Append(written, e)
    BY <1>2, <1>6 DEF GetLayers, keyboard, shown, ghosts, Written
  <2>2. stage[stream] \in Alive /\ stage[stream] \in HasQueue /\ stage'[stream] \in HasQueue
    BY <2>1 DEF Alive, HasQueue, Opening
  <2>3. (Reported' <=> Reported) /\ ~Unheard' /\ (before \subseteq down /\ down \subseteq Pos /\ turning \subseteq Knob)'
    BY <2>1, <2>2 DEF Reported, Unheard, Opening, ScreenInv
  <2> SUFFICES ASSUME Reported PROVE ScreenInv'
    BY <2>1, <2>3 DEF ScreenInv
  <2>4. queues[stream] \in Seq(StreamEvent) /\ OnTheWay = written \o queues[stream] /\ written = <<>>
    BY <1>1, <2>1, <2>2, TheStream DEF ScreenInv
  <2>5. e \in StreamEvent
    BY EventsAreEvents DEF PracticeTypes
  <2> HIDE DEF e
  <2>6. OnTheWay = queues[stream] /\ OnTheWay' = <<e>> \o queues[stream]
    <3>1. written' = <<e>>
      BY <2>1, <2>4, <2>5
    <3>2. OnTheWay' = written' \o queues[stream]
      BY <2>1, <2>2 DEF OnTheWay
    <3>3. <<>> \o queues[stream] = queues[stream]
      BY <2>4
    <3> QED
      BY <2>4, <3>1, <3>2, <3>3
  <2>7. InFront(e, OnTheWay, OnTheWay')
    BY <2>4, <2>5, <2>6, PutInFront
  <2>8. LayersInv(OnTheWay, active)
    BY <1>1, <2>2 DEF ScreenInv
  <2>9. LayersInv(OnTheWay', active') /\ \E k \in DOMAIN OnTheWay' : OnTheWay'[k].type = "layers"
    BY <2>1, <2>7, <2>8, LayersFirst DEF e
  <2>10. e.type = "layers"
    BY DEF e, LayersEvent
  <2>11. ASSUME practice # None, ~raced
         PROVE  KeysInv(OnTheWay', practice.pressed, down \ before) /\ CodesInv(OnTheWay', practice.output, CodesOn)
    <3>1. KeysInv(OnTheWay, practice.pressed, down \ before) /\ CodesInv(OnTheWay, practice.output, CodesOn)
      BY <1>1, <2>2, <2>11 DEF ScreenInv
    <3>2. e.type # "key" /\ e.type # "keycode"
      BY <2>10
    <3>3. KeysInv(OnTheWay', practice.pressed, down \ before)
      BY <2>7, <3>1, <3>2, TakesNoKey
    <3>4. CodesInv(OnTheWay', practice.output, CodesOn)
      BY <2>7, <3>1, <3>2, NoCodeFirst
    <3> QED
      BY <3>3, <3>4
  <2>12. (practice # None /\ ~raced =>
         /\ KeysInv(OnTheWay, practice.pressed, down \ before)
         /\ CodesInv(OnTheWay, practice.output, CodesOn))'
    BY <2>1, <2>11 DEF CodesOn
  <2> QED
    BY <2>1, <2>3, <2>9, <2>12 DEF ScreenInv
<1>7. CASE Forward(s)
  <2>1. /\ UNCHANGED <<down, turning, active, stream, practice, raced, picked, layerIdx, before, stage, missed>>
        /\ stage[stream] = "streaming" /\ queues[stream] # <<>>
        /\ written' = Append(written, Head(queues[stream])) /\ queues'[stream] = Tail(queues[stream])
    BY <1>1, <1>7 DEF Forward, keyboard, shown, ghosts, Written, PracticeTypes
  <2>2. stage[stream] \in Alive /\ stage[stream] \in HasQueue
    BY <2>1 DEF Alive, HasQueue
  <2>3. written \in Seq(StreamEvent) /\ queues[stream] \in Seq(StreamEvent) /\ OnTheWay = written \o queues[stream]
    BY <1>1, <2>2, TheStream
  <2>4. OnTheWay' = OnTheWay
    <3> DEFINE q == queues[stream]
    <3>0. written \in Seq(StreamEvent) /\ q \in Seq(StreamEvent) /\ q # <<>>
      BY <2>1, <2>3
    <3> HIDE DEF q
    <3>1. Append(written, Head(q)) \o Tail(q) = written \o q
      BY <3>0, Forwarded
    <3>2. OnTheWay' = written' \o queues'[stream]
      BY <2>1, <2>2 DEF OnTheWay
    <3> QED
      BY <2>1, <2>3, <3>1, <3>2 DEF q
  <2>5. (Reported' <=> Reported) /\ ~Unheard'
    BY <2>1, <2>2 DEF Reported, Unheard, Opening
  <2> QED
    BY <2>1, <2>2, <2>4, <2>5, Unseen
<1>8. CASE OpenFails(s) \/ MonitorUnsubscribe(s) \/ DropClient(s) \/ Disable(s)
  <2>1. UNCHANGED <<down, turning, active, stream, practice, raced, picked, layerIdx, before>>
    BY <1>8 DEF OpenFails, MonitorUnsubscribe, DropClient, Disable, keyboard, shown, ghosts
  <2>2. \E where \in {"failed", "unavailable", "unsubscribed", "last", "lastFailed", "off"} : To(s, where)
    BY <1>8 DEF OpenFails, MonitorUnsubscribe, DropClient, Disable
  <2>3. stage'[stream] \notin Alive
    BY <1>2, <2>2 DEF Alive, Opening
  <2> QED
    BY <2>1, <2>3, Unseen
<1>9. ~PageGone(s)
  BY DEF PageGone
<1> QED
  BY <1>3, <1>4, <1>6, <1>7, <1>8, <1>9 DEF Serve
-----------------------------------------------------------------------------
(* The screen, the page's steps, and the theorem. *)

LEMMA StartOnScreen ==
  ASSUME PracticeTypes, ScreenInv, NEW s \in Source, StartPractice(s)
  PROVE  ScreenInv'
<1>1. /\ UNCHANGED <<down, turning, before>>
      /\ practice' = InitialPractice /\ written' = <<>> /\ stage'[stream'] = "open"
  BY DEF StartPractice, keyboard, To, PracticeTypes
<1>2. ~Reported' /\ ~Unheard'
  BY <1>1 DEF Reported, Unheard, HasQueue, Opening
<1>3. practice'.pressed = {} /\ practice'.output = <<>>
  BY <1>1 DEF InitialPractice
<1> QED
  BY <1>1, <1>2, <1>3 DEF ScreenInv

LEMMA ReceiveOnScreen ==
  ASSUME PracticeTypes, ScreenInv, Receive
  PROVE  ScreenInv'
<1> DEFINE e == Head(written)
           q == queues[stream]
           w == Tail(written) \o q
           v == written \o q
           out == practice.output
<1>1. /\ UNCHANGED <<down, turning, active, queues, stage, stream, raced, before, missed>>
      /\ written # <<>> /\ e # Unavailable /\ written' = Tail(written)
      /\ practice' = IF practice = None THEN None ELSE Reduce(practice, e)
      /\ e.type = "layers" => layerIdx' = FollowIndex(e.highest) /\ picked' = FALSE
      /\ e.type # "layers" => UNCHANGED <<layerIdx, picked>>
  BY DEF Receive, keyboard, server, ghosts
<1>2. (before \subseteq down /\ down \subseteq Pos /\ turning \subseteq Knob)'
  BY <1>1 DEF ScreenInv
<1> SUFFICES ASSUME stream # None, stage[stream] \in Alive PROVE ScreenInv'
  BY <1>1, <1>2 DEF ScreenInv
<1>3. stage[stream] = "streaming" /\ stage[stream] \in HasQueue /\ (Reported' <=> Reported) /\ ~Unheard'
  <2>1. stage[stream] = "streaming"
    BY <1>1 DEF ScreenInv
  <2> QED
    BY <1>1, <2>1 DEF HasQueue, Opening, Reported, Unheard
<1> SUFFICES ASSUME Reported PROVE ScreenInv'
  BY <1>1, <1>2, <1>3 DEF ScreenInv
<1>4. written \in Seq(StreamEvent) /\ q \in Seq(StreamEvent) /\ OnTheWay = v
  BY <1>3, TheStream
<1>5. e \in StreamEvent /\ InFront(e, w, v)
  BY <1>1, <1>4, TakesFirst
<1>6. OnTheWay' = w
  BY <1>1, <1>3 DEF OnTheWay
<1> HIDE DEF w, v, e, q
<1>7. /\ LayersInv(v, active)
      /\ practice # None /\ ~raced => KeysInv(v, practice.pressed, down \ before) /\ CodesInv(v, out, CodesOn)
      /\ (\A k \in DOMAIN v : v[k].type # "layers") =>
            /\ picked \/ layerIdx = Highest(active)
            /\ practice # None /\ ~raced => practice.ids = active /\ practice.highest = Highest(active)
  BY <1>3, <1>4 DEF ScreenInv
<1>8. /\ LayersInv(w, active)
      /\ (\A k \in DOMAIN w : w[k].type # "layers") =>
            IF e.type = "layers" THEN e = LayersEvent(active) ELSE \A k \in DOMAIN v : v[k].type # "layers"
  BY <1>5, <1>7, TakesLayers
<1>9. (\A k \in DOMAIN w : w[k].type # "layers") => picked' \/ layerIdx' = Highest(active)
  <2> SUFFICES ASSUME \A k \in DOMAIN w : w[k].type # "layers" PROVE picked' \/ layerIdx' = Highest(active)
    OBVIOUS
  <2>1. CASE e.type = "layers"
    <3>1. e.highest = Highest(active)
      BY <1>8, <2>1 DEF LayersEvent
    <3> QED
      BY <1>1, <2>1, <3>1, HighestIs
  <2>2. CASE e.type # "layers"
    BY <1>1, <1>7, <1>8, <2>2
  <2> QED
    BY <2>1, <2>2
<1>10. ASSUME practice # None, ~raced
       PROVE  /\ KeysInv(w, practice'.pressed, down \ before) /\ CodesInv(w, practice'.output, CodesOn)
              /\ (\A k \in DOMAIN w : w[k].type # "layers") =>
                    practice'.ids = active /\ practice'.highest = Highest(active)
  <2> DEFINE T == [text : Pos \cup Knob, encoder : BOOLEAN]
  <2>1. /\ practice.pressed \in SUBSET Pos /\ practice.ids \in Layers /\ practice.highest \in Nat /\ out \in Seq(T)
        /\ practice = [pressed |-> practice.pressed, ids |-> practice.ids, highest |-> practice.highest, output |-> out]
    BY <1>10 DEF PracticeTypes, PracticeState
  <2>2. KeysInv(v, practice.pressed, down \ before) /\ CodesInv(v, out, CodesOn) /\ OneEach(out)
        /\ practice' = Reduce(practice, e)
    BY <1>1, <1>7, <1>10 DEF CodesInv
  <2> HIDE DEF out
  <2>3. CASE \E p \in Pos, b \in BOOLEAN : e = KeyEvent(p, b)
    <3>1. e.type = "key"
      BY <2>3 DEF KeyEvent
    <3>2. practice' = [practice EXCEPT !.pressed = IF e.pressed THEN @ \cup {e.position} ELSE @ \ {e.position}]
      BY <2>2, <3>1 DEF Reduce
    <3>3. practice'.pressed = (IF e.pressed THEN practice.pressed \cup {e.position} ELSE practice.pressed \ {e.position})
          /\ practice'.output = out /\ practice'.ids = practice.ids /\ practice'.highest = practice.highest
      BY <2>1, <3>2
    <3>4. KeysInv(w, practice'.pressed, down \ before)
      <4>1. KeysInv(w, IF e.pressed THEN practice.pressed \cup {e.position} ELSE practice.pressed \ {e.position},
                    down \ before)
        BY <1>5, <2>2, <3>1, TakesKey
      <4> QED
        BY <3>3, <4>1
    <3>5. \A x : ~ReleaseOf(e, x)
      BY <3>1 DEF ReleaseOf
    <3>6. CodesInv(w, out, CodesOn)
      BY <1>5, <2>2, <3>5, TakesCode
    <3> QED
      BY <1>7, <1>8, <1>10, <3>1, <3>3, <3>4, <3>6
  <2>4. CASE \E ids \in SUBSET ToSet(Order) : e = LayersEvent(ids)
    <3>1. e.type = "layers"
      BY <2>4 DEF LayersEvent
    <3>2. practice' = [practice EXCEPT !.ids = e.ids, !.highest = e.highest]
      BY <2>2, <3>1 DEF Reduce
    <3>3. /\ practice'.pressed = practice.pressed /\ practice'.output = out
          /\ practice'.ids = e.ids /\ practice'.highest = e.highest
      BY <2>1, <3>2
    <3>4. KeysInv(w, practice.pressed, down \ before)
      BY <1>5, <2>2, <3>1, TakesNoKey
    <3>5. \A x : ~ReleaseOf(e, x)
      BY <3>1 DEF ReleaseOf
    <3>6. CodesInv(w, out, CodesOn)
      BY <1>5, <2>2, <3>5, TakesCode
    <3>7. ASSUME \A k \in DOMAIN w : w[k].type # "layers" PROVE e.ids = active /\ e.highest = Highest(active)
      BY <1>8, <3>1, <3>7 DEF LayersEvent
    <3> QED
      BY <3>3, <3>4, <3>6, <3>7
  <2>5. CASE \E c \in Pos \cup Knob, b \in BOOLEAN : e = KeycodeEvent(c, b)
    <3>1. PICK c \in Pos \cup Knob, b \in BOOLEAN : e = KeycodeEvent(c, b)
      BY <2>5
    <3>2. /\ e.type = "keycode" /\ e.code = c /\ e.pressed = b
          /\ \A x : (PressOf(e, x) <=> x = c /\ b) /\ (ReleaseOf(e, x) <=> x = c /\ ~b)
      BY <3>1 DEF KeycodeEvent, PressOf, ReleaseOf
    <3> DEFINE new == IF b THEN Append(out, Chip(practice, c)) ELSE WithoutFirst(out, c)
    <3>3. practice' = [practice EXCEPT !.output = new]
      <4>1. practice' = [practice EXCEPT !.output =
                            IF e.pressed THEN Append(@, Chip(practice, e.code)) ELSE WithoutFirst(@, e.code)]
        BY <2>2, <3>2 DEF Reduce
      <4> QED
        BY <2>1, <3>2, <4>1 DEF out
    <3> HIDE DEF new
    <3>4. /\ practice'.pressed = practice.pressed /\ practice'.output = new
          /\ practice'.ids = practice.ids /\ practice'.highest = practice.highest
      BY <2>1, <3>3
    <3>5. KeysInv(w, practice.pressed, down \ before)
      BY <1>5, <2>2, <3>2, TakesNoKey
    <3>6. CASE b
      <4>1. /\ new = Append(out, Chip(practice, c)) /\ Chip(practice, c).text = c
            /\ DOMAIN new = 1 .. Len(out) + 1 /\ DOMAIN out = 1 .. Len(out) /\ Len(out) \in Nat
            /\ new[Len(out) + 1] = Chip(practice, c) /\ \A i \in 1 .. Len(out) : new[i] = out[i]
        BY <2>1, <3>6 DEF new, Chip
      <4>2. ASSUME NEW i \in DOMAIN out PROVE out[i].text # c
        <5>1. SUFFICES ASSUME out[i].text = c PROVE FALSE
          OBVIOUS
        <5>2. 1 \in DOMAIN v /\ v[1] = e /\ (\A k \in DOMAIN v : k = 1 \/ \E m \in DOMAIN w : k = m + 1)
              /\ \A k \in DOMAIN w : k >= 1 /\ k \in Nat
          BY <1>5, CodesTail
        <5>3. PICK m \in DOMAIN v : m < 1 /\ ReleaseOf(v[m], c)
          BY <2>2, <3>2, <3>6, <5>1, <5>2 DEF CodesInv
        <5> QED
          BY <5>2, <5>3
      <4>3. OneEach(new)
        <5>1. ASSUME NEW i \in DOMAIN new, NEW j \in DOMAIN new, new[i].text = new[j].text PROVE i = j
          <6>1. i \in DOMAIN out \/ i = Len(out) + 1
            BY <4>1
          <6>2. j \in DOMAIN out \/ j = Len(out) + 1
            BY <4>1
          <6>3. ASSUME i \in DOMAIN out, j \in DOMAIN out PROVE i = j
            BY <2>2, <4>1, <5>1, <6>3 DEF OneEach
          <6> QED
            BY <4>1, <4>2, <5>1, <6>1, <6>2, <6>3
        <5> QED
          BY <5>1 DEF OneEach
      <4>4. ASSUME NEW i \in DOMAIN new
            PROVE  \/ PressOf(e, new[i].text)
                   \/ (\E j \in DOMAIN out : out[j].text = new[i].text) /\ ~ReleaseOf(e, new[i].text)
        <5>1. CASE i = Len(out) + 1
          BY <3>2, <3>6, <4>1, <5>1
        <5>2. CASE i # Len(out) + 1
          <6>1. i \in DOMAIN out /\ new[i] = out[i]
            BY <4>1, <5>2
          <6> QED
            BY <3>2, <3>6, <6>1
        <5> QED
          BY <5>1, <5>2
      <4> QED
        BY <1>5, <1>7, <1>8, <1>10, <2>2, <3>2, <3>4, <3>5, <4>3, <4>4, TakesCode
    <3>7. CASE ~b
      <4>1. new = WithoutFirst(out, c)
        BY <3>7 DEF new
      <4>2. /\ OneEach(new)
            /\ \A i \in DOMAIN new : new[i].text # c /\ \E j \in DOMAIN out : out[j] = new[i]
        BY <2>1, <2>2, <4>1, ChipGone
      <4>3. \A i \in DOMAIN new : (\E j \in DOMAIN out : out[j].text = new[i].text) /\ ~ReleaseOf(e, new[i].text)
        BY <3>2, <4>2
      <4>4. CodesInv(w, new, CodesOn)
        BY <1>5, <2>2, <4>2, <4>3, TakesCode
      <4> QED
        BY <1>7, <1>8, <1>10, <3>2, <3>4, <3>5, <4>4
    <3> QED
      BY <3>6, <3>7
  <2> QED
    BY <1>1, <1>5, <2>3, <2>4, <2>5 DEF StreamEvent
<1>11. practice' # None => practice # None
  BY <1>1
<1>12. (practice # None /\ ~raced =>
          /\ KeysInv(OnTheWay, practice.pressed, down \ before)
          /\ CodesInv(OnTheWay, practice.output, CodesOn))'
  BY <1>1, <1>6, <1>10, <1>11 DEF CodesOn
<1>13. (stage[stream] = "streaming" /\ (\A k \in DOMAIN OnTheWay : OnTheWay[k].type # "layers") =>
           /\ picked \/ layerIdx = Highest(active)
           /\ practice # None /\ ~raced => practice.ids = active /\ practice.highest = Highest(active))'
  BY <1>1, <1>6, <1>9, <1>10, <1>11
<1>14. LayersInv(OnTheWay, active)'
  BY <1>1, <1>6, <1>8
<1>15. stage'[stream'] = "streaming"
  BY <1>1, <1>3
<1> QED
  BY <1>2, <1>3, <1>6, <1>12, <1>13, <1>14, <1>15 DEF ScreenInv

LEMMA ClearOnScreen ==
  ASSUME PracticeTypes, ScreenInv, Clear
  PROVE  ScreenInv'
<1>1. /\ UNCHANGED <<down, turning, active, queues, stage, stream, written, layerIdx, picked, before, missed>>
      /\ drawn # None /\ practice' = [drawn EXCEPT !.output = <<>>] /\ (raced' <=> raced \/ drawn # practice)
  BY DEF Clear, keyboard, server, ghosts
<1>2. OnTheWay' = OnTheWay /\ (Reported' <=> Reported) /\ (Unheard' <=> Unheard) /\ CodesOn' = CodesOn
  BY <1>1 DEF OnTheWay, Reported, Unheard, CodesOn
<1>3. ASSUME ~raced'
      PROVE  /\ practice # None /\ ~raced /\ practice'.output = <<>>
             /\ practice'.pressed = practice.pressed /\ practice'.ids = practice.ids
             /\ practice'.highest = practice.highest
  <2>1. practice = drawn /\ practice # None /\ ~raced
    BY <1>1, <1>3
  <2>2. practice \in PracticeState
    BY <2>1 DEF PracticeTypes
  <2> QED
    BY <1>1, <2>1, <2>2 DEF PracticeState
<1>4. ASSUME NEW w, NEW out, NEW on, CodesInv(w, out, on) PROVE CodesInv(w, <<>>, on)
  <2>1. DOMAIN <<>> = {}
    OBVIOUS
  <2> QED
    BY <1>4, <2>1 DEF CodesInv, OneEach
<1>5. (before \subseteq down /\ down \subseteq Pos /\ turning \subseteq Knob)'
  BY <1>1 DEF ScreenInv
<1> SUFFICES ASSUME stream # None, stage[stream] \in Alive PROVE ScreenInv'
  BY <1>1, <1>5 DEF ScreenInv
<1>6. (Reported /\ practice # None /\ ~raced =>
          /\ KeysInv(OnTheWay, practice.pressed, down \ before)
          /\ CodesInv(OnTheWay, practice.output, CodesOn))'
  <2> SUFFICES ASSUME Reported', ~raced'
               PROVE  (KeysInv(OnTheWay, practice.pressed, down \ before) /\ CodesInv(OnTheWay, practice.output, CodesOn))'
    OBVIOUS
  <2>1. KeysInv(OnTheWay, practice.pressed, down \ before) /\ CodesInv(OnTheWay, practice.output, CodesOn)
    BY <1>2, <1>3 DEF ScreenInv
  <2>2. CodesInv(OnTheWay, <<>>, CodesOn)
    BY <1>4, <2>1
  <2> QED
    BY <1>1, <1>2, <1>3, <2>1, <2>2
<1>7. (Reported /\ stage[stream] = "streaming" /\ (\A k \in DOMAIN OnTheWay : OnTheWay[k].type # "layers") =>
           /\ picked \/ layerIdx = Highest(active)
           /\ practice # None /\ ~raced => practice.ids = active /\ practice.highest = Highest(active))'
  BY <1>1, <1>2, <1>3 DEF ScreenInv
<1>8. /\ (stage[stream] # "streaming" => written = <<>>)' /\ (Unheard => before = down)'
      /\ (practice # None /\ ~raced /\ stage[stream] # "streaming" => practice.pressed = {} /\ practice.output = <<>>)'
      /\ (Reported => LayersInv(OnTheWay, active))'
  BY <1>1, <1>2, <1>3 DEF ScreenInv
<1> QED
  BY <1>5, <1>6, <1>7, <1>8 DEF ScreenInv

LEMMA ScreenStep ==
  ASSUME PracticeTypes, ScreenInv, [PracticeNext]_practiceVars
  PROVE  ScreenInv'
<1>1. ASSUME NEW p \in Pos, Press(p) PROVE ScreenInv'
  <2>1. TRUE \in BOOLEAN /\ IF TRUE THEN Press(p) ELSE Release(p)
    BY <1>1
  <2> QED
    BY <2>1, KeyOnScreen
<1>2. ASSUME NEW p \in Pos, Release(p) PROVE ScreenInv'
  <2>1. FALSE \in BOOLEAN /\ IF FALSE THEN Press(p) ELSE Release(p)
    BY <1>2
  <2> QED
    BY <2>1, KeyOnScreen
<1>3. ASSUME NEW c \in Knob, Turn(c) PROVE ScreenInv'
  BY <1>3, TurnOnScreen
<1>4. ASSUME NEW s \in Source, Serve(s) PROVE ScreenInv'
  BY <1>4, OtherOnScreen, StreamOnScreen
<1>5. ASSUME NEW s \in Source, StartPractice(s) PROVE ScreenInv'
  BY <1>5, StartOnScreen
<1>6. ASSUME NEW i \in 0 .. Len(Order) - 1, PickLayer(i) PROVE ScreenInv'
  <2>1. /\ UNCHANGED <<down, turning, active, queues, stage, stream, written, practice, raced, before, missed>>
        /\ picked' = TRUE
    BY <1>6 DEF PickLayer, keyboard, server, ghosts
  <2>2. OnTheWay' = OnTheWay /\ (Reported' <=> Reported) /\ (Unheard' <=> Unheard) /\ CodesOn' = CodesOn
    BY <2>1 DEF OnTheWay, Reported, Unheard, CodesOn
  <2> QED
    BY <2>1, <2>2 DEF ScreenInv
<1>7. CASE StopPractice \/ ReceiveUnavailable
  <2>1. UNCHANGED <<down, turning, before>> /\ stream' = None
    BY <1>7 DEF StopPractice, ReceiveUnavailable, Stopped, keyboard, ghosts
  <2> QED
    BY <2>1 DEF ScreenInv
<1>8. CASE Receive
  BY <1>8, ReceiveOnScreen
<1>9. CASE Clear
  BY <1>9, ClearOnScreen
<1>10. CASE Draw \/ UNCHANGED practiceVars
  <2>1. /\ UNCHANGED <<down, turning, active, queues, stage, stream, written, practice, raced, before, missed>>
        /\ UNCHANGED <<picked, layerIdx>>
    BY <1>10 DEF Draw, practiceVars, keyboard, server, shown, ghosts
  <2>2. OnTheWay' = OnTheWay /\ (Reported' <=> Reported) /\ (Unheard' <=> Unheard)
    BY <2>1 DEF OnTheWay, Reported, Unheard
  <2> QED
    BY <2>1, <2>2, Unseen
<1> QED
  BY <1>1, <1>2, <1>3, <1>4, <1>5, <1>6, <1>7, <1>8, <1>9, <1>10 DEF PracticeNext

LEMMA InitPracticeInv == PracticeInit => PracticeInv
<1> SUFFICES ASSUME PracticeInit PROVE PracticeInv
  OBVIOUS
<1>1. \A s \in Source : stage[s] = "off" /\ queues[s] = None
  BY DEF PracticeInit
<1>2. active \in Layers
  <2>1. 1 \in DOMAIN Order
    BY PracticeAssumption DEF PracticeAssumption
  <2> QED
    BY <2>1 DEF PracticeInit, Layers, ToSet
<1>3. PracticeTypes
  <2>1. stage \in [Source -> Stages] /\ DOMAIN queues = Source
    BY DEF PracticeInit, Stages
  <2>2. written \in Seq(StreamEvent)
    BY DEF PracticeInit
  <2>3. \A s \in Source : stage[s] \notin HasQueue
    BY <1>1 DEF HasQueue, Opening
  <2> QED
    BY <1>1, <1>2, <2>1, <2>2, <2>3 DEF PracticeInit, PracticeTypes
<1>4. Counted = {}
  BY <1>1 DEF Counted, Counting
<1>5. StreamsInv
  BY <1>1, <1>4, FS_EmptySet DEF PracticeInit, StreamsInv
<1>6. ScreenInv
  BY DEF PracticeInit, ScreenInv
<1> QED
  BY <1>3, <1>5, <1>6 DEF PracticeInv

LEMMA InvCaughtUp == PracticeInv => CaughtUp
<1> SUFFICES ASSUME PracticeInv, practice # None, stream # None, ~raced, ~missed,
                    stage[stream] = "streaming", queues[stream] = <<>>, written = <<>>
             PROVE  /\ practice.ids = active /\ practice.highest = Highest(active)
                    /\ practice.pressed = down \ before
                    /\ {practice.output[i].text : i \in DOMAIN practice.output} \subseteq down \cup turning
                    /\ picked \/ layerIdx = Highest(active)
  BY DEF CaughtUp
<1> USE DEF PracticeInv
<1>1. stage[stream] \in Alive
  BY DEF Alive
<1>2. Reported /\ OnTheWay = written \o queues[stream]
  BY <1>1, TheStream DEF Reported, HasQueue
<1>3. OnTheWay = <<>> /\ DOMAIN OnTheWay = {}
  <2>1. <<>> \o <<>> = <<>>
    OBVIOUS
  <2> QED
    BY <1>2, <2>1
<1>4. KeysInv(OnTheWay, practice.pressed, down \ before) /\ CodesInv(OnTheWay, practice.output, CodesOn)
  BY <1>1, <1>2 DEF ScreenInv
<1>5. practice.ids = active /\ practice.highest = Highest(active) /\ (picked \/ layerIdx = Highest(active))
  BY <1>1, <1>2, <1>3 DEF ScreenInv
<1>6. practice.pressed = down \ before
  BY <1>3, <1>4 DEF KeysInv
<1>7. \A i \in DOMAIN practice.output : practice.output[i].text \in CodesOn
  BY <1>3, <1>4 DEF CodesInv
<1> QED
  BY <1>5, <1>6, <1>7 DEF CodesOn

LEMMA PracticeStep == PracticeInv /\ [PracticeNext]_practiceVars => PracticeInv'
BY TypesStep, StreamsStep, ScreenStep DEF PracticeInv

\* In whichever order streams are opened and closed, the board shows the keyboard as soon as every
\* report has arrived, unless a report was not made for want of the flag, or the log was cleared
\* before an event was drawn (practice.ts, session.py, server.py, monitor_listener.c).
THEOREM ScreenCatchesUp == PracticeSpec => []CaughtUp
BY PracticeStep, InitPracticeInv, InvCaughtUp, PTL DEF PracticeSpec

\* And with the last stream the keyboard falls silent, unless the disable failed (session.py).
THEOREM KeyboardFallsSilent == PracticeSpec => []SilentWhenIdle
<1>1. PracticeInv => SilentWhenIdle
  BY DEF PracticeInv, StreamsInv, PracticeTypes, SilentWhenIdle
<1> QED
  BY <1>1, PracticeStep, InitPracticeInv, PTL DEF PracticeSpec
================================================================================
