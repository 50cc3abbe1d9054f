------------------------------ MODULE MuxSerial ------------------------------
(***************************************************************************)
(* cli/zmk_runtime_cli/ui/mux_serial.py: one serial port, two readers.     *)
(* Without subscribers read() goes straight to the port; with subscribers  *)
(* a reader thread owns the port, hands monitor notifications to the       *)
(* subscribers and everything else back to read().                         *)
(*                                                                         *)
(* The byte stream is abstracted to halves of frames: frame f is the piece *)
(* 2f - 1, which begins with SOF, and the piece 2f, which ends with EOF.   *)
(* A read of the port returns any number of pieces, none when it times     *)
(* out.  The threads are the reader threads, one client inside read() (the *)
(* session lock admits one), and, without that lock, the event streams     *)
(* that subscribe and leave and the threads that close the handle.  A step *)
(* is what one thread does under _cond or _io, or between two such         *)
(* sections; _pending is under neither, so to take a frame out of it is a  *)
(* load and a store.                                                       *)
(***************************************************************************)
EXTENDS Integers, Sequences, FiniteSets, SequencesExt

CONSTANTS
    Frames,       \* the number of frames the keyboard sends
    Monitor,      \* those that are monitor notifications
    Subscriber,   \* the event streams
    Closer,       \* the threads that close the handle
    MaxReaders    \* reader threads ever started (bound)

Caller == Subscriber \cup Closer
Reader == 1 .. MaxReaders
Piece == 1 .. 2 * Frames
IsHead(k) == k % 2 = 1
NoThread == 0

ASSUME MuxAssumption ==
    /\ Frames \in Nat
    /\ Monitor \subseteq 1 .. Frames
    /\ MaxReaders \in Nat
    /\ Subscriber \cap Closer = {}

VARIABLES
    sent,      \* the pieces the keyboard has sent
    wire,      \* those nobody has read from the port
    buf,       \* _buf
    pending,   \* _pending
    subs,      \* _subs
    queue,     \* the frames put into each subscriber's queue
    index,     \* is _monitor_index set?
    running,   \* _running
    thread,    \* _thread
    spawned,   \* reader threads created so far
    reader,    \* where each reader thread is: "off", "new" (not started), "check", "read",
               \* "append", "load" and "store" (_extract_frame), "deliver" (to the
               \* subscribers), "hand" (back to read)
    chunk,     \* what it read from the port
    seen,      \* the _pending it takes a frame out of
    frame,     \* the frame it took
    client,    \* where read() is: "out", "port" (pass-through), "wait"
    got,       \* what read() has returned, in all
    call,      \* where each stream or closing thread is: "out", "start" (its thread), "in"
               \* (subscribed), "broken" (subscribe() raised), "stop", "join", "closed"
    joins,     \* the thread its stop() waits for
    delivered, \* ghost: the frames that went to the subscribers
    mishaps    \* ghost: which of the meetings below have taken place

\* What the module's locks do not rule out.
Late == "a stream subscribed when a stop() was due"
Overlap == "a stream subscribed while a stop() waited for the reader"
GaveUp == "a stop() ended, its reader alive"
Failed == "a read of the reader failed, or the handle was closed"
Bypass == "a client's read of the port overtook what the reader had"
Backlog == "a stop() put a half-read frame before frames that waited"
Free(of) == mishaps \cap of = {}

mux == <<buf, pending, subs, index, running, thread>>
threads == <<spawned, reader, chunk, seen, frame>>
calls == <<call, joins>>
vars == <<sent, wire, mux, queue, threads, client, got, calls, delivered, mishaps>>

Init ==
    /\ sent = 0 /\ wire = <<>> /\ got = <<>>
    /\ buf = <<>> /\ pending = <<>>
    /\ subs = {} /\ queue = [s \in Subscriber |-> <<>>]
    /\ index = FALSE /\ running = FALSE /\ thread = NoThread
    /\ spawned = 0
    /\ reader = [r \in Reader |-> "off"] /\ chunk = [r \in Reader |-> <<>>]
    /\ seen = [r \in Reader |-> <<>>] /\ frame = [r \in Reader |-> <<>>]
    /\ client = "out"
    /\ call = [c \in Caller |-> "out"] /\ joins = [c \in Caller |-> NoThread]
    /\ delivered = {} /\ mishaps = {}

-----------------------------------------------------------------------------

\* The keyboard sends the next piece.
Send ==
    /\ sent < 2 * Frames
    /\ sent' = sent + 1
    /\ wire' = Append(wire, sent + 1)
    /\ UNCHANGED <<mux, queue, threads, client, got, calls, delivered, mishaps>>

\* One read of the port takes the first n pieces; a closed one raises.
TakeWire(n) == n \in 0 .. Len(wire) /\ wire' = SubSeq(wire, n + 1, Len(wire))
Open == \A c \in Closer : call[c] # "closed"

-----------------------------------------------------------------------------
(* read(), up to the moment it answers. *)

\* _take_locked.
TakeBuf ==
    /\ buf # <<>>
    /\ \E n \in 1 .. Len(buf) :
          got' = got \o SubSeq(buf, 1, n) /\ buf' = SubSeq(buf, n + 1, Len(buf))
    /\ client' = "out"
    /\ UNCHANGED <<sent, wire, pending, subs, queue, index, running, thread, threads, calls, delivered, mishaps>>

ReadBuffered == client = "out" /\ TakeBuf

ReadCall ==
    /\ client = "out"
    /\ buf = <<>>
    /\ client' = IF running THEN "wait" ELSE "port"
    /\ UNCHANGED <<sent, wire, mux, queue, threads, got, calls, delivered, mishaps>>

\* Does the reader, or _buf, hold what came before the bytes still in the port?
Older == buf # <<>> \/ pending # <<>> \/ \E r \in Reader : chunk[r] # <<>> \/ frame[r] # <<>>

\* Pass-through: the port answers, with nothing when it times out or raises.
ReadPort(n) ==
    /\ client = "port"
    /\ TakeWire(n) /\ (n > 0 => Open)
    /\ got' = got \o SubSeq(wire, 1, n)
    /\ client' = "out"
    /\ mishaps' = IF n > 0 /\ Older THEN mishaps \cup {Bypass} ELSE mishaps
    /\ UNCHANGED <<sent, mux, queue, threads, calls, delivered>>

ReadWaited == client = "wait" /\ TakeBuf

\* The wait times out, or the reader has gone.
ReadNothing ==
    /\ client = "wait"
    /\ buf = <<>>
    /\ client' = "out"
    /\ UNCHANGED <<sent, wire, mux, queue, threads, got, calls, delivered, mishaps>>

-----------------------------------------------------------------------------
(* Subscribing and leaving. *)

SetMonitorIndex ==
    /\ ~index
    /\ index' = TRUE
    /\ UNCHANGED <<sent, wire, buf, pending, subs, queue, running, thread, threads, client, got, calls, delivered, mishaps>>

Is(c, where) == call[c] = where
Goes(c, where) == call' = [call EXCEPT ![c] = where]
WhenLate ==
    (IF \E c \in Caller : Is(c, "stop") THEN {Late} ELSE {})
        \cup (IF \E c \in Caller : Is(c, "join") THEN {Overlap} ELSE {})

\* The new thread, created and not yet started.
Spawn ==
    /\ spawned < MaxReaders
    /\ running' = TRUE
    /\ spawned' = spawned + 1
    /\ thread' = spawned + 1
    /\ reader' = [reader EXCEPT ![spawned + 1] = "new"]

\* Slip: every stream starts a reader thread.
SubscribeStartsAlways(s) ==
    /\ Is(s, "out")
    /\ subs' = subs \cup {s} /\ queue' = [queue EXCEPT ![s] = <<>>]
    /\ mishaps' = mishaps \cup WhenLate
    /\ Spawn /\ Goes(s, "start")
    /\ UNCHANGED <<sent, wire, buf, pending, index, chunk, seen, frame, client, got, joins, delivered>>

\* subscribe(), under the lock.
Subscribe(s) ==
    /\ Is(s, "out")
    /\ subs' = subs \cup {s} /\ queue' = [queue EXCEPT ![s] = <<>>]
    /\ mishaps' = mishaps \cup WhenLate
    /\ IF running THEN Goes(s, "in") /\ UNCHANGED <<running, thread, spawned, reader>>
       ELSE Spawn /\ Goes(s, "start")
    /\ UNCHANGED <<sent, wire, buf, pending, index, chunk, seen, frame, client, got, joins, delivered>>

\* self._thread.start(), without the lock: it raises when _thread is None by then,
\* or a thread that was started; the queue stays in _subs.
StartThread(s) ==
    /\ Is(s, "start")
    /\ IF thread # NoThread /\ reader[thread] = "new"
       THEN Goes(s, "in") /\ reader' = [reader EXCEPT ![thread] = "check"]
       ELSE Goes(s, "broken") /\ UNCHANGED reader
    /\ UNCHANGED <<sent, wire, mux, queue, spawned, chunk, seen, frame, client, got, joins, delivered, mishaps>>

\* Slip: any stream that leaves stops the reader.
UnsubscribeStops(s) ==
    /\ Is(s, "in")
    /\ subs' = subs \ {s}
    /\ Goes(s, "stop")
    /\ UNCHANGED <<sent, wire, buf, pending, queue, index, running, thread, threads, client, got, joins, delivered, mishaps>>

\* unsubscribe: under the lock the stream is removed; stop() takes the lock again.
Unsubscribe(s) ==
    /\ Is(s, "in")
    /\ subs' = subs \ {s}
    /\ Goes(s, IF subs = {s} THEN "stop" ELSE "out")
    /\ UNCHANGED <<sent, wire, buf, pending, queue, index, running, thread, threads, client, got, joins, delivered, mishaps>>

\* close(): of a thread whose request has failed, of a reader after _fail, at the end.
Close(c) ==
    /\ Is(c, "out") /\ Goes(c, "stop")
    /\ UNCHANGED <<sent, wire, mux, queue, threads, client, got, joins, delivered, mishaps>>

Ended(c) == Goes(c, IF c \in Closer THEN "closed" ELSE "out")

\* stop(), up to the join.
StopBegin(c) ==
    /\ Is(c, "stop")
    /\ IF running THEN Goes(c, "join") /\ joins' = [joins EXCEPT ![c] = thread]
       ELSE Ended(c) /\ UNCHANGED joins
    /\ running' = FALSE
    /\ mishaps' = IF c \in Closer THEN mishaps \cup {Failed} ELSE mishaps
    /\ UNCHANGED <<sent, wire, buf, pending, subs, queue, index, thread, threads, client, got, delivered>>

NotStarted(t) == t # NoThread /\ reader[t] = "new"
WhenAlive == IF \E r \in Reader : reader[r] # "off" THEN {GaveUp} ELSE {}

\* Slip: the half-read frame is forgotten.
StopEndForgets(c) ==
    /\ Is(c, "join") /\ ~NotStarted(joins[c])
    /\ thread' = NoThread
    /\ pending' = <<>>
    /\ Ended(c) /\ joins' = [joins EXCEPT ![c] = NoThread]
    /\ mishaps' = mishaps \cup WhenAlive
    /\ UNCHANGED <<sent, wire, buf, subs, queue, index, running, threads, client, got, delivered>>

\* The thread has ended, or the join has timed out.
StopEnd(c) ==
    /\ Is(c, "join") /\ ~NotStarted(joins[c])
    /\ thread' = NoThread
    /\ buf' = pending \o buf
    /\ pending' = <<>>
    /\ Ended(c) /\ joins' = [joins EXCEPT ![c] = NoThread]
    /\ mishaps' = mishaps \cup WhenAlive \cup (IF pending # <<>> /\ buf # <<>> THEN {Backlog} ELSE {})
    /\ UNCHANGED <<sent, wire, subs, queue, index, running, threads, client, got, delivered>>

\* To join a thread that was not started raises: neither the rest of stop() nor the
\* closing of the port follows.
StopRaises(c) ==
    /\ Is(c, "join") /\ NotStarted(joins[c])
    /\ Goes(c, "out") /\ joins' = [joins EXCEPT ![c] = NoThread]
    /\ mishaps' = mishaps \cup WhenAlive
    /\ UNCHANGED <<sent, wire, mux, queue, threads, client, got, delivered>>

-----------------------------------------------------------------------------
(* A reader thread. *)

Check(r) ==
    /\ reader[r] = "check"
    /\ reader' = [reader EXCEPT ![r] = IF running THEN "read" ELSE "off"]
    /\ UNCHANGED <<sent, wire, mux, queue, spawned, chunk, seen, frame, client, got, calls, delivered, mishaps>>

ReadChunk(r, n) ==
    /\ reader[r] = "read" /\ Open
    /\ TakeWire(n)
    /\ chunk' = [chunk EXCEPT ![r] = SubSeq(wire, 1, n)]
    /\ reader' = [reader EXCEPT ![r] = IF n = 0 THEN "check" ELSE "append"]
    /\ UNCHANGED <<sent, mux, queue, spawned, seen, frame, client, got, calls, delivered, mishaps>>

\* _fail: the read raises.  on_error closes the handle.
Fail(r) ==
    /\ reader[r] = "read"
    /\ running' = FALSE /\ thread' = NoThread
    /\ reader' = [reader EXCEPT ![r] = "off"]
    /\ mishaps' = mishaps \cup {Failed}
    /\ UNCHANGED <<sent, wire, buf, pending, subs, queue, index, spawned, chunk, seen, frame, client, got, calls, delivered>>

AppendChunk(r) ==
    /\ reader[r] = "append"
    /\ pending' = pending \o chunk[r]
    /\ chunk' = [chunk EXCEPT ![r] = <<>>]
    /\ reader' = [reader EXCEPT ![r] = "load"]
    /\ UNCHANGED <<sent, wire, buf, subs, queue, index, running, thread, spawned, seen, frame, client, got, calls, delivered, mishaps>>

\* The argument of _extract_frame.
LoadPending(r) ==
    /\ reader[r] = "load"
    /\ seen' = [seen EXCEPT ![r] = pending]
    /\ reader' = [reader EXCEPT ![r] = "store"]
    /\ UNCHANGED <<sent, wire, mux, queue, spawned, chunk, frame, client, got, calls, delivered, mishaps>>

\* _extract_frame: noise before the first SOF is dropped; the frame ends at the
\* first EOF after it.
Begins(p) == {i \in DOMAIN p : IsHead(p[i])}
Ends(p) == {j \in DOMAIN p : ~IsHead(p[j]) /\ \E i \in Begins(p) : i < j}

\* _dispatch: the frame is a monitor notification and somebody listens.
ForSubscribers(f) == index /\ subs # {} /\ \E m \in Monitor : f = <<2 * m - 1, 2 * m>>

\* One frame is taken out, and _dispatch looks whose it is.
Extract(r) ==
    /\ reader[r] = "store"
    /\ Ends(seen[r]) # {}
    /\ LET p == seen[r]
           f == SubSeq(p, Min(Begins(p)), Min(Ends(p)))
       IN  /\ frame' = [frame EXCEPT ![r] = f]
           /\ pending' = SubSeq(p, Min(Ends(p)) + 1, Len(p))
           /\ reader' = [reader EXCEPT ![r] = IF ForSubscribers(f) THEN "deliver" ELSE "hand"]
    /\ seen' = [seen EXCEPT ![r] = <<>>]
    /\ UNCHANGED <<sent, wire, buf, subs, queue, index, running, thread, spawned, chunk, client, got, calls, delivered, mishaps>>

\* The end of _dispatch, with the subscribers there are by then.
Deliver(r) ==
    /\ reader[r] = "deliver"
    /\ LET f == Last(frame[r]) \div 2 IN
       /\ queue' = [s \in Subscriber |-> IF s \in subs THEN Append(queue[s], f) ELSE queue[s]]
       /\ delivered' = delivered \cup {f}
    /\ frame' = [frame EXCEPT ![r] = <<>>]
    /\ reader' = [reader EXCEPT ![r] = "load"]
    /\ UNCHANGED <<sent, wire, mux, spawned, chunk, seen, client, got, calls, mishaps>>

\* Slip: a frame for read() is put before those that wait.
HandBackInFront(r) ==
    /\ reader[r] = "hand"
    /\ buf' = frame[r] \o buf
    /\ frame' = [frame EXCEPT ![r] = <<>>]
    /\ reader' = [reader EXCEPT ![r] = "load"]
    /\ UNCHANGED <<sent, wire, pending, subs, queue, index, running, thread, spawned, chunk, seen, client, got, calls, delivered, mishaps>>

HandBack(r) ==
    /\ reader[r] = "hand"
    /\ buf' = buf \o frame[r]
    /\ frame' = [frame EXCEPT ![r] = <<>>]
    /\ reader' = [reader EXCEPT ![r] = "load"]
    /\ UNCHANGED <<sent, wire, pending, subs, queue, index, running, thread, spawned, chunk, seen, client, got, calls, delivered, mishaps>>

NoFrame(r) ==
    /\ reader[r] = "store"
    /\ Ends(seen[r]) = {}
    /\ pending' = LET p == seen[r] IN IF Begins(p) = {} THEN <<>> ELSE SubSeq(p, Min(Begins(p)), Len(p))
    /\ seen' = [seen EXCEPT ![r] = <<>>]
    /\ reader' = [reader EXCEPT ![r] = "check"]
    /\ UNCHANGED <<sent, wire, buf, subs, queue, index, running, thread, spawned, chunk, frame, client, got, calls, delivered, mishaps>>

ReaderStep(r) ==
    \/ Check(r)
    \/ \E n \in 0 .. Len(wire) : ReadChunk(r, n)
    \/ Fail(r)
    \/ AppendChunk(r)
    \/ LoadPending(r) \/ Extract(r) \/ Deliver(r) \/ HandBack(r)
    \/ NoFrame(r)

Read ==
    \/ ReadBuffered \/ ReadCall \/ ReadWaited \/ ReadNothing
    \/ \E n \in 0 .. Len(wire) : ReadPort(n)

Stop(c) == StopBegin(c) \/ StopEnd(c) \/ StopRaises(c)

Next ==
    \/ Send
    \/ Read
    \/ SetMonitorIndex
    \/ \E s \in Subscriber : Subscribe(s) \/ StartThread(s) \/ Unsubscribe(s)
    \/ \E c \in Closer : Close(c)
    \/ \E c \in Caller : Stop(c)
    \/ \E r \in Reader : ReaderStep(r)

Spec == Init /\ [][Next]_vars

-----------------------------------------------------------------------------
(* Properties. *)

TypeOK ==
    /\ {wire, buf, pending, got} \subseteq Seq(Piece)
    /\ subs \subseteq Subscriber
    /\ queue \in [Subscriber -> Seq(Monitor)] /\ delivered \subseteq Monitor
    /\ thread \in Reader \cup {NoThread} /\ joins \in [Caller -> Reader \cup {NoThread}]
    /\ reader \in [Reader -> {"off", "new", "check", "read", "append", "load", "store", "deliver", "hand"}]
    /\ client \in {"out", "port", "wait"}
    /\ call \in [Caller -> {"out", "start", "in", "broken", "stop", "join", "closed"}]
    /\ mishaps \subseteq {Late, Overlap, GaveUp, Failed, Bypass, Backlog}

\* The docstring of stop: it "waits for the thread so no one else touches the port while
\* it is still in a read()".  A reader that has not ended is the one that _thread names, and
\* it is to run or a stop() waits for it, so there is never a second one, whatever clients,
\* failures and the two halves of unsubscribe do; unless a stream subscribed in the middle
\* of that wait, or the wait was given up.
PortHasOneReader == Free({Overlap, GaveUp}) =>
    \A r \in Reader : reader[r] # "off" => r = thread /\ (running \/ \E c \in Caller : Is(c, "join") /\ joins[c] = r)

\* The module's docstring: "on the first subscribe()" a reader "takes over the port", "on the
\* last unsubscribe() the thread stops".  A reader is to run only for a stream, or for one
\* whose stop() is due.  And as long as there is a stream there is a reader that runs or is
\* about to be started, unless the port failed or a stream came in the middle of a stop().
ReaderServesStreams ==
    /\ running => subs # {} \/ \E c \in Caller : Is(c, "stop")
    /\ Free({Late, Overlap, Failed}) /\ subs # {} =>
          running /\ \/ \E r \in Reader : reader[r] \notin {"off", "new"}
                     \/ \E s \in Subscriber : Is(s, "start")

\* Everything read() returned or will return, in the order it does.
Held(part) == IF thread = NoThread THEN <<>> ELSE part[thread]
Chunks == Held(chunk)
InHand == Held(frame)
Stream == got \o buf \o InHand \o pending \o Chunks \o wire
Rising(s) == \A i \in 1 .. Len(s) - 1 : s[i] < s[i + 1]

\* The module's docstring: what is not a monitor notification "is handed back to read() as
\* the original frame bytes", so the clients "still see the stream they expect".  With one
\* reader, wherever the port is taken over, given back or fails: the pieces come in the
\* order they were sent, none twice, unless a client overtook the reader or a half-read frame
\* was put before frames that waited; and even then each stream gets its notifications so.
StreamInOrder == Free({Overlap, GaveUp}) =>
    /\ Free({Bypass, Backlog}) => Rising(Stream)
    /\ \A s \in Subscriber : Rising(queue[s])

\* And none is lost: a piece that is missing belongs to a notification that the subscribers
\* got, or it is the end of a frame whose beginning went to read() by the other way before
\* the reader took the port over.
Lost == 1 .. sent \ ToSet(Stream)
NothingLost == Free({Overlap, GaveUp}) =>
    \A k \in Lost : \/ \E m \in delivered \cap Monitor : k \in {2 * m - 1, 2 * m}
                    \/ ~IsHead(k) /\ k - 1 \in ToSet(got \o buf)
=============================================================================
