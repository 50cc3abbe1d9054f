----------------------------- MODULE MCMuxSerial -----------------------------
(* Two event streams, a thread that closes the handle; the frames are in the cfg files. *)
EXTENDS MuxSerial, TLC
CONSTANTS s1, s2, closer
Streams == Permutations(Subscriber)

\* Bound: once a second reader is possible, no more than one piece is sent (the
\* properties of the pieces say nothing from there on), and no more than two
\* frames once a stream came when a stop() was due.
Explored ==
    /\ Free({Overlap, GaveUp}) \/ sent <= 1
    /\ Free({Late}) \/ sent <= 4

-----------------------------------------------------------------------------
(* What the docstrings say without exception, and MCMuxClaims.cfg refutes.   *)

\* stop() leaves no reader beside the next one.
OneReader == Cardinality({r \in Reader : reader[r] # "off"}) <= 1

\* A stream that has subscribed has a reader, until the port fails.
EveryStreamHasAReader == subs # {} /\ Free({Failed}) => running

\* The clients see the stream they expect, in order.
WholeStream == Rising(Stream)

\* And all of it.
NoByteLost == \A k \in Lost : \E m \in delivered : k \in {2 * m - 1, 2 * m}
=============================================================================
