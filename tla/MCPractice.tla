------------------------------- MODULE MCPractice -------------------------------
(* A key and a layer key, an encoder with one keycode, layer ids out of order, two streams. *)
EXTENDS Practice, TLC

Holds == [m |-> 2]
Ids == <<0, 2, 1>>

\* A stream that is open is told of every event: what api_events is for, and what
\* MCPracticeClaims.cfg refutes.
OpenStreamHearsAll == ~missed
================================================================================
