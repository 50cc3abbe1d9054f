------------------------------- MODULE Requests -------------------------------
(***************************************************************************)
(* The requests of the browser page (cli/ui/src/api.ts) and their replies.  *)
(* A call of the page is an async function between two of its awaits: it    *)
(* waits for the reply to one request.  The server serves the requests      *)
(* under way in any order, each under the session lock; a reply may be an   *)
(* error although the request took effect.                                  *)
(***************************************************************************)
EXTENDS Naturals, Sequences, FiniteSets, SequencesExt

CONSTANTS
    None,         \* null
    Lanes,        \* room for the calls under way (bound)
    InOrder,      \* do replies reach the page in the order they were given?
    MaxEvents     \* requests by the user, error replies, other mishaps (bound)

ASSUME RequestsAssumption ==
    /\ Lanes \in Nat /\ Lanes >= 2
    /\ InOrder \in BOOLEAN
    /\ MaxEvents \in Nat

VARIABLES
    calls,     \* the calls under way, at most one in a lane
    replies,   \* the replies the page has not seen, in the order they were given
    events     \* the number of requests by the user and of mishaps so far

Lane == 1 .. Lanes
Free == [at |-> "free"]

UnderWay == {l \in Lane : calls[l] # Free}
Quiet == UnderWay = {}

\* The next of the events that are bounded.
Another == events < MaxEvents /\ events' = events + 1

\* The user starts a call, in the first free lane.
Start(c) ==
    /\ Another
    /\ \E l \in Lane \ UnderWay :
          /\ \A m \in Lane \ UnderWay : l <= m
          /\ calls' = [calls EXCEPT ![l] = c]

\* The server is given the request of a call, and replies.
Asked(l, what) == calls[l].at \in what /\ ~calls[l].served

Reply(l, ok, doc) ==
    /\ replies' = Append(replies, [to |-> l, ok |-> ok, doc |-> doc])
    /\ calls' = [calls EXCEPT ![l].served = TRUE]

\* The reply that reaches the page next.
Arrives(k) == k \in DOMAIN replies /\ (InOrder => k = 1)
Take(k) == replies' = RemoveAt(replies, k)

\* The call goes on to its next request, or is over.
GoOn(l, c) == calls' = [calls EXCEPT ![l] = c]
Then(c, at) == [c EXCEPT !.at = at, !.served = FALSE]
===============================================================================
