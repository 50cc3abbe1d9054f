---------------------------- MODULE DurableParams ----------------------------
(***************************************************************************)
(* What a parameter store promises the host and the engines, without flash *)
(* keys, boot phases or mutexes: every entry has one value, a request is   *)
(* carried out entry by entry, each entry at one instant; the answer ok    *)
(* means all of it was done and the engines already use it; the answer     *)
(* error means none of it was.  A power cut may stop a request between two *)
(* entries, and no value is ever lost.                                     *)
(***************************************************************************)
EXTENDS Integers

CONSTANTS Index, Registered, Field, Datum, DtDefault, Absent

Params == [Field -> Datum]
Cell == Params \cup {Absent}

VARIABLES
    value,   \* what was last stored for each entry, Absent for the default
    view,    \* what the engine of each registered entry reads
    up,      \* booted
    owed,    \* the entries the running request has still to store
    target,  \* the value it stores
    answer   \* "none" while a request runs, "ok", "error", "lost" in a power cut

vars == <<value, view, up, owed, target, answer>>

Resolve(i) == IF value[i] = Absent THEN DtDefault[i] ELSE value[i]

Settled == \A i \in Registered : view[i] = Resolve(i)

Init ==
    /\ value = [i \in Index |-> Absent]
    /\ view \in [Registered -> Params]
    /\ up = FALSE
    /\ owed = {} /\ target = Absent /\ answer = "lost"

Ask(s, v) ==
    /\ up /\ answer # "none"
    /\ owed' = s /\ target' = v /\ answer' = "none"
    /\ UNCHANGED <<value, view, up>>

\* The durable value of one entry changes at one instant.
Store(i) ==
    /\ i \in owed
    /\ value' = [value EXCEPT ![i] = target]
    /\ owed' = owed \ {i}
    /\ UNCHANGED <<view, up, target, answer>>

\* The engine sees the stored value, one field at a time.
Publish(i, f) ==
    /\ answer = "none"
    /\ i \in Registered \ owed
    /\ view' = [view EXCEPT ![i][f] = Resolve(i)[f]]
    /\ UNCHANGED <<value, up, owed, target, answer>>

AnswerOk ==
    /\ up
    /\ owed = {}
    /\ Settled
    /\ answer' = "ok" /\ target' = Absent
    /\ UNCHANGED <<value, view, up, owed>>

\* A single-entry request can fail, and then nothing was stored or shown.
AnswerError ==
    /\ up
    /\ Settled
    /\ \/ answer # "none" /\ UNCHANGED owed
       \/ answer = "none" /\ \E i \in Index : owed = {i}
          /\ owed' = {}
    /\ answer' = "error" /\ target' = Absent
    /\ UNCHANGED <<value, view, up>>

PowerCut ==
    /\ up' = FALSE
    /\ view' \in [Registered -> Params]
    /\ owed' = {} /\ target' = Absent /\ answer' = "lost"
    /\ UNCHANGED value

Booting ==
    /\ ~up
    /\ view' \in [Registered -> Params]
    /\ UNCHANGED <<value, up, owed, target, answer>>

PowerUp ==
    /\ ~up
    /\ Settled
    /\ up' = TRUE
    /\ UNCHANGED <<value, view, owed, target, answer>>

Next ==
    \/ \E i \in Index, p \in Params : Ask({i}, p)
    \/ \E s \in SUBSET Index : Ask(s, Absent)
    \/ \E i \in Index : Store(i)
    \/ \E i \in Registered, f \in Field : Publish(i, f)
    \/ AnswerOk
    \/ AnswerError
    \/ PowerCut
    \/ Booting
    \/ PowerUp

Spec == Init /\ [][Next]_vars
=============================================================================
