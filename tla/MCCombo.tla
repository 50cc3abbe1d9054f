------------------------------- MODULE MCCombo -------------------------------
(* Overlap: combos AB, CD and ABC, which share keys and differ in timeout,   *)
(* layer and kind of release; ab and cd can be active together.  Same: two   *)
(* combos on the keys ab, so that both stay candidates, and bc; room for one *)
(* active combo.  The others are the keyboards of the counterexamples.       *)
EXTENDS Combo, TLC

CONSTANTS kA, kB, kC, kD

P(bind, timeout, idle, layers, slow) ==
    [binding |-> bind, timeout |-> timeout, idle |-> idle, layers |-> layers, slow |-> slow]

Dt == 1 :> P("X", 1, 0, {}, FALSE) @@ 2 :> P("Y", 2, 1, {1}, FALSE) @@ 3 :> P("Z", 2, 0, {}, TRUE)
Dt4 == Dt @@ 4 :> P("Z", 2, 0, {}, TRUE)

NoEdits == [i \in 1 .. 4 |-> P({}, {}, {}, {}, {})]

Overlap ==
    [positions |-> {kA, kB, kC, kD}, tapKeys |-> {kA},
     keys |-> 1 :> {kA, kB} @@ 2 :> {kC, kD} @@ 3 :> {kA, kB, kC},
     edits |-> [NoEdits EXCEPT ![1] = P({}, {1, 2}, {}, {}, {})],
     layers |-> {1}, maxPressed |-> 3]

Same ==
    [positions |-> {kA, kB, kC}, tapKeys |-> {kA, kC},
     keys |-> 1 :> {kA, kB} @@ 2 :> {kA, kB} @@ 3 :> {kB, kC},
     edits |-> NoEdits, layers |-> {0, 1}, maxPressed |-> 1]

Two == [Overlap EXCEPT !.tapKeys = {kA, kC}, !.layers = {0, 1}, !.maxPressed = 2]
Slow == [Two EXCEPT !.edits = [NoEdits EXCEPT ![3] = P({}, {}, {}, {}, BOOLEAN)]]
Stale ==
    [Overlap EXCEPT !.tapKeys = {}, !.edits = NoEdits, !.maxPressed = 1,
                    !.keys = 1 :> {kA, kB} @@ 2 :> {kB, kD} @@ 3 :> {kC, kD} @@ 4 :> {kA, kB, kC}]

BothBuilds == {Overlap, Same}
SameBuild == {Same}
SlowBuild == {Slow}
StaleBuild == {Stale}
TimerBuild == {[Two EXCEPT !.edits = NoEdits]}
=============================================================================
