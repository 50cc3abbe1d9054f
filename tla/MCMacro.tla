------------------------------- MODULE MCMacro --------------------------------
(* A chord, a macro longer than a slot, which is unbalanced once it is cut   *)
(* and shares no step with the chord, and one that never was balanced.       *)
EXTENDS Macro

Step(t, k, h, w) == [type |-> t, key |-> k, hold |-> h, wait |-> w]
Chord == <<Step("press", "globe", FALSE, TRUE), Step("tap", "left", TRUE, FALSE), Step("release", "globe", FALSE, FALSE)>>
Stuck == <<Step("press", "z", FALSE, FALSE)>>
Long == <<Step("press", "y", FALSE, FALSE), Step("tap", "x", TRUE, TRUE), Step("tap", "x", FALSE, FALSE), Step("release", "y", FALSE, FALSE)>>
ShortMacros == {Chord, <<>>}
MCMacros == {Chord, Stuck, Long, <<>>}
=============================================================================
