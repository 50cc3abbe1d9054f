------------------------------ MODULE MCHoldTap -------------------------------
(* Two hold-taps and a modifier key, on two keyboards.  Mixed: a retro tap    *)
(* that holds early and a positional hold-tap, room for everything.  Busy:    *)
(* one active hold-tap at a time, two captured events, quick tap and ignored  *)
(* keys.                                                                      *)
EXTENDS HoldTap, TLC

CONSTANTS kA, kB, kM

C(retro, early, linger, triggers, onRelease, ignore) ==
    [retro |-> retro, early |-> early, linger |-> linger,
     triggers |-> triggers, onRelease |-> onRelease, ignore |-> ignore]
T(term, quick, idle, flavor) == [term |-> term, quick |-> quick, idle |-> idle, flavor |-> flavor]

Mixed ==
    [config |-> kA :> C(TRUE, TRUE, FALSE, {}, FALSE, {}) @@ kB :> C(FALSE, FALSE, FALSE, {kA}, FALSE, {}),
     timing |-> kA :> T(1, -1, -1, "balanced") @@ kB :> T(2, -1, -1, "tap-preferred"),
     edits |-> kA :> T({}, {}, {}, {"balanced", "hold-preferred"}) @@ kB :> T({}, {}, {}, {}),
     maxHeld |-> 2, maxCaptured |-> 5, maxTime |-> 4]

Busy ==
    [config |-> kA :> C(FALSE, FALSE, FALSE, {}, FALSE, {kB}) @@ kB :> C(FALSE, FALSE, FALSE, {kM}, FALSE, {}),
     timing |-> kA :> T(1, 1, -1, "hold-preferred") @@ kB :> T(2, 1, 1, "tap-unless-interrupted"),
     edits |-> kA :> T({}, {1, 2}, {}, {}) @@ kB :> T({}, {}, {}, {"tap-unless-interrupted", "balanced"}),
     maxHeld |-> 1, maxCaptured |-> 2, maxTime |-> 3]

OwnKey == [Mixed EXCEPT !.config[kB].onRelease = TRUE]

BothBuilds == {Mixed, Busy}
OwnKeyBuild == {OwnKey}
=============================================================================
