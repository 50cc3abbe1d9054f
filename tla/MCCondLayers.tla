---------------------------- MODULE MCCondLayers ----------------------------
(* Layers 0 .. 4 and two entries.  Ranked: entry 1 cascades from entry 0,   *)
(* which may be moved between two then-layers and given an empty mask.     *)
(* Loop: each entry's then-layer is the other's only if-layer.             *)
EXTENDS CondLayers, TLC

RankedMasks == 0 :> {{1}, {}} @@ 1 :> {{3}, {2, 3}}
RankedThens == 0 :> {2, 3} @@ 1 :> {4}
RankedDt == 0 :> [mask |-> {1}, then |-> 3] @@ 1 :> [mask |-> {3}, then |-> 4]

LoopMasks == 0 :> {{1}, {3}} @@ 1 :> {{2}}
LoopThens == 0 :> {2} @@ 1 :> {1}
LoopDt == 0 :> [mask |-> {3}, then |-> 2] @@ 1 :> [mask |-> {2}, then |-> 1]
=============================================================================
