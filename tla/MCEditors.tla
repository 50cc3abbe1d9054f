------------------------------- MODULE MCEditors -------------------------------
(* A layer-tap and a transparent behavior, one layer; the key A and, in the run with the *)
(* right GUI modifier, the symbol PLUS, which is shifted.  Two plain fields of two values *)
(* each, two places, two entries, which are alike.                                        *)
EXTENDS Editors, TLC

CONSTANTS A, PLUS, p1, p2, e1, e2

Metas == [lt |-> <<<<[type |-> "layer_id"]>>, <<[type |-> "hid_usage"]>>>>, trans |-> <<<<>>, <<>>>>]
Codes == [n \in KeyName |-> IF n = PLUS THEN 5 + 2 * KeyCount ELSE 4]
Fields2 == <<"timeout", "layers">>
Given == Binding("lt", 0, 4)
Same == Permutations({p1, p2}) \cup Permutations({e1, e2})
===============================================================================
