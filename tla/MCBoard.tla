-------------------------------- MODULE MCBoard --------------------------------
(* Keymaps of one and two layers of two keys, of which one varies: a momentary layer, a   *)
(* to-layer, a layer-tap (one parameter a layer), a mod-tap, and a behavior with a fixed  *)
(* target and two parameters that are layers.                                             *)
EXTENDS Board, TLC

LayerDesc == <<[type |-> "layer_id"]>>
KeyDesc == <<[type |-> "hid_usage"]>>
Metas == [mo |-> <<LayerDesc, <<>>>>, lt |-> <<LayerDesc, KeyDesc>>, to |-> <<LayerDesc, <<>>>>,
          mt |-> <<KeyDesc, KeyDesc>>, os |-> <<LayerDesc, LayerDesc>>]
Hows == [mo |-> "hold", to |-> "tap", mt |-> "none"]
Targets == [os |-> 0]
Pair(x, y) == [p \in Pos |-> IF p = 0 THEN x ELSE y]
Varied == {Binding("mo", 1, 0), Binding("to", 0, 0), Binding("os", 0, 1)}
Maps == {<<Pair(x, Binding("lt", 1, 1)), Pair(y, Binding("mo", 1, 0))>> : x, y \in Varied}
        \cup {<<Pair(Binding("mt", 1, 1), Binding("mo", 1, 0))>>}
Docs == {[condlayers |-> {[ifs |-> {0}, then |-> 1]}, temp |-> {}, combos |-> {[index |-> 0, layers |-> {1}]}],
         [condlayers |-> {}, temp |-> {0}, combos |-> {}]}
\* The second layer has a name with a note in some of the keymaps.
NamesWithNotes == [k \in Maps |-> IF k[1][0].behavior = "mo" THEN {1} ELSE {}]
NoCodes == [n \in KeyName |-> 0]
================================================================================
