-------------------------------- MODULE Groups --------------------------------
(***************************************************************************)
(* The layer groups of .zmkrt-ui.json as the page reads and moves them      *)
(* (cli/ui/src/groups.ts), and the lists that follow their order            *)
(* (components/LayerChoice.tsx, KeyInspector's list of the other layers).   *)
(* A document is a sequence of groups with an id, a name and layer ids; a   *)
(* group may name layers that no longer exist.                              *)
(***************************************************************************)
EXTENDS Naturals, Sequences, FiniteSets

\* No layer is in two groups: what the server asks of a document.
Disjoint(doc) ==
    \A i, j \in DOMAIN doc : i # j => doc[i].layers \cap doc[j].layers = {}

\* No two groups have the same id: _slug counts on until it is free.
UniqueIds(doc) == \A i, j \in DOMAIN doc : doc[i].id = doc[j].id => i = j

\* groupLayers: a live layer is shown in the first group that names it ...
Section(live, doc, i) ==
    {l \in live : l \in doc[i].layers /\ \A j \in DOMAIN doc : j < i => l \notin doc[j].layers}
\* ... or in the last section, with those no group names.
Ungrouped(live, doc) == {l \in live : \A i \in DOMAIN doc : l \notin doc[i].layers}

\* What a list of layers offers: a flat list without groups, the sections with them.
Offered(live, doc) ==
    IF doc = <<>> THEN live
    ELSE Ungrouped(live, doc) \cup UNION {Section(live, doc, i) : i \in DOMAIN doc}

\* groupOf, and with it colorOf: the group a layer is in, live or not; 0 is none.
GroupOf(doc, id) ==
    LET mine == {i \in DOMAIN doc : id \in doc[i].layers}
    IN  IF mine = {} THEN 0 ELSE CHOOSE i \in mine : \A j \in mine : i <= j

\* Slip: the layer is not taken out of the group it was in.
MoveLayerOnly(doc, id, to) ==
    [i \in DOMAIN doc |-> [doc[i] EXCEPT !.layers = IF doc[i].id = to THEN @ \cup {id} ELSE @]]

MoveLayer(doc, id, to) ==
    [i \in DOMAIN doc |->
        [doc[i] EXCEPT !.layers = IF doc[i].id = to THEN @ \cup {id} ELSE @ \ {id}]]

\* The groups but those of this id, in their order.
Without(doc, id) ==
    LET kept == {i \in DOMAIN doc : doc[i].id # id}
        nth(n) == CHOOSE i \in kept : Cardinality({j \in kept : j <= i}) = n
    IN  [n \in 1 .. Cardinality(kept) |-> doc[nth(n)]]
===============================================================================
