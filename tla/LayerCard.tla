------------------------------- MODULE LayerCard -------------------------------
(***************************************************************************)
(* The layer card of the page (cli/ui/src/components/LayerChips.tsx over    *)
(* groups.ts): rows that are renamed, dragged, removed and restored, and    *)
(* the groups that section them.  A removal and a move name their layers    *)
(* by index, everything else by id; a change of the groups sends the whole  *)
(* document.                                                               *)
(*                                                                         *)
(* One thing is open at a time: dialog and menus cover the page, and a text *)
(* field is committed when it loses the focus.                              *)
(***************************************************************************)
EXTENDS Page

VARIABLE open      \* what is open, and what it remembers

cardVars == <<pageVars, open>>

Closed == [ui |-> "none"]
\* Ghost: was nothing under way or missed when this was opened?
Sure == Quiet /\ missed = {}

CardInit == PageInit /\ open = Closed

\* The groups as the card has them: none until they are read.
CardGroups == IF meta = None THEN <<>> ELSE meta

-----------------------------------------------------------------------------
(* Opening: the buttons are disabled while a change is under way, or locked. *)

Rows == 0 .. Len(state.layers) - 1

Open(what) ==
    /\ Shown /\ ~Disabled
    /\ open = Closed
    /\ open' = what
    /\ UNCHANGED pageVars

OpenConfirm(i) == Open([ui |-> "confirm", index |-> i, sure |-> Sure])
DragStart(i) == Open([ui |-> "drag", index |-> i, layer |-> At(state.layers, i), sure |-> Sure])
StartEdit(i) == Open([ui |-> "rename", layer |-> At(state.layers, i)])
OpenLayerMenu(i) == Open([ui |-> "layerMenu", layer |-> At(state.layers, i)])
OpenGroupMenu(g) == Open([ui |-> "groupMenu", group |-> g])
StartCreating == Open([ui |-> "creating"])

StartGroupName ==
    /\ open.ui = "groupMenu"
    /\ open' = [ui |-> "groupName", group |-> open.group]
    /\ UNCHANGED pageVars

\* The dialog names the layer at its index; without one the page fails to draw, and
\* nothing on it works any more.
Broken == open.ui = "confirm" /\ open.index \notin Rows

\* Cancel, Escape, a click beside the menu, a drag that ends nowhere.
Close ==
    /\ open # Closed /\ ~Broken
    /\ open' = Closed
    /\ UNCHANGED pageVars

-----------------------------------------------------------------------------
(* What the card asks for. *)

Do(op, groups) == Run(op, None, groups) /\ open' = Closed
Save(doc) == SaveGroups([doc |-> doc]) /\ open' = Closed

\* Slip: the dialog removes the layer below the one it names.
ConfirmRemoveNext ==
    /\ open.ui = "confirm" /\ ~Broken
    /\ Do([do |-> "remove", index |-> open.index + 1, aim |-> At(state.layers, open.index), sure |-> open.sure], TRUE)

\* The dialog is confirmed: the layer it names now goes.
ConfirmRemove ==
    /\ open.ui = "confirm" /\ ~Broken
    /\ Do([do |-> "remove", index |-> open.index, aim |-> At(state.layers, open.index), sure |-> open.sure], TRUE)

\* A row is dropped on another: the index it had when the drag began goes to the
\* place of the row below it now.
DropOnRow(i) ==
    /\ open.ui = "drag" /\ i # open.index
    /\ Do([do |-> "move", start |-> open.index, dest |-> i,
           aim |-> open.layer, over |-> At(state.layers, i), sure |-> open.sure], TRUE)

CommitRename ==
    /\ open.ui = "rename"
    /\ open.layer \in ToSet(state.layers)
    /\ Do([do |-> "rename", layer |-> open.layer], FALSE)

Add ==
    /\ Shown /\ ~Disabled /\ open = Closed
    /\ Len(state.layers) < Cardinality(LayerId)
    /\ Do([do |-> "add"], TRUE)

\* removed: the layers of the first load that are gone.
Restore(id) ==
    /\ Shown /\ ~Disabled /\ open = Closed
    /\ id \in ToSet(initial) \ ToSet(state.layers)
    /\ Do([do |-> "restore", layer |-> id, index |-> Len(state.layers)], TRUE)

\* A row is dropped on a header, or a group is picked from the row's menu.
ToGroup(to) ==
    /\ open.ui \in {"drag", "layerMenu"}
    /\ Save(MoveLayer(CardGroups, open.layer, to))

DeleteGroup ==
    /\ open.ui = "groupMenu"
    /\ Save(Without(CardGroups, open.group))

\* Another colour: the document is saved as it is, but for the colour.
Recolour ==
    /\ open.ui = "groupMenu"
    /\ Save(CardGroups)

\* The text field is drawn in the header of its group, while there is one of that id.
CommitGroupName(n) ==
    /\ open.ui = "groupName"
    /\ \E i \in DOMAIN CardGroups : CardGroups[i].id = open.group /\ CardGroups[i].name # n
    /\ Save([i \in DOMAIN CardGroups |-> IF CardGroups[i].id = open.group THEN [CardGroups[i] EXCEPT !.name = n] ELSE CardGroups[i]])

CreateGroup(n) ==
    /\ open.ui = "creating"
    /\ Save(Append(CardGroups, [id |-> <<>>, name |-> n, layers |-> {}]))

GroupIds == {CardGroups[i].id : i \in DOMAIN CardGroups}

CardStep ==
    \/ \E i \in Rows : OpenConfirm(i) \/ DragStart(i) \/ StartEdit(i) \/ OpenLayerMenu(i) \/ DropOnRow(i)
    \/ \E g \in GroupIds : OpenGroupMenu(g)
    \/ \E g \in GroupIds \cup {None} : ToGroup(g)
    \/ StartCreating \/ StartGroupName \/ Close
    \/ ConfirmRemove \/ CommitRename \/ Add \/ DeleteGroup \/ Recolour
    \/ \E id \in LayerId : Restore(id)
    \/ \E n \in GroupName : CommitGroupName(n) \/ CreateGroup(n)

\* The rest of the page, while nothing of the card is open.
PageStep ==
    /\ open = Closed
    /\ \/ Refresh \/ DoSnapshot \/ Reset \/ EditKey
       \/ \E p \in Part : EditPart(p)
    /\ UNCHANGED open

ServerStep == (Lock \/ \E l \in Lane : Serve(l)) /\ UNCHANGED open
ReplyStep == Resume /\ UNCHANGED open

CardNext ==
    \/ state # None /\ (CardStep \/ PageStep)
    \/ ServerStep
    \/ ReplyStep

\* Every request is answered, or fails, and the page goes on with every answer.
CardSpec ==
    /\ CardInit /\ [][CardNext]_cardVars
    /\ \A l \in Lane : WF_cardVars(Serve(l) /\ UNCHANGED open)
    /\ WF_cardVars(ReplyStep)

-----------------------------------------------------------------------------
(* Properties. *)

\* Once nothing is under way and no reload has failed the page shows the keyboard and the
\* file as they are, however the reloads of several changes, refreshes and saves
\* overlapped, as long as replies reach the page in the order they were given (InOrder):
\* every change, failed or not, has all of what it may have changed read again.
QuietPageIsFresh ==
    Quiet /\ missed = {} =>
        /\ state.layers = dev.layers /\ state.count = dev.count["keymap"]
        /\ features = FeaturesDoc(Part)
        /\ meta = file

\* A reload of some parts only is merged into a document that has them all: the page
\* never takes a partial document for the features of the keyboard.
FeaturesWhole == features # None => DOMAIN features = Part

\* A removal or move begun on a quiet page hits the layers the page showed, though it
\* names them by index and is carried out later.
SureOpsHit ==
    \A l \in Lane :
        calls[l].at = "op" /\ ~calls[l].served /\ calls[l].sent.do \in {"remove", "move"} =>
            LET op == calls[l].sent
                shows(i, id) == i < Len(dev.layers) /\ At(dev.layers, i) = id
            IN  op.sure => IF op.do = "remove" THEN shows(op.index, op.aim)
                           ELSE shows(op.start, op.aim) /\ shows(op.dest, op.over)

\* No save is refused for a layer in two groups, whatever was renamed, re-slugged,
\* deleted or overtaken since the document was read.
SavesAreAccepted ==
    \A l \in Lane : calls[l].at = "save" => Disjoint(calls[l].sent.doc)

\* The controls come back after every change, and the loading bar goes away.
ControlsComeBack == (busy ~> ~busy) /\ (loading ~> ~loading)

\* The dialog says: the layer with this name and number is removed.  So a removal hits
\* the layer the dialog named.
RemovesWhatItNames ==
    \A l \in Lane :
        calls[l].at = "op" /\ ~calls[l].served /\ calls[l].sent.do = "remove" =>
            LET op == calls[l].sent IN op.index < Len(dev.layers) => At(dev.layers, op.index) = op.aim
=============================================================================
