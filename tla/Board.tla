--------------------------------- MODULE Board ---------------------------------
(***************************************************************************)
(* The board of the keymap tab and the lists beside it (cli/ui/src/App.tsx, *)
(* activators.ts, board.ts, components/Keyboard, LayerEntry, LayerKeyList,  *)
(* ComboList, ComboOverlay, Rail): what is shown and what is selected, and  *)
(* the keys that lead into a layer, which the marks on the caps, the banner *)
(* above them, the list of layer keys and the layer card all show.          *)
(***************************************************************************)
EXTENDS Bindings

CONSTANTS
    None,         \* null
    Pos,          \* the key positions
    HowOf,        \* HOW_BY_BEHAVIOR, "none" for null
    TargetOf,     \* BEHAVIOR_TARGET_LAYER
    Keymaps,      \* the keymaps to look at: sequences of layers, of bindings by position
    Noted,        \* layerNotes of the board's decor: the layers of a keymap whose names have a note
    FeatureDocs,  \* the features documents: the condlayers, the temporary layers, the combos
    Sensor        \* the encoders the drawn keyboard does not have a place for

How == {"hold", "tap", "toggle", "sticky"}

ASSUME BoardAssumption ==
    /\ HowOf \in [DOMAIN HowOf -> How \cup {"none"}]
    /\ TargetOf \in [DOMAIN TargetOf -> Nat]
    /\ \A k \in Keymaps : k # <<>> /\ k \in Seq({k[i] : i \in DOMAIN k})
    /\ DOMAIN Noted = Keymaps /\ \A k \in Keymaps : Noted[k] \subseteq 0 .. Len(k) - 1

VARIABLES
    keymap,       \* state.keymap.layers
    features,     \* the features document, None until it is there
    tab,
    layerIdx,     \* the layer that was selected; there may be fewer by now
    selection,    \* the key, combo or encoder the inspector is open on
    hoverKey,     \* the position the layer-key list points at
    hoverCombo,   \* the combo pointed at
    showCombos,   \* are the combos drawn on the board?
    entryHidden,  \* is the banner hidden?
    practice      \* the practice mode

boardVars == <<keymap, features, tab, layerIdx, selection, hoverKey, hoverCombo, showCombos, entryHidden, practice>>

Tab == {"keymap", "macro", "condlayer", "trackball"}

BoardInit ==
    /\ keymap \in Keymaps /\ features = None
    /\ tab = "keymap" /\ layerIdx = 0 /\ selection = None
    /\ hoverKey = None /\ hoverCombo = None
    /\ showCombos \in BOOLEAN /\ entryHidden \in BOOLEAN
    /\ practice = FALSE

-----------------------------------------------------------------------------
(* How a layer is entered. *)

Index == 0 .. Len(keymap) - 1
At(l, p) == keymap[l + 1][p]
Key(l, p, how) == [layer |-> l, pos |-> p, how |-> how, behavior |-> At(l, p).behavior]

HowFor(b) == IF b \in DOMAIN HowOf THEN HowOf[b] ELSE "hold"

\* layerActivators, its keys: a parameter that is a layer, or a behavior with a fixed one.
KeyActivators(target) ==
    LET on(x) == At(x[1], x[2])
        names == {x \in Index \X Pos :
                    \E i \in {1, 2} : ParamKind(Meta[on(x).behavior][i]) = "layer_id" /\ on(x).param[i] = target}
        fixed == {x \in Index \X Pos : on(x).behavior \in DOMAIN TargetOf /\ TargetOf[on(x).behavior] = target}
    IN  {a \in {Key(x[1], x[2], HowFor(on(x).behavior)) : x \in names} : a.how # "none"}
        \cup {Key(x[1], x[2], "tap") : x \in fixed}

\* ... and the ways in without a key: a note goes by the layer's name.  The first layer is
\* never shown as unreachable.
Rest(target) ==
    LET ways == {w \in {"condlayer", "trackball", "note"} :
                    \/ w = "condlayer" /\ features # None /\ \E e \in features.condlayers : e.then = target
                    \/ w = "trackball" /\ features # None /\ target \in features.temp
                    \/ w = "note" /\ target \in Noted[keymap]}
    IN  IF ways = {} /\ KeyActivators(target) = {} /\ target = 0 THEN {"base"} ELSE ways

\* Slip: one entry for a position, whatever is done to the key.
GroupKeysByPos(acts) ==
    {[pos |-> a.pos, how |-> a.how, on |-> {b.layer : b \in {x \in acts : x.pos = a.pos}}] : a \in acts}

\* groupKeyActivators: one entry for a key and a gesture, with the layers it works on.
GroupKeys(acts) ==
    {[pos |-> a.pos, how |-> a.how, on |-> {b.layer : b \in {x \in acts : x.pos = a.pos /\ x.how = a.how}}] :
        a \in acts}

\* The marks on the caps: actByPos, and in its tooltip howGroups.
ActsAt(acts, p) == {a \in acts : a.pos = p}
HowGroups(acts) == [h \in {a.how : a \in acts} |-> {a.layer : a \in {x \in acts : x.how = h}}]

\* For the layer that is shown: what a cap says of it, and the banner above the board;
\* the list of the keys of all layers.
Shown == IF layerIdx \in Index THEN layerIdx ELSE Len(keymap) - 1
CapShows(p) == HowGroups(ActsAt(KeyActivators(Shown), p))
Banner == GroupKeys(KeyActivators(Shown))
Row(g, target) == [pos |-> g.pos, how |-> g.how, on |-> g.on, target |-> target]
LayerKeyRows == UNION {{Row(g, target) : g \in GroupKeys(KeyActivators(target))} : target \in Index}

\* The layer card's marks for a layer: a note is shown as the trackball is.
MarksFor(l) ==
    (IF KeyActivators(l) # {} THEN {"key"} ELSE {}) \cup (Rest(l) \cap {"condlayer"})
    \cup (IF Rest(l) \cap {"trackball", "note"} # {} THEN {"TB"} ELSE {})

\* The combos drawn on a layer: those without a layer, and those that name it.
Combos == IF features = None THEN {} ELSE features.combos
ActiveCombos(l) == {c \in Combos : c.layers = {} \/ l \in c.layers}

-----------------------------------------------------------------------------
(* What the user points at and selects. *)

OnBoard == tab = "keymap"
KeyAt(p) == [kind |-> "key", at |-> p]
Select(sel) == selection' = sel
looks == <<keymap, features, tab, showCombos, entryHidden, practice>>
hovers == <<hoverKey, hoverCombo>>

SelectLayer(l) ==
    /\ OnBoard /\ layerIdx' = l
    /\ UNCHANGED <<looks, selection, hovers>>

\* A cap is clicked.
SelectKey(p) ==
    /\ OnBoard /\ Select(KeyAt(p))
    /\ UNCHANGED <<looks, layerIdx, hovers>>

\* The lists beside the board are there while nothing is selected.
Lists == OnBoard /\ selection = None
InList(c) == Lists /\ c \in Combos
OnOverlay(c) == OnBoard /\ showCombos /\ c \in ActiveCombos(Shown)
Seen(c) == InList(c) \/ OnOverlay(c)

SelectCombo(c) ==
    /\ Seen(c) /\ Select([kind |-> "combo", at |-> c.index])
    /\ UNCHANGED <<looks, layerIdx, hovers>>

\* The pointer enters something, or leaves what is still there.
PointAtCombo(c) == Seen(c) /\ hoverCombo' = c.index /\ UNCHANGED <<looks, layerIdx, selection, hoverKey>>
LeaveCombo ==
    /\ \E c \in Combos : c.index = hoverCombo /\ Seen(c)
    /\ hoverCombo' = None
    /\ UNCHANGED <<looks, layerIdx, selection, hoverKey>>
PointAtRow(r) == Lists /\ hoverKey' = r.pos /\ UNCHANGED <<looks, layerIdx, selection, hoverCombo>>
LeaveRow ==
    /\ Lists /\ \E r \in LayerKeyRows : r.pos = hoverKey
    /\ hoverKey' = None
    /\ UNCHANGED <<looks, layerIdx, selection, hoverCombo>>

\* onGo: the key of an entry is shown on one of the layers it works on.
Go(l, p) ==
    /\ layerIdx' = l /\ Select(KeyAt(p))
    /\ UNCHANGED <<looks, hovers>>
GoFromBanner(k) ==
    /\ OnBoard /\ ~entryHidden /\ ~practice
    /\ Go(Min(k.on), k.pos)
\* Slip: the key is shown on the layer that is shown.
GoFromListHere(r) ==
    /\ Lists
    /\ Go(Shown, r.pos)

GoFromList(r) ==
    /\ Lists
    /\ Go(IF Shown \in r.on THEN Shown ELSE Min(r.on), r.pos)

\* The tabs; the trackball on the board; the encoder a keyboard shows no place for.
ChangeTab(t) ==
    /\ tab' = t /\ selection' = IF t = "keymap" THEN selection ELSE None
    /\ UNCHANGED <<keymap, features, layerIdx, hovers, showCombos, entryHidden, practice>>
OpenEncoder(s) ==
    /\ features # None
    /\ tab' = "keymap" /\ Select([kind |-> "encoder", at |-> s])
    /\ UNCHANGED <<keymap, features, layerIdx, hovers, showCombos, entryHidden, practice>>

Close ==
    /\ selection # None /\ Select(None)
    /\ UNCHANGED <<looks, layerIdx, hovers>>

ToggleCombos ==
    /\ Lists /\ showCombos' = ~showCombos
    /\ UNCHANGED <<keymap, features, tab, layerIdx, selection, hovers, entryHidden, practice>>
\* The banner's cross, and the layer card's button that brings it back.
ToggleEntry ==
    /\ OnBoard /\ entryHidden' = (~entryHidden /\ ~practice)
    /\ UNCHANGED <<keymap, features, tab, layerIdx, selection, hovers, showCombos, practice>>

\* Practice needs the width of the inspector.
TogglePractice ==
    /\ practice' = ~practice /\ selection' = IF practice THEN selection ELSE None
    /\ UNCHANGED <<keymap, features, tab, layerIdx, hovers, showCombos, entryHidden>>

\* The documents are read again, after a change or on the refresh button.
Reload ==
    /\ \/ keymap' \in Keymaps /\ UNCHANGED features
       \/ features' \in FeatureDocs /\ UNCHANGED keymap
    /\ UNCHANGED <<tab, layerIdx, selection, hovers, showCombos, entryHidden, practice>>

BoardNext ==
    \/ \E l \in Index : SelectLayer(l)
    \/ \E p \in Pos : SelectKey(p)
    \/ \E c \in Combos : SelectCombo(c) \/ PointAtCombo(c)
    \/ \E k \in Banner : GoFromBanner(k)
    \/ \E r \in LayerKeyRows : GoFromList(r) \/ PointAtRow(r)
    \/ \E t \in Tab : ChangeTab(t)
    \/ \E s \in Sensor : OpenEncoder(s)
    \/ LeaveCombo \/ LeaveRow \/ Close \/ ToggleCombos \/ ToggleEntry \/ TogglePractice \/ Reload

BoardSpec == BoardInit /\ [][BoardNext]_boardVars

-----------------------------------------------------------------------------
(* What must hold. *)

\* The caps, the banner and the list, which group the keys that lead into a layer each in
\* their own way, show the same keys, gestures and layers for the layer that is shown, and
\* the layer card marks it as entered by a key when the banner has one: App.tsx has one map
\* of activators for them because "all three must agree".
ViewsAgree ==
    LET ways == {<<a.layer, a.pos, a.how>> : a \in KeyActivators(Shown)}
        Flat(groups) == UNION {{<<l, g.pos, g.how>> : l \in g.on} : g \in groups}
        caps == {x \in Pos \X How : x[2] \in DOMAIN CapShows(x[1])}
    IN  /\ UNION {{<<l, x[1], x[2]>> : l \in CapShows(x[1])[x[2]]} : x \in caps} = ways
        /\ Flat(Banner) = ways
        /\ Flat({r \in LayerKeyRows : r.target = Shown}) = ways
        /\ "key" \in MarksFor(Shown) <=> Banner # {}

\* An entry of the banner or of the list opens a key that, on the layer then shown, leads
\* to the layer the entry names, by the gesture it names.
LeadsTo(l, p, how, target) == \E a \in KeyActivators(target) : a.layer = l /\ a.pos = p /\ a.how = how
GoShowsTheKey ==
    [][/\ \A k \in Banner : GoFromBanner(k) => LeadsTo(layerIdx', selection'.at, k.how, Shown)
       /\ \A r \in LayerKeyRows : GoFromList(r) => LeadsTo(layerIdx', selection'.at, r.how, r.target)]_boardVars

\* A ring or a lit combo is under the pointer.  Not so: what is clicked takes the list away
\* from under the pointer, and the page is not told that the pointer left.
RingUnderPointer == hoverKey # None => Lists
================================================================================
