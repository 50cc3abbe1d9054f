------------------------------- MODULE Editors -------------------------------
(***************************************************************************)
(* The forms that edit the keyboard (cli/ui/src/components/KeyInspector,    *)
(* EncoderInspector, ComboInspector, HoldtapSection; panels/CondlayerPanel, *)
(* MacroPanel, TrackballPanel).  A form opens on the page's document, keeps *)
(* what the user changes in a draft, and applies it with one request, or    *)
(* with one for each changed field that stops at the first failure.  Then   *)
(* the document is loaded again and the form opens anew on it.              *)
(*                                                                         *)
(* One form is looked at in a behaviour, and the part of the keyboard it    *)
(* edits: places that can be selected, each with the cards (both directions *)
(* of an encoder, the conditional layers) it shows at once.                 *)
(***************************************************************************)
EXTENDS Requests, Bindings

CONSTANTS
    Forms,         \* the forms to look at
    Place,         \* what can be selected: keys, combos, slots, layers, processors
    Entry,         \* the conditional layers, the directions of an encoder
    Plain,         \* the names of fields that hold a number, a choice or a set of layers
    Value,         \* the values of such a field; 0 is the devicetree's
    MaxSteps,      \* max_steps
    MaxTouched,    \* fields changed in a form at once (bound)
    FirstBinding,  \* the devicetree's binding
    Transparent    \* the behavior that is called Transparent, if there is one

ASSUME EditorsAssumption ==
    /\ Forms \subseteq {"key", "encoder", "combo", "holdtap", "condlayer", "macro", "trackball"}
    /\ Plain \in Seq(STRING) /\ Len(Plain) >= 1 /\ \A i \in DOMAIN Plain : Plain[i] # "binding"
    /\ 0 \in Value
    /\ MaxSteps \in Nat /\ MaxTouched \in Nat

VARIABLES
    form,      \* the form looked at
    dev,       \* what the keyboard holds, by place and card
    doc,       \* the page's document of it
    place,     \* the place that is selected
    drafts,    \* the draft of each card
    touched,   \* ghost: the fields the user changed since the draft was seeded
    missed     \* has a reload failed (since the last refresh on a quiet page)?

editorVars == <<form, dev, doc, place, drafts, touched, missed, calls, replies, events>>

\* Forms that send the changed fields only, one by one; the others send all of them.
OneByOne == {"combo", "holdtap", "trackball"}

Fields ==
    CASE form = "key" -> <<"binding">>
      [] form \in {"encoder", "combo"} -> <<"binding", Plain[1]>>
      [] form = "macro" -> <<"steps">>
      [] form \in {"holdtap", "condlayer", "trackball"} -> Plain
Field == ToSet(Fields)

Card == IF form \in {"encoder", "condlayer"} THEN Entry ELSE {"it"}

\* What a place holds until it is set.  A combo's binding is an override, None at first.
Devicetree ==
    [f \in Field |-> CASE f = "binding" -> IF form = "combo" THEN None ELSE FirstBinding
                       [] f = "steps" -> <<>>
                       [] OTHER -> 0]

\* draftOf: a draft opens on what the keyboard does, not on the marker for "not set".
Seed(held) == [f \in Field |-> IF held[f] = None THEN FirstBinding ELSE held[f]]
Seeds(content, p) == [c \in Card |-> Seed(content[p][c])]
Untouched == [c \in Card |-> {}]

\* One field, or all the fields, of one card.
Set(c, f, v) == [x \in {c} |-> [y \in {f} |-> v]]
All(c, content) == [x \in {c} |-> content]
Mine(c, fields) == [Untouched EXCEPT ![c] = fields]

Init ==
    /\ form \in Forms
    /\ dev = [p \in Place |-> [c \in Card |-> Devicetree]]
    /\ doc = dev
    /\ place \in Place
    /\ drafts = Seeds(doc, place) /\ touched = Untouched
    /\ missed = FALSE
    /\ calls = [l \in Lane |-> Free] /\ replies = <<>> /\ events = 0

\* The controls are disabled while a change is under way.
Busy == \E l \in Lane : calls[l].at = "op"
Sure == Quiet /\ ~missed

drawn == <<form, place>>
forms == <<drawn, doc, drafts, touched>>

-----------------------------------------------------------------------------
(* The server and the keyboard. *)

\* A request sets some fields of some cards of a place.
With(content, p, set) ==
    [content EXCEPT ![p] = [c \in Card |->
        [f \in Field |-> IF c \in DOMAIN set /\ f \in DOMAIN set[c] THEN set[c][f] ELSE content[p][c][f]]]]

\* Carried out, or answered with an error although it may have been.
ServeSet(l) ==
    /\ Asked(l, {"op"})
    /\ LET after == With(dev, calls[l].place, Head(calls[l].sends)) IN
       \/ dev' = after /\ Reply(l, TRUE, None) /\ UNCHANGED events
       \/ dev' \in {dev, after} /\ Reply(l, FALSE, None) /\ Another
    /\ UNCHANGED <<forms, missed>>

ServeRead(l) ==
    /\ Asked(l, {"state", "features", "parse"})
    /\ LET answer == IF calls[l].at = "parse" THEN calls[l].steps ELSE dev IN
       \/ Reply(l, TRUE, answer) /\ UNCHANGED events
       \/ Reply(l, FALSE, None) /\ Another
    /\ UNCHANGED <<forms, dev, missed>>

Serve(l) == ServeSet(l) \/ ServeRead(l)

-----------------------------------------------------------------------------
(* The page goes on with a reply. *)

Reading == [at |-> "state", served |-> FALSE]

\* apply: the next of the requests, unless one failed; in the end the reload.
SetAnswered(k) ==
    LET l == replies[k].to
        c == calls[l]
    IN
    /\ c.at = "op"
    /\ GoOn(l, IF replies[k].ok /\ Len(c.sends) > 1
               THEN [c EXCEPT !.sends = Tail(@), !.served = FALSE]
               ELSE Reading)
    /\ UNCHANGED <<forms, missed>>

\* A key's form opens anew on another binding, a number of the trackball on another
\* number; the other forms on every document.
Kept(c, f) == form \in {"key", "trackball"} /\ doc'[place][c][f] = doc[place][c][f]
Reseed ==
    /\ drafts' = [c \in Card |-> [f \in Field |-> IF Kept(c, f) THEN drafts[c][f] ELSE Seed(doc'[place][c])[f]]]
    /\ touched' = [c \in Card |-> {f \in touched[c] : Kept(c, f)}]

\* The state is there, and with it the keymap.
StateRead(k) ==
    LET r == replies[k] IN
    /\ calls[r.to].at = "state" /\ r.ok
    /\ GoOn(r.to, Then(calls[r.to], "features"))
    /\ IF form = "key" THEN doc' = r.doc /\ Reseed ELSE UNCHANGED <<doc, drafts, touched>>
    /\ UNCHANGED <<drawn, missed>>

\* Slip: the forms are seeded when something is selected, not from each new document.
FeaturesReadOnly(k) ==
    LET r == replies[k] IN
    /\ calls[r.to].at = "features" /\ r.ok
    /\ GoOn(r.to, Free)
    /\ IF form = "key" THEN UNCHANGED doc ELSE doc' = r.doc
    /\ UNCHANGED <<drawn, drafts, touched, missed>>

\* The features are there, which hold everything else.
FeaturesRead(k) ==
    LET r == replies[k] IN
    /\ calls[r.to].at = "features" /\ r.ok
    /\ GoOn(r.to, Free)
    /\ IF form = "key" THEN UNCHANGED <<doc, drafts, touched>> ELSE doc' = r.doc /\ Reseed
    /\ UNCHANGED <<drawn, missed>>

ReloadFailed(k) ==
    LET r == replies[k] IN
    /\ calls[r.to].at \in {"state", "features"} /\ ~r.ok
    /\ GoOn(r.to, Free)
    /\ missed' = TRUE
    /\ UNCHANGED forms

\* The steps of a parsed text replace the table, of whichever slot is shown by now.
Parsed(k) ==
    LET r == replies[k] IN
    /\ calls[r.to].at = "parse"
    /\ GoOn(r.to, Free)
    /\ IF r.ok THEN drafts' = All("it", [steps |-> r.doc]) /\ touched' = [it |-> {"steps"}]
       ELSE UNCHANGED <<drafts, touched>>
    /\ UNCHANGED <<drawn, doc, missed>>

Resume ==
    \E k \in DOMAIN replies :
        /\ Arrives(k) /\ Take(k)
        /\ SetAnswered(k) \/ StateRead(k) \/ FeaturesRead(k) \/ ReloadFailed(k) \/ Parsed(k)
        /\ UNCHANGED <<dev, events>>

-----------------------------------------------------------------------------
(* What the user does.  The controls are disabled while a change is under way. *)

\* Something is selected, or closed and opened again: its form opens on the document.
Show(p) ==
    /\ place' = p
    /\ drafts' = Seeds(doc, p) /\ touched' = Untouched
    /\ UNCHANGED <<form, dev, doc, missed, calls, replies, events>>

Draft(c, f, v) ==
    /\ drafts[c][f] # v
    /\ f \in touched[c] \/ Cardinality({x \in Card \X Field : x[2] \in touched[x[1]]}) < MaxTouched
    /\ drafts' = [drafts EXCEPT ![c][f] = v]
    /\ touched' = [touched EXCEPT ![c] = @ \cup {f}]
    /\ UNCHANGED <<drawn, dev, doc, missed, calls, replies, events>>

SelectInInspector(p) == form \in {"key", "combo", "holdtap"} /\ Show(p)
SelectSensor(p) == form = "encoder" /\ Show(p)
SelectSlot(p) == form = "macro" /\ Show(p)
SelectProcessor(p) == form = "trackball" /\ Show(p)

\* The fields of the forms.
EditBinding(c) == ~Busy /\ \E b \in Edited(drafts[c].binding) : Draft(c, "binding", b)
SetField(c, f) == ~Busy /\ \E v \in Value : Draft(c, f, v)

EditKey == form = "key" /\ EditBinding("it")
EditDirection(c) == form = "encoder" /\ (EditBinding(c) \/ SetField(c, Plain[1]))
EditCombo == form = "combo" /\ (EditBinding("it") \/ SetField("it", Plain[1]))
EditHoldtap == form = "holdtap" /\ \E f \in Field : SetField("it", f)
EditCondlayer(c) == form = "condlayer" /\ \E f \in Field : SetField(c, f)
\* Of the trackball only a number is drafted; it is sent when the field is left.
TypeNumber == form = "trackball" /\ SetField("it", Plain[1])

\* The table of macro steps, of which only the keycodes are looked at.  The picker of a
\* keycode is not disabled.
Rows == drafts["it"].steps
SetRows(rows) == Draft("it", "steps", rows)
AddRow == ~Busy /\ Len(Rows) < MaxSteps /\ SetRows(Append(Rows, KeyA))
PatchRow(i) == \E v \in Clicks(Rows[i]) : SetRows([Rows EXCEPT ![i] = v])
MoveRow(i) == ~Busy /\ i + 1 \in DOMAIN Rows /\ SetRows([Rows EXCEPT ![i] = Rows[i + 1], ![i + 1] = Rows[i]])
DeleteRow(i) == ~Busy /\ SetRows(RemoveAt(Rows, i))
EditRows ==
    /\ form = "macro"
    /\ AddRow \/ \E i \in DOMAIN Rows : PatchRow(i) \/ MoveRow(i) \/ DeleteRow(i)

\* A change: the requests it takes, each the fields it sets by card.
Change(sends, mine) ==
    /\ ~Busy
    /\ Start([at |-> "op", served |-> FALSE, place |-> place, sends |-> sends, mine |-> mine, sure |-> Sure])
    /\ UNCHANGED <<forms, dev, missed, replies>>

\* These fields of the form, in their order.
InOrderOf(kept) ==
    LET at == {i \in DOMAIN Fields : Fields[i] \in kept}
        nth(n) == CHOOSE i \in at : Cardinality({j \in at : j <= i}) = n
    IN  [n \in 1 .. Cardinality(at) |-> Fields[nth(n)]]

\* Slip: compared with what the document holds, not with what the form opened on.
ChangedRaw(c) == InOrderOf({f \in Field : drafts[c][f] # doc[place][c][f]})
Changed(c) == InOrderOf({f \in Field : drafts[c][f] # Seed(doc[place][c])[f]})

\* The button of a form: all it holds in one request, or one for each changed field.
ApplyWhole(c) == Change(<<All(c, drafts[c])>>, touched)
ApplyChanged ==
    LET fields == Changed("it") IN
    /\ fields # <<>>
    /\ Change([i \in DOMAIN fields |-> Set("it", fields[i], drafts["it"][fields[i]])], touched)

ApplyKey == form = "key" /\ ApplyWhole("it")
ApplyMacro == form = "macro" /\ ApplyWhole("it")
ApplyDirection(c) == form = "encoder" /\ Changed(c) # <<>> /\ ApplyWhole(c)
ApplyCondlayer(c) == form = "condlayer" /\ Changed(c) # <<>> /\ ApplyWhole(c)
ApplyCombo == form = "combo" /\ ApplyChanged
ApplyHoldtap == form = "holdtap" /\ ApplyChanged
LeaveNumber == form = "trackball" /\ ApplyChanged

\* A choice or a box of the trackball is sent at once.
Choose1(f, v) ==
    /\ form = "trackball" /\ f \in Field \ {Plain[1]} /\ v # doc[place]["it"][f]
    /\ Change(<<Set("it", f, v)>>, Mine("it", {f}))

\* Back to the devicetree: the entry, or both directions of an encoder.
ToDevicetree(these) == Change(<<[x \in these |-> Devicetree]>>, [x \in Card |-> Field])
ResetEncoder == form = "encoder" /\ ToDevicetree(Card)
ResetCombo == form = "combo" /\ ToDevicetree(Card)
ResetHoldtap == form = "holdtap" /\ ToDevicetree(Card)
ResetCondlayer(c) == form = "condlayer" /\ ToDevicetree({c})
ResetTrackball == form = "trackball" /\ ToDevicetree(Card)

\* An emptied macro, a transparent key: sent without the draft.
Clear == form = "macro" /\ Change(<<All("it", [steps |-> <<>>])>>, Mine("it", {"steps"}))
MakeTransparent(b) ==
    /\ form = "key"
    /\ Change(<<Set("it", "binding", Binding(b, 0, 0))>>, Mine("it", {"binding"}))

\* The text of a macro is parsed, whatever else is under way.
Parse(rows) ==
    /\ form = "macro"
    /\ Start([at |-> "parse", served |-> FALSE, steps |-> rows])
    /\ UNCHANGED <<forms, dev, missed, replies>>

Refresh ==
    /\ ~Busy
    /\ Start(Reading)
    /\ missed' = (missed /\ ~Quiet)
    /\ UNCHANGED <<forms, dev, replies>>

\* The texts the user parses: no steps, or one (bound).
Texts == {<<>>, <<KeyA>>}

User ==
    \/ \E p \in Place : SelectInInspector(p) \/ SelectSensor(p) \/ SelectSlot(p) \/ SelectProcessor(p)
    \/ \E c \in Card :
        \/ EditDirection(c) \/ ApplyDirection(c)
        \/ EditCondlayer(c) \/ ApplyCondlayer(c) \/ ResetCondlayer(c)
    \/ EditKey \/ EditCombo \/ EditHoldtap \/ TypeNumber
    \/ ApplyKey \/ ApplyCombo \/ ApplyHoldtap \/ ApplyMacro \/ LeaveNumber
    \/ ResetEncoder \/ ResetCombo \/ ResetHoldtap \/ ResetTrackball
    \/ \E f \in Field, v \in Value : Choose1(f, v)
    \/ \E b \in Transparent : MakeTransparent(b)
    \/ \E rows \in Texts : Parse(rows)
    \/ EditRows \/ Clear \/ Refresh

Next == User \/ Resume \/ \E l \in Lane : Serve(l)
Spec == Init /\ [][Next]_editorVars

-----------------------------------------------------------------------------
(* What must hold. *)

\* Opening a form and applying it writes nothing the user did not change: a field that is
\* sent is one the user touched, or (in the forms that send everything) has the value the
\* keyboard has; unless the document is being loaded or could not be.
UntouchedStays ==
    \A l \in Lane : Asked(l, {"op"}) =>
        LET op == calls[l]
            set == Head(op.sends)
        IN  \A c \in DOMAIN set : \A f \in DOMAIN set[c] :
                \/ f \in op.mine[c]
                \/ /\ form \notin OneByOne
                   /\ op.sure => set[c][f] = Seed(dev[op.place][c])[f]

\* When nothing is under way and no reload has failed, a form shows what the keyboard does
\* in every field the user has not touched since.
FormShowsKeyboard ==
    Sure => \A c \in Card : \A f \in Field \ touched[c] : drafts[c][f] = Seed(dev[place][c])[f]

\* The parameters of a drafted binding mean something to its behavior: a layer is a layer,
\* a constant one of the behavior's.
ParamsFit == \A c \in Card : "binding" \in Field => BindingFits(drafts[c].binding)

\* A keycode that is sent is an unsigned number of the width the firmware reads, with any
\* of the modifiers the picker offers.
Unsigned(v) == v \in 0 .. Words - 1
KeycodesFitTheDevice ==
    \A l \in Lane : Asked(l, {"op"}) =>
        LET set == Head(calls[l].sends) IN
        \A c \in DOMAIN set : \A f \in DOMAIN set[c] :
            /\ f = "steps" => \A i \in DOMAIN set[c][f] : Unsigned(set[c][f][i])
            /\ f = "binding" /\ set[c][f] # None => \A i \in {1, 2} : Unsigned(set[c][f].param[i])
=============================================================================
