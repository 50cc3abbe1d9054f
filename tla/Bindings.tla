------------------------------- MODULE Bindings -------------------------------
(***************************************************************************)
(* A binding, and the form that edits it (cli/ui/src/params.ts,             *)
(* components/BindingForm.tsx, BehaviorPicker.tsx): a behavior and two      *)
(* parameters, which mean what the behavior's metadata says.                *)
(***************************************************************************)
EXTENDS Keycodes, Sequences, SequencesExt

CONSTANTS
    Behavior,    \* the behaviors of the keyboard
    Meta,        \* Meta[b]: the descriptions of its two parameters, a pair of sequences
    Layers,      \* the layer numbers
    Typed,       \* the numbers a user types into a field
    KeyA         \* keycodes["A"], 0 without one

ASSUME BindingsAssumption ==
    /\ DOMAIN Meta = Behavior
    /\ \A b \in Behavior : Len(Meta[b]) = 2 /\ \A i \in {1, 2} : DOMAIN Meta[b][i] \subseteq Nat
    /\ Layers \subseteq Nat /\ Typed \subseteq Int /\ KeyA \in Nat

Binding(b, p1, p2) == [behavior |-> b, param |-> <<p1, p2>>]

\* The descriptions of these types, and the first of them.
OfType(descs, types) == {i \in DOMAIN descs : descs[i].type \in types}
First(descs, types) ==
    descs[CHOOSE i \in OfType(descs, types) : \A j \in OfType(descs, types) : i <= j]

\* paramKind: the editor shown for a parameter; constants win.
Drawn == {"hid_usage", "layer_id", "range"}
ParamKind(descs) ==
    IF OfType(descs, {"constant"}) # {} THEN "constant"
    ELSE IF OfType(descs, Drawn) = {} THEN "none" ELSE First(descs, Drawn).type

\* defaultParam: that of the first description that has one.
DefaultParam(descs) ==
    LET known == {"constant"} \cup Drawn
        d == First(descs, known)
    IN  IF OfType(descs, known) = {} THEN 0
        ELSE CASE d.type = "constant" -> d.value
               [] d.type = "range" -> d.min
               [] d.type = "hid_usage" -> KeyA
               [] d.type = "layer_id" -> 0

\* pickBehavior, for any of the behaviors the list shows.
PickBehavior(b) == Binding(b, DefaultParam(Meta[b][1]), DefaultParam(Meta[b][2]))

Constants(descs) == {descs[i].value : i \in OfType(descs, {"constant"})}

\* ParamEditor: what the editor of a parameter can make of its value.
Offers(descs, v) ==
    CASE ParamKind(descs) = "hid_usage" -> Clicks(v)
      [] ParamKind(descs) = "layer_id" -> Layers
      [] ParamKind(descs) = "constant" -> Constants(descs)
      [] ParamKind(descs) = "range" -> Typed
      [] ParamKind(descs) = "none" -> {}

Adjusted(old) ==
    UNION {{[old EXCEPT !.param[i] = v] : v \in Offers(Meta[old.behavior][i], old.param[i])} : i \in {1, 2}}

\* Slip: another behavior is picked, the parameters are left as they are.
EditedKeepsParams(old) == {[old EXCEPT !.behavior = b] : b \in Behavior} \cup Adjusted(old)

\* What one use of the form can make of a binding.
Edited(old) == {PickBehavior(b) : b \in Behavior} \cup Adjusted(old)

KeyBases == {Base(Keycode[n]) : n \in KeyName}

\* Does a value mean something to the parameter it is sent for?
Fits(descs, v) ==
    CASE ParamKind(descs) = "hid_usage" -> Base(v) \in KeyBases
      [] ParamKind(descs) = "layer_id" -> v \in Layers
      [] ParamKind(descs) = "constant" -> v \in Constants(descs)
      [] OTHER -> TRUE
BindingFits(b) == \A i \in {1, 2} : Fits(Meta[b.behavior][i], b.param[i])
===============================================================================
