----------------------------- MODULE CondLayers -----------------------------
(***************************************************************************)
(* Conditional layers (src/runtime_conditional_layer.c) edited over Studio *)
(* RPC (src/studio/condlayers_rpc_handler.c, src/runtime_condlayer_store.c)*)
(* while the keyboard is in use.                                           *)
(*                                                                         *)
(* A layer change raises an event; the listener recomputes all then-layers *)
(* and, because switching them raises more events, goes round its loop     *)
(* until a pass changes nothing.  It runs on the system work queue, which  *)
(* the RPC thread cannot preempt, so nothing else moves while it loops.    *)
(* The RPC thread can be preempted while it copies an entry into rt_cfgs,  *)
(* and the listener takes no lock: it may read an entry half old half new. *)
(* Editing an entry does not run the listener.                             *)
(***************************************************************************)
EXTENDS Integers, FiniteSets

CONSTANTS
    MaxLayer,     \* layers are 0 .. MaxLayer, layer 0 the default layer
    KeyLayers,    \* the layers some key switches on and off
    Entry,        \* the entries of rt_cfgs
    MaskChoice,   \* per entry, the if-layer sets it may be given
    ThenChoice,   \* per entry, the then-layers it may be given
    DtEntry       \* the devicetree default of every entry

Layer == 0 .. MaxLayer
Default == 0
EntryValue(i) == [mask : MaskChoice[i], then : ThenChoice[i]]

ASSUME LayerAssumption ==
    /\ MaxLayer \in Nat
    /\ KeyLayers \subseteq Layer \ {Default}
    /\ MaskChoice \in [Entry -> SUBSET SUBSET Layer]
    /\ ThenChoice \in [Entry -> SUBSET Layer]
    /\ DtEntry \in [Entry -> [mask : SUBSET Layer, then : Layer]]
    /\ \A i \in Entry : DtEntry[i] \in EntryValue(i)

VARIABLES
    layers,    \* _zmk_keymap_layer_state, the default layer's bit aside
    needed,    \* runtime_conditional_layer_updates_needed: a pass is due
    entries,   \* rt_cfgs, as the listener reads it
    copy,      \* the entry the RPC thread is copying, and what is left of it
    seen       \* the entries the last pass read, for the properties; NotRead at first

vars == <<layers, needed, entries, copy, seen>>

NoCopy == [left |-> {}]
NotRead == <<>>
Entries == [Entry -> [mask : SUBSET Layer, then : Layer]]

\* then_layers and then_layer_state of one pass over the entries c.
ThenLayers(c) == {c[i].then : i \in Entry}
Wanted(c, on) == {c[i].then : i \in {j \in Entry : c[j].mask \subseteq on}}

\* Slip: then-layers are switched on and never off.
SettleUp(c, on) == on \cup (Wanted(c, on) \ {Default})

\* The layers after a pass: the default layer can be neither left nor entered.
Settle(c, on) == (on \ ((ThenLayers(c) \ Wanted(c, on)) \ {Default}))
                   \cup (Wanted(c, on) \ {Default})

Init ==
    /\ layers = {}
    /\ needed = FALSE
    /\ entries = DtEntry
    /\ copy = NoCopy
    /\ seen = NotRead

-----------------------------------------------------------------------------

\* A key press or release switches a layer; a real change raises the event.
SetLayer(l, on) ==
    /\ ~needed
    /\ layers' = IF on THEN layers \cup {l} ELSE layers \ {l}
    /\ layers' # layers
    /\ needed' = TRUE
    /\ UNCHANGED <<entries, copy, seen>>

\* Slip: one pass per event, what it switched on is not looked at again.
PassOnce ==
    /\ needed
    /\ layers' = Settle(entries, layers)
    /\ needed' = FALSE
    /\ seen' = entries
    /\ UNCHANGED <<entries, copy>>

\* Slip: a layer already on is activated, and its event raised, again.
PassAlways ==
    /\ needed
    /\ layers' = Settle(entries, layers)
    /\ needed' = (Wanted(entries, layers) # {})
    /\ seen' = entries
    /\ UNCHANGED <<entries, copy>>

\* One round of the while loop; the switches it makes re-enter the listener,
\* which only sets the flag again because the semaphore is taken.
Pass ==
    /\ needed
    /\ layers' = Settle(entries, layers)
    /\ needed' = (layers' # layers)
    /\ seen' = entries
    /\ UNCHANGED <<entries, copy>>

\* rt_condlayer_set and rt_condlayer_reset reach "*live = ..." with the value v.
BeginCopy(i, v) ==
    /\ ~needed
    /\ copy = NoCopy
    /\ copy' = [left |-> {"mask", "then"}, entry |-> i, value |-> v]
    /\ UNCHANGED <<layers, needed, entries, seen>>

HandleSet(i, v) == v \in EntryValue(i) /\ BeginCopy(i, v)

HandleReset(i) == BeginCopy(i, DtEntry[i])

CopyField(f) ==
    /\ ~needed
    /\ f \in copy.left
    /\ entries' = [entries EXCEPT ![copy.entry][f] = copy.value[f]]
    /\ copy' = IF copy.left = {f} THEN NoCopy ELSE [copy EXCEPT !.left = @ \ {f}]
    /\ UNCHANGED <<layers, needed, seen>>

Next ==
    \/ \E l \in KeyLayers, on \in BOOLEAN : SetLayer(l, on)
    \/ Pass
    \/ \E i \in Entry : HandleReset(i) \/ \E v \in EntryValue(i) : HandleSet(i, v)
    \/ \E f \in {"mask", "then"} : CopyField(f)

\* The listener's loop runs until it is done; keys and hosts owe nothing.
Spec == Init /\ [][Next]_vars /\ WF_vars(Pass)

-----------------------------------------------------------------------------
(* Properties. *)

TypeOK ==
    /\ layers \subseteq Layer \ {Default}
    /\ needed \in BOOLEAN
    /\ entries \in Entries
    /\ seen \in Entries \cup {NotRead}
    /\ \/ copy = NoCopy
       \/ /\ copy \in [left : SUBSET {"mask", "then"}, entry : Entry,
                       value : [mask : SUBSET Layer, then : Layer]]
          /\ copy.left # {}

\* When the listener is done, a then-layer is on exactly if some entry it read
\* has all its if-layers on: the last pass left nothing to do, and no key or
\* RPC edit slipped in between that pass and the end of the loop.
ThenLayersFollow ==
    ~needed /\ seen # NotRead => \A t \in ThenLayers(seen) \ {Default} :
        t \in layers <=> \E i \in Entry : seen[i].then = t /\ seen[i].mask \subseteq layers

\* The entries can be ranked: every then-layer lies above its if-layers.
Ranked(c) == \A i \in Entry : \A l \in c[i].mask : l < c[i].then

\* What entries c make of the layers "on" that are no then-layers, built up
\* one layer at a time: the meaning of ranked entries, without any loop.
Closure(c, on) ==
    LET upTo[l \in Layer] ==
          LET below == IF l = 0 THEN {} ELSE upTo[l - 1]
          IN  IF IF l \in ThenLayers(c) \ {Default}
                   THEN \E i \in Entry : c[i].then = l /\ c[i].mask \subseteq below
                   ELSE l \in on
                THEN below \cup {l} ELSE below
    IN upTo[MaxLayer]

\* With ranked entries the waterfall of updates computes that meaning, whatever
\* the order of the key presses, releases and edits that led here.
OrderIndependent ==
    ~needed /\ seen # NotRead /\ Ranked(seen) =>
        layers = Closure(seen, layers \ (ThenLayers(seen) \ {Default}))

\* The comment in runtime_conditional_layer_activate: "the process will
\* eventually terminate".
UpdatesEnd == needed ~> ~needed

\* runtime_condlayers.h: an entry is "activate then_layer while all layers in
\* if_layers_mask are active".  In force whenever the listener is not running
\* and no edit is half done.
EntriesInForce ==
    ~needed /\ copy = NoCopy =>
        \A i \in Entry :
            entries[i].then # Default /\ entries[i].mask # {}
              /\ entries[i].mask \subseteq layers => entries[i].then \in layers
=============================================================================
