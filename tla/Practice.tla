-------------------------------- MODULE Practice --------------------------------
(***************************************************************************)
(* The practice mode: the keyboard reports keys, keycodes and layers while  *)
(* its monitoring flag is on (studio/monitor_listener.c,                    *)
(* monitor_rpc_handler.c); the server counts the streams that are open and  *)
(* flips the flag for the first and after the last (ui/session.py,          *)
(* ui/server.py api_events); the page folds the events into what the board  *)
(* lights up (practice.ts, api.ts openEvents, App.tsx,                      *)
(* components/PracticeStrip.tsx).                                           *)
(***************************************************************************)
EXTENDS Naturals, Sequences, FiniteSets, SequencesExt

CONSTANTS
    None,         \* null
    Pos,          \* the key positions
    LayerKey,     \* the positions that hold a layer, and which
    Knob,         \* the keycodes an encoder sends
    Order,        \* the layer ids in the order of the keymap
    Source,       \* the streams the server can have open (bound)
    MaxEvents     \* events of the keyboard, starts of the mode, failures (bound)

ASSUME PracticeAssumption ==
    /\ Len(Order) >= 1 /\ \A p \in DOMAIN LayerKey : LayerKey[p] \in ToSet(Order)
    /\ DOMAIN LayerKey \subseteq Pos
    /\ Knob \cap Pos = {}  \* a key's code goes by its position
    /\ MaxEvents \in Nat

VARIABLES
    down,        \* the keys that are held
    turning,     \* the keycodes an encoder has sent and not let go
    active,      \* zmk_keymap_layer_state
    monitoring,  \* the flag of the firmware
    clients,     \* monitor_clients
    queues,      \* the queue of each stream, None when it is not subscribed
    stage,       \* how far the handler of each stream is
    lock,        \* the stream that has the session lock
    stream,      \* the EventSource the page has open
    written,     \* what was written to it and not yet dispatched
    practice,    \* the practice state, None when the mode is off
    drawn,       \* the one that is on the screen
    layerIdx,    \* the layer the board shows
    picked,      \* ghost: was the layer picked by hand since the last report?
    raced,       \* ghost: was the log cleared before the last events were drawn?
    before,      \* ghost: keys held since before the page's stream was told of any
    missed,      \* ghost: was the flag off at an event the page's stream had to be told of?
    undone,      \* ghost: did the latest disable fail?
    events

keyboard == <<down, turning, active>>
server == <<clients, queues, stage, lock>>
shown == <<practice, drawn, layerIdx, picked, raced>>
ghosts == <<before, missed, undone>>
practiceVars == <<keyboard, monitoring, server, stream, written, shown, ghosts, events>>

\* zmk_keymap_highest_layer_active: an index into the keymap.
Highest(ids) == CHOOSE i \in 0 .. Len(Order) - 1 :
    /\ Order[i + 1] \in ids \/ i = 0
    /\ \A j \in 0 .. Len(Order) - 1 : Order[j + 1] \in ids => j <= i

KeyEvent(p, pressed) == [type |-> "key", position |-> p, pressed |-> pressed]
LayersEvent(ids) == [type |-> "layers", ids |-> ids, highest |-> Highest(ids)]
KeycodeEvent(code, pressed) == [type |-> "keycode", code |-> code, pressed |-> pressed]
Unavailable == [type |-> "unavailable"]

\* What a stream carries.
StreamEvent ==
    {KeyEvent(p, b) : p \in Pos, b \in BOOLEAN} \cup {LayersEvent(ids) : ids \in SUBSET ToSet(Order)}
        \cup {KeycodeEvent(c, b) : c \in Pos \cup Knob, b \in BOOLEAN} \cup {Unavailable}

ASSUME NoneAssumption == None \notin Source /\ None \notin Seq(StreamEvent)

PracticeInit ==
    /\ down = {} /\ turning = {} /\ active = {Order[1]}
    /\ monitoring = FALSE
    /\ clients = 0 /\ queues = [s \in Source |-> None] /\ stage = [s \in Source |-> "off"] /\ lock = None
    /\ stream = None /\ written = <<>>
    /\ practice = None /\ drawn = None /\ layerIdx = 0
    /\ picked = FALSE /\ raced = FALSE
    /\ before = {} /\ missed = FALSE /\ undone = FALSE /\ events = 0

Another == events < MaxEvents /\ events' = events + 1

\* How far a stream's handler is, from monitor_open to monitor_close.
Opening == {"subscribed", "first", "counted", "entered"}
At(s, where) == stage[s] = where
To(s, where) == stage' = [stage EXCEPT ![s] = where]

\* The page's stream is not yet read and was told of nothing: the layers it will ask for make up
\* for what is not reported.
Unheard == stream # None /\ stage[stream] \in Opening /\ queues[stream] = <<>>

-----------------------------------------------------------------------------
(* The keyboard. *)

\* The listeners: nothing while the flag is off; else to every subscriber of the port.
Report(evs) ==
    /\ queues' = IF monitoring THEN [s \in Source |-> IF queues[s] = None THEN None ELSE queues[s] \o evs] ELSE queues
    /\ before' = IF Unheard /\ ~monitoring THEN down' ELSE before \cap down'
    /\ missed' = \/ missed
                 \/ ~monitoring /\ ~Unheard /\ stream # None /\ stage[stream] \in Opening \cup {"streaming"}

\* A key announces its position, then its keycode, or the layer it switches.
Press(p) ==
    /\ Another /\ p \notin down
    /\ down' = down \cup {p}
    /\ active' = active \cup {LayerKey[q] : q \in {p} \cap DOMAIN LayerKey}
    /\ Report(<<KeyEvent(p, TRUE), IF p \in DOMAIN LayerKey THEN LayersEvent(active') ELSE KeycodeEvent(p, TRUE)>>)
    /\ UNCHANGED <<turning, monitoring, clients, stage, lock, stream, written, shown, undone>>

Release(p) ==
    /\ Another /\ p \in down
    /\ down' = down \ {p}
    /\ active' = active \ {LayerKey[q] : q \in {p} \cap DOMAIN LayerKey}
    /\ Report(<<KeyEvent(p, FALSE), IF p \in DOMAIN LayerKey THEN LayersEvent(active') ELSE KeycodeEvent(p, FALSE)>>)
    /\ UNCHANGED <<turning, monitoring, clients, stage, lock, stream, written, shown, undone>>

Turn(c) ==
    /\ Another
    /\ turning' = IF c \in turning THEN turning \ {c} ELSE turning \cup {c}
    /\ UNCHANGED down /\ Report(<<KeycodeEvent(c, c \notin turning)>>)
    /\ UNCHANGED <<active, monitoring, clients, stage, lock, stream, written, shown, undone>>

-----------------------------------------------------------------------------
(* The handler of a stream in the server. *)

Written(s, ev) == written' = IF stream = s THEN Append(written, ev) ELSE written

\* monitor_open: subscribe, count, then under the lock enable and ask for the layers.
MonitorSubscribe(s) ==
    /\ At(s, "open")
    /\ queues' = [queues EXCEPT ![s] = <<>>] /\ To(s, "subscribed")
    /\ before' = IF s = stream THEN down ELSE before
    /\ UNCHANGED <<keyboard, monitoring, clients, lock, stream, written, shown, missed, undone, events>>

CountClient(s) ==
    /\ At(s, "subscribed")
    /\ clients' = clients + 1
    /\ To(s, IF clients = 0 THEN "first" ELSE "counted")
    /\ UNCHANGED <<keyboard, monitoring, queues, lock, stream, written, shown, ghosts, events>>

Enable(s) ==
    /\ stage[s] \in {"first", "counted"} /\ lock = None
    /\ monitoring' = (monitoring \/ At(s, "first"))
    /\ lock' = s /\ To(s, "entered")
    /\ UNCHANGED <<keyboard, clients, queues, stream, written, shown, ghosts, events>>

\* Slip: the stream is subscribed once the keyboard has answered.
GetLayersThenSubscribe(s) ==
    /\ At(s, "entered")
    /\ Written(s, LayersEvent(active))
    /\ lock' = None /\ To(s, "streaming") /\ queues' = [queues EXCEPT ![s] = <<>>]
    /\ UNCHANGED <<keyboard, monitoring, clients, stream, shown, ghosts, events>>

\* The layers are written first; the events that came in meanwhile follow.
GetLayers(s) ==
    /\ At(s, "entered")
    /\ Written(s, LayersEvent(active))
    /\ lock' = None /\ To(s, "streaming")
    /\ UNCHANGED <<keyboard, monitoring, clients, queues, stream, shown, ghosts, events>>

\* enable() or get_layers() raises.
OpenFails(s) ==
    /\ Another /\ (At(s, "entered") \/ (At(s, "first") /\ lock = None))
    /\ lock' = None /\ To(s, "failed")
    /\ UNCHANGED <<keyboard, monitoring, clients, queues, stream, written, shown, ghosts>>

Forward(s) ==
    /\ At(s, "streaming") /\ queues[s] # <<>>
    /\ Written(s, Head(queues[s]))
    /\ queues' = [queues EXCEPT ![s] = Tail(@)]
    /\ UNCHANGED <<keyboard, monitoring, clients, stage, lock, stream, shown, ghosts, events>>

\* A write, of an event or a keep-alive, finds the page gone.
PageGone(s) ==
    /\ At(s, "streaming") /\ stream # s
    /\ To(s, "closing")
    /\ UNCHANGED <<keyboard, monitoring, clients, queues, lock, stream, written, shown, ghosts, events>>

\* monitor_close: unsubscribe, count, and after the last client disable.
MonitorUnsubscribe(s) ==
    /\ stage[s] \in {"failed", "closing"}
    /\ queues' = [queues EXCEPT ![s] = None]
    /\ To(s, IF At(s, "failed") THEN "unavailable" ELSE "unsubscribed")
    /\ UNCHANGED <<keyboard, monitoring, clients, lock, stream, written, shown, ghosts, events>>

\* Slip: the count is looked at before this client is taken off it.
DropClientLate(s) ==
    /\ stage[s] \in {"unsubscribed", "unavailable"}
    /\ clients' = IF clients > 0 THEN clients - 1 ELSE 0
    /\ To(s, CASE clients = 0 -> IF At(s, "unavailable") THEN "lastFailed" ELSE "last"
               [] OTHER -> "off")
    /\ IF clients # 0 /\ At(s, "unavailable") THEN Written(s, Unavailable) ELSE UNCHANGED written
    /\ UNCHANGED <<keyboard, monitoring, queues, lock, stream, shown, ghosts, events>>

DropClient(s) ==
    /\ stage[s] \in {"unsubscribed", "unavailable"}
    /\ clients' = IF clients > 0 THEN clients - 1 ELSE 0
    /\ To(s, CASE clients' = 0 -> IF At(s, "unavailable") THEN "lastFailed" ELSE "last"
               [] OTHER -> "off")
    /\ IF clients' # 0 /\ At(s, "unavailable") THEN Written(s, Unavailable) ELSE UNCHANGED written
    /\ UNCHANGED <<keyboard, monitoring, queues, lock, stream, shown, ghosts, events>>

\* The disable may fail, unnoticed.
Disable(s) ==
    /\ stage[s] \in {"last", "lastFailed"} /\ lock = None
    /\ \/ monitoring' = FALSE /\ undone' = FALSE /\ UNCHANGED events
       \/ Another /\ UNCHANGED monitoring /\ undone' = TRUE
    /\ To(s, "off")
    /\ IF At(s, "lastFailed") THEN Written(s, Unavailable) ELSE UNCHANGED written
    /\ UNCHANGED <<keyboard, clients, queues, lock, stream, shown, before, missed>>

Serve(s) ==
    \/ MonitorSubscribe(s) \/ CountClient(s) \/ Enable(s) \/ GetLayers(s) \/ OpenFails(s) \/ Forward(s)
    \/ PageGone(s) \/ MonitorUnsubscribe(s) \/ DropClient(s) \/ Disable(s)

-----------------------------------------------------------------------------
(* The page. *)

InitialPractice == [pressed |-> {}, ids |-> {}, highest |-> 0, output |-> <<>>]

\* startPractice, with a handler that waits for the new stream; stopPractice.
StartPractice(s) ==
    /\ practice = None /\ At(s, "off") /\ Another
    /\ practice' = InitialPractice /\ drawn' = InitialPractice
    /\ stream' = s /\ written' = <<>> /\ To(s, "open")
    /\ raced' = FALSE /\ picked' = TRUE /\ missed' = FALSE
    /\ UNCHANGED <<keyboard, monitoring, clients, queues, lock, layerIdx, before, undone>>

Stopped == practice' = None /\ stream' = None /\ written' = <<>>
StopPractice ==
    /\ practice # None
    /\ Stopped /\ drawn' = None
    /\ UNCHANGED <<keyboard, monitoring, server, layerIdx, picked, raced, ghosts, events>>

\* reduce.  A keycode that comes while no key is held is taken for an encoder's.
Chip(state, code) == [text |-> code, encoder |-> state.pressed = {}]
WithoutFirst(output, code) ==
    LET at == {i \in DOMAIN output : output[i].text = code}
    IN  IF at = {} THEN output ELSE RemoveAt(output, Min(at))
Reduce(state, ev) ==
    CASE ev.type = "key" ->
            [state EXCEPT !.pressed = IF ev.pressed THEN @ \cup {ev.position} ELSE @ \ {ev.position}]
      [] ev.type = "layers" -> [state EXCEPT !.ids = ev.ids, !.highest = ev.highest]
      [] ev.type = "keycode" ->
            [state EXCEPT !.output = IF ev.pressed THEN Append(@, Chip(state, ev.code)) ELSE WithoutFirst(@, ev.code)]

\* followIndex: the board shows the highest active layer, if there are that many.
FollowIndex(highest) == IF highest < Len(Order) THEN highest ELSE Len(Order) - 1

Receive ==
    /\ written # <<>> /\ Head(written) # Unavailable
    /\ LET ev == Head(written) IN
       /\ practice' = IF practice = None THEN None ELSE Reduce(practice, ev)
       /\ IF ev.type = "layers" THEN layerIdx' = FollowIndex(ev.highest) /\ picked' = FALSE
          ELSE UNCHANGED <<layerIdx, picked>>
    /\ written' = Tail(written)
    /\ UNCHANGED <<keyboard, monitoring, server, stream, drawn, raced, ghosts, events>>

\* The mode is turned off where it is not available.
ReceiveUnavailable ==
    /\ written # <<>> /\ Head(written) = Unavailable
    /\ Stopped
    /\ UNCHANGED <<keyboard, monitoring, server, drawn, layerIdx, picked, raced, ghosts, events>>

Draw ==
    /\ drawn # practice /\ drawn' = practice
    /\ UNCHANGED <<keyboard, monitoring, server, stream, written, practice, layerIdx, picked, raced, ghosts, events>>

\* clearLog, of the practice state that is on the screen.
Clear ==
    /\ drawn # None
    /\ practice' = [drawn EXCEPT !.output = <<>>] /\ drawn' = practice'
    /\ raced' = (raced \/ drawn # practice)
    /\ UNCHANGED <<keyboard, monitoring, server, stream, written, layerIdx, picked, ghosts, events>>

\* The user picks a layer on the layer card.
PickLayer(i) ==
    /\ layerIdx # i /\ layerIdx' = i /\ picked' = TRUE
    /\ UNCHANGED <<keyboard, monitoring, server, stream, written, practice, drawn, raced, ghosts, events>>

PracticeNext ==
    \/ \E p \in Pos : Press(p) \/ Release(p)
    \/ \E c \in Knob : Turn(c)
    \/ \E s \in Source : Serve(s) \/ StartPractice(s)
    \/ \E i \in 0 .. Len(Order) - 1 : PickLayer(i)
    \/ StopPractice \/ Receive \/ ReceiveUnavailable \/ Draw \/ Clear

PracticeSpec == PracticeInit /\ [][PracticeNext]_practiceVars

-----------------------------------------------------------------------------
(* What must hold. *)

\* Once every event has arrived, the board shows the keyboard: its layers, the keys pressed
\* since the stream was told of any, no keycode that was let go, and the highest layer unless
\* the user picked another; in whichever order the streams of other pages are opened and closed
\* meanwhile (session.py monitor_open "so no notification falls in the gap", practice.ts).  Two
\* things are excepted: a log cleared in the moment between an event and its drawing, which
\* puts the screen's older state back, and an event the keyboard did not report, the flag being
\* off although the stream is open, as after another stream's late disable.
CaughtUp ==
    /\ practice # None /\ stream # None /\ ~raced /\ ~missed
    /\ stream # None => stage[stream] = "streaming" /\ queues[stream] = <<>> /\ written = <<>>
    =>
    /\ practice.ids = active /\ practice.highest = Highest(active)
    /\ practice.pressed = down \ before
    /\ {practice.output[i].text : i \in DOMAIN practice.output} \subseteq down \cup turning
    /\ picked \/ layerIdx = Highest(active)

\* When the last stream has closed, the keyboard reports nothing any more, unless the disable
\* failed (session.py monitor_clients: "an idle browser leaves the keyboard silent"): however the
\* counts, the enables and the disables of several streams fall between each other.
SilentWhenIdle ==
    clients = 0 /\ (\A s \in Source : stage[s] \notin {"last", "lastFailed"}) => ~monitoring \/ undone
================================================================================
