-------------------------------- MODULE HoldTap -------------------------------
(***************************************************************************)
(* The hold-tap behavior (src/behaviors/behavior_runtime_hold_tap.c).  A   *)
(* pressed hold-tap stays undecided until its flavor decides it; meanwhile *)
(* the other keys' events are captured, and they are raised again once it  *)
(* is decided, into this same listener, where the next hold-tap may        *)
(* capture them.                                                           *)
(*                                                                         *)
(* Everything runs on the system work queue.  As in Combo, the agenda is   *)
(* what is left of the call being executed, the innermost call first; the  *)
(* Studio RPC thread can store a timing field only between two events, or  *)
(* while release_captured_events sleeps.                                   *)
(***************************************************************************)
EXTENDS Integers, Sequences, FiniteSets, SequencesExt

CONSTANTS
    Position,     \* the keys
    ModHolds,     \* hold-taps whose hold binding is a modifier; the others switch a layer
    ModKeys,      \* plain keys that are modifiers; the others send a keycode
    Builds,       \* the keyboards to consider, each with the hold-taps it is built with
    MaxEvents     \* key presses and releases (bound)

VARIABLE build    \* the keyboard at hand; it does not change

Config == build.config            \* Config[p]: the hold-tap on key p, for the keys that have one
DtTiming == build.timing          \* DtTiming[p]: the devicetree timing of hold-tap p
Edits == build.edits              \* Edits[p][f]: the values the host may store in field f
MaxHeld == build.maxHeld          \* CONFIG_ZMK_BEHAVIOR_HOLD_TAP_MAX_HELD
MaxCaptured == build.maxCaptured  \* CONFIG_ZMK_BEHAVIOR_HOLD_TAP_MAX_CAPTURED_EVENTS
MaxTime == build.maxTime          \* the clock stops here (bound)

HoldTaps == DOMAIN Config
Ignored == UNION {Config[p].ignore : p \in HoldTaps}
Slot == 1 .. MaxHeld
Place == 1 .. MaxCaptured
None == 0          \* undecided_hold_tap = NULL
Off == -1          \* the work is not scheduled
Long == 1000       \* no clock reaches it
NoKey == "no key"  \* ZMK_BHV_HOLD_TAP_POSITION_NOT_USED, INT32_MIN, -1

ASSUME HoldTapAssumption ==
    /\ MaxEvents \in Nat
    /\ \A b \in Builds :
        /\ DOMAIN b.config \subseteq Position
        /\ ModHolds \subseteq DOMAIN b.config /\ ModKeys \subseteq Position \ DOMAIN b.config
        /\ DOMAIN b.timing = DOMAIN b.config
        /\ \A p \in DOMAIN b.config :
              /\ b.config[p].onRelease \in BOOLEAN
              /\ DOMAIN b.timing[p] = {"term", "quick", "idle", "flavor"}
              /\ \A f \in {"term", "quick", "idle"} :
                    /\ b.timing[p][f] \in Int
                    /\ f \in DOMAIN b.edits[p] => b.edits[p][f] \subseteq Int
        /\ {b.maxHeld, b.maxCaptured, b.maxTime} \subseteq Nat
    /\ NoKey \notin Position

VARIABLES
    timing,      \* data->t of every hold-tap
    taps,        \* active_hold_taps, each with its delayed work
    undecided,   \* undecided_hold_tap
    captured,    \* captured_events
    lastTapped,  \* last_tapped
    agenda,      \* the calls still to execute, the innermost first
    now,         \* k_uptime_get()
    held,        \* the keys physically down
    serial,      \* the number of key presses and releases so far
    seen,        \* the last press the keymap saw, of a key no hold-tap ignores
    hid,         \* how often each binding is pressed more than released
    overflow     \* has capture_event ever failed?

settings == <<build, timing>>
engine == <<taps, undecided, captured, lastTapped>>
input == <<now, held, serial>>
vars == <<build, timing, taps, undecided, captured, lastTapped, agenda, now, held, serial, seen, hid, overflow>>

\* What a key sends: the hold or the tap binding of a hold-tap, or its own binding.
Binding == [of : HoldTaps, as : {"hold", "tap"}] \cup [of : Position \ HoldTaps, as : {"key"}]
Hold(p) == [of |-> p, as |-> "hold"]
Tap(p) == [of |-> p, as |-> "tap"]
IsMod(b) == \/ b.as = "hold" /\ b.of \in ModHolds
            \/ b.as = "key" /\ b.of \in ModKeys
IsLayer(b) == b.as = "hold" /\ b.of \notin ModHolds

\* "from" is the place of captured_events an event raised again still lies in.
Key(p, down, at, n) == [do |-> "pos", pos |-> p, down |-> down, at |-> at, n |-> n, from |-> None]
Code(b, down, at) == [do |-> "code", code |-> b, down |-> down, at |-> at, from |-> None]
Release(i) == [do |-> "release", i |-> i]
Free == [do |-> "free"]

Unused == [pos |-> NoKey, status |-> "undecided", at |-> 0, other |-> NoKey, timer |-> Off]

Init ==
    /\ build \in Builds
    /\ timing = DtTiming
    /\ taps = [i \in Slot |-> Unused]
    /\ undecided = None
    /\ captured = [j \in Place |-> Free]
    /\ lastTapped = [pos |-> NoKey, at |-> -Long]
    /\ agenda = <<>>
    /\ now = 1 /\ held = {} /\ serial = 0
    /\ seen = 0 /\ hid = [b \in Binding |-> 0] /\ overflow = FALSE

-----------------------------------------------------------------------------
(* The parts of the engine. *)

QuickTap(p, at) ==
    \/ lastTapped.at + timing[p].idle > at
    \/ lastTapped.pos = p /\ lastTapped.at + timing[p].quick > at

Flavor == <<"hold-preferred", "balanced", "tap-preferred", "tap-unless-interrupted">>

\* decide_*: what the moment makes of an undecided hold-tap; no case for a
\* stored flavor that is none of the four.
Outcome(f, moment) ==
    CASE f \notin ToSet(Flavor) -> "undecided"
      [] moment \in {"keyUp", "quickTap"} -> "tap"
      [] moment = "otherDown" /\ f \in {"hold-preferred", "tap-unless-interrupted"} -> "holdInterrupt"
      [] moment = "otherUp" /\ f = "balanced" -> "holdInterrupt"
      [] moment = "timer" -> IF f = "tap-unless-interrupted" THEN "tap" ELSE "holdTimer"
      [] OTHER -> "undecided"

\* decide_positional_hold: the first other key is none of the trigger keys.
ForcesTap(h) ==
    /\ Config[h.pos].triggers # {}
    /\ h.other # NoKey
    /\ h.other \notin Config[h.pos].triggers

Decision(h, moment) ==
    LET d == Outcome(timing[h.pos].flavor, moment)
    IN  IF d # "undecided" /\ ForcesTap(h) THEN "tap" ELSE d

\* Slip: a hold pressed early is pressed again when it is decided.
PressBindingAgain(h, s) ==
    LET c == Config[h.pos] IN
    IF c.retro /\ s = "holdTimer" THEN <<>>
    ELSE IF s \in {"holdTimer", "holdInterrupt"} THEN <<Code(Hold(h.pos), TRUE, h.at)>>
    ELSE (IF c.early /\ ~c.linger THEN <<Code(Hold(h.pos), FALSE, h.at)>> ELSE <<>>)
           \o <<Code(Tap(h.pos), TRUE, h.at)>>

\* press_binding of hold-tap h decided s.
PressBinding(h, s) ==
    LET c == Config[h.pos] IN
    IF c.retro /\ s = "holdTimer" THEN <<>>
    ELSE IF s \in {"holdTimer", "holdInterrupt"}
         THEN IF c.early THEN <<>> ELSE <<Code(Hold(h.pos), TRUE, h.at)>>
    ELSE (IF c.early /\ ~c.linger THEN <<Code(Hold(h.pos), FALSE, h.at)>> ELSE <<>>)
           \o <<Code(Tap(h.pos), TRUE, h.at)>>

\* release_binding of hold-tap h with status s.
ReleaseBinding(h, s) ==
    IF Config[h.pos].retro /\ s = "holdTimer" THEN <<>>
    ELSE <<Code(IF s \in {"holdTimer", "holdInterrupt"} THEN Hold(h.pos) ELSE Tap(h.pos), FALSE, h.at)>>

\* decide_hold_tap for hold-tap i of tp; what was captured comes before "rest".
Decide(tp, i, moment, rest) ==
    LET h == tp[i]
        d == Decision(h, moment)
    IN  IF h.status # "undecided" \/ i # undecided \/ d = "undecided"
        THEN taps' = tp /\ agenda' = rest /\ UNCHANGED <<undecided, lastTapped>>
        ELSE /\ taps' = [tp EXCEPT ![i].status = d]
             /\ undecided' = None
             /\ lastTapped' = IF d = "tap" THEN [pos |-> h.pos, at |-> h.at] ELSE lastTapped
             /\ agenda' = PressBinding(h, d) \o <<Release(1)>> \o rest

\* capture_event: the first free place, if there is one.
Capture(e) ==
    LET free == {j \in Place : captured[j] = Free} IN
    IF free = {} THEN overflow' = TRUE /\ UNCHANGED captured
    ELSE captured' = [captured EXCEPT ![Min(free)] = [e EXCEPT !.from = None]] /\ UNCHANGED overflow

\* have_captured_keydown_event looks no further than the first free place.
HaveCapturedDown(p) ==
    \E j \in Place :
        /\ \A k \in 1 .. j : captured[k] # Free
        /\ captured[j].do = "pos" /\ captured[j].pos = p /\ captured[j].down

-----------------------------------------------------------------------------
(* The position listener. *)

Doing(what) == agenda # <<>> /\ Head(agenda).do = what

\* Hold-taps that a timer decided and that wait for another key to become holds.
RetroWaiting(p) ==
    {i \in Slot : /\ taps[i].pos \notin {p, NoKey}
                  /\ Config[taps[i].pos].retro
                  /\ taps[i].status = "holdTimer"}

\* update_hold_status_for_retro_tap, one turn of its loop.
UpdateRetroTaps ==
    /\ Doing("pos")
    /\ LET R == RetroWaiting(Head(agenda).pos)
           i == Min(R)
       IN
       /\ R # {}
       /\ taps' = [taps EXCEPT ![i].status = "holdInterrupt"]
       /\ agenda' = PressBinding(taps[i], "holdInterrupt") \o agenda
    /\ UNCHANGED <<settings, undecided, captured, lastTapped, input, seen, hid, overflow>>

Bubble(e) == [e EXCEPT !.do = "keymap"]

Bubbling ==
    /\ Doing("pos") /\ RetroWaiting(Head(agenda).pos) = {}
    /\ \/ undecided = None
       \/ undecided # None /\ Head(agenda).pos \in Config[taps[undecided].pos].ignore
    /\ agenda' = <<Bubble(Head(agenda))>> \o Tail(agenda)
    /\ UNCHANGED <<settings, engine, input, seen, hid, overflow>>

\* The last part of the listener: an event captured may decide the hold-tap.
CaptureOrBubble(tp, e, rest) ==
    IF ~e.down /\ ~HaveCapturedDown(e.pos)
    THEN /\ taps' = tp /\ agenda' = <<Bubble(e)>> \o rest
         /\ UNCHANGED <<undecided, lastTapped, captured, overflow>>
    ELSE /\ Capture([e EXCEPT !.do = "pos"])
         /\ Decide(tp, undecided, IF e.down THEN "otherDown" ELSE "otherUp", rest)

\* The listener with an undecided hold-tap: its own key passes, a key event later
\* than its term stands for the timer, any other is captured.
WhileUndecided ==
    /\ Doing("pos") /\ RetroWaiting(Head(agenda).pos) = {}
    /\ undecided # None
    /\ LET e == Head(agenda)
           u == taps[undecided]
           c == Config[u.pos]
           tp == IF c.onRelease # e.down /\ u.other = NoKey
                 THEN [taps EXCEPT ![undecided].other = e.pos] ELSE taps
       IN  /\ e.pos \notin c.ignore
           /\ IF e.pos = u.pos
                THEN /\ taps' = tp /\ agenda' = <<Bubble(e)>> \o Tail(agenda)
                     /\ UNCHANGED <<undecided, lastTapped, captured, overflow>>
              ELSE IF e.at > u.at + timing[u.pos].term
                THEN /\ Decide(tp, undecided, "timer", <<[e EXCEPT !.do = "after"]>> \o Tail(agenda))
                     /\ UNCHANGED <<captured, overflow>>
              ELSE CaptureOrBubble(tp, e, Tail(agenda))
    /\ UNCHANGED <<settings, input, seen, hid>>

\* Back from deciding by the timer, maybe with another hold-tap undecided.
AfterTimer ==
    /\ Doing("after")
    /\ LET e == Head(agenda) IN
       IF undecided = None
         THEN /\ agenda' = <<Bubble(e)>> \o Tail(agenda)
              /\ UNCHANGED <<engine, overflow>>
         ELSE CaptureOrBubble(taps, e, Tail(agenda))
    /\ UNCHANGED <<settings, input, seen, hid>>

\* Slip: the place is freed after the event was handled, on the way to the next.
ReleaseCapturedLate ==
    /\ Doing("release")
    /\ LET i == Head(agenda).i
           last == [captured EXCEPT ![Max({i - 1, 1})] = IF i > 1 THEN Free ELSE @]
       IN
       IF i > MaxCaptured \/ captured[Min({i, MaxCaptured})] = Free
         THEN agenda' = Tail(agenda) /\ captured' = last /\ UNCHANGED now
         ELSE /\ captured' = last
              /\ agenda' = <<[captured[i] EXCEPT !.from = i], Release(i + 1)>> \o Tail(agenda)
              /\ UNCHANGED now
    /\ UNCHANGED <<settings, taps, undecided, lastTapped, held, serial, seen, hid, overflow>>

\* Slip: the last event captured is raised first.
ReleaseCapturedBackwards ==
    /\ Doing("release")
    /\ LET taken == {j \in Place : captured[j] # Free} IN
       IF taken = {} \/ undecided # None
         THEN agenda' = Tail(agenda) /\ UNCHANGED captured
         ELSE /\ captured' = [captured EXCEPT ![Max(taken)] = Free]
              /\ agenda' = <<[captured[Max(taken)] EXCEPT !.from = Max(taken)]>> \o agenda
    /\ UNCHANGED <<settings, taps, undecided, lastTapped, input, seen, hid, overflow>>

\* Slip: an event raised again does not leave its place.
ReleaseCapturedAgain ==
    /\ Doing("release")
    /\ LET i == Head(agenda).i IN
       agenda' = IF i > MaxCaptured \/ captured[Min({i, MaxCaptured})] = Free THEN Tail(agenda)
                 ELSE <<[captured[i] EXCEPT !.from = i], Release(1)>> \o Tail(agenda)
    /\ UNCHANGED <<settings, taps, undecided, lastTapped, captured, input, seen, hid, overflow>>

\* release_captured_events, one turn of its loop; it sleeps when an event it
\* raised made a hold-tap undecided.
ReleaseCaptured ==
    /\ Doing("release")
    /\ LET i == Head(agenda).i IN
       IF i > MaxCaptured \/ captured[Min({i, MaxCaptured})] = Free
         THEN agenda' = Tail(agenda) /\ UNCHANGED <<captured, now>>
         ELSE /\ captured' = [captured EXCEPT ![i] = Free]
              /\ agenda' = <<[captured[i] EXCEPT !.from = i], Release(i + 1)>> \o Tail(agenda)
              /\ now' \in IF undecided = None \/ now = MaxTime THEN {now} ELSE {now, now + 1}
    /\ UNCHANGED <<settings, taps, undecided, lastTapped, held, serial, seen, hid, overflow>>

-----------------------------------------------------------------------------
(* The keycode listener and what lies behind it. *)

\* A modifier is captured while a hold-tap is undecided, unless that hold-tap
\* presses its hold early; anything else reaches the host.
Keycode ==
    /\ Doing("code")
    /\ LET e == Head(agenda)
           capture == /\ IsMod(e.code) /\ undecided # None
                      /\ ~Config[taps[undecided].pos].early
       IN  /\ lastTapped' = IF /\ e.down /\ ~IsMod(e.code) /\ ~IsLayer(e.code)
                               /\ e.at > lastTapped.at
                            THEN [pos |-> NoKey, at |-> e.at] ELSE lastTapped
           /\ IF capture THEN Capture(e) /\ UNCHANGED hid
              ELSE /\ hid' = [hid EXCEPT ![e.code] = @ + (IF e.down THEN 1 ELSE -1)]
                   /\ UNCHANGED <<captured, overflow>>
    /\ agenda' = Tail(agenda)
    /\ UNCHANGED <<settings, taps, undecided, input, seen>>

Seen(e) == IF e.pos \in Ignored THEN seen ELSE e.n

\* The keymap invokes the binding of a key that is no hold-tap.
PlainKey ==
    /\ Doing("keymap")
    /\ LET e == Head(agenda) IN
       /\ e.pos \notin HoldTaps
       /\ agenda' = <<Code([of |-> e.pos, as |-> "key"], e.down, e.at)>> \o Tail(agenda)
       /\ seen' = IF e.down THEN Seen(e) ELSE seen
    /\ UNCHANGED <<settings, engine, input, hid, overflow>>

\* on_hold_tap_binding_pressed, refused: another is undecided or the array is full.
PressRefused ==
    /\ Doing("keymap")
    /\ LET e == Head(agenda) IN
       /\ e.down /\ e.pos \in HoldTaps
       /\ undecided # None \/ \A i \in Slot : taps[i].pos # NoKey
       /\ seen' = Seen(e)
    /\ agenda' = Tail(agenda)
    /\ UNCHANGED <<settings, engine, input, hid, overflow>>

\* on_hold_tap_binding_pressed, up to the quick tap.
BindingPressed ==
    /\ Doing("keymap")
    /\ undecided = None
    /\ LET e == Head(agenda)
           free == {i \in Slot : taps[i].pos = NoKey}
           i == Min(free)
           h == [Unused EXCEPT !.pos = e.pos, !.at = e.at]
           quick == QuickTap(e.pos, e.at) /\ Outcome(timing[e.pos].flavor, "quickTap") = "tap"
           rest == <<[do |-> "pressed", i |-> i]>> \o Tail(agenda)
       IN  /\ e.down /\ e.pos \in HoldTaps
           /\ free # {}
           /\ seen' = Seen(e)
           /\ taps' = [taps EXCEPT ![i] = [h EXCEPT !.status = IF quick THEN "tap" ELSE "undecided"]]
           /\ undecided' = IF quick THEN None ELSE i
           /\ lastTapped' = IF quick THEN [pos |-> e.pos, at |-> e.at] ELSE lastTapped
           /\ agenda' = (IF quick THEN PressBinding(h, "tap") \o <<Release(1)>> ELSE <<>>) \o rest
    /\ UNCHANGED <<settings, captured, input, hid, overflow>>

\* Slip: no work for a term that is over already.
PressedUntimed ==
    /\ Doing("pressed")
    /\ LET i == Head(agenda).i
           h == taps[i]
           due == h.at + timing[h.pos].term
           early == h.status = "undecided" /\ i = undecided /\ Config[h.pos].early
       IN  /\ taps' = [taps EXCEPT ![i].timer = IF @ = Off /\ due > now THEN due ELSE @]
           /\ agenda' = (IF early THEN <<Code(Hold(h.pos), TRUE, h.at)>> ELSE <<>>) \o Tail(agenda)
    /\ UNCHANGED <<settings, undecided, captured, lastTapped, input, seen, hid, overflow>>

\* The rest of it: the early hold, and the work scheduled for what is left of the
\* term (k_work_schedule leaves work alone that is scheduled already).
Pressed ==
    /\ Doing("pressed")
    /\ LET i == Head(agenda).i
           h == taps[i]
           due == h.at + timing[h.pos].term
           early == h.status = "undecided" /\ i = undecided /\ Config[h.pos].early
       IN  /\ taps' = [taps EXCEPT ![i].timer = IF @ # Off THEN @ ELSE IF due > now THEN due ELSE now]
           /\ agenda' = (IF early THEN <<Code(Hold(h.pos), TRUE, h.at)>> ELSE <<>>) \o Tail(agenda)
    /\ UNCHANGED <<settings, undecided, captured, lastTapped, input, seen, hid, overflow>>

\* Nothing to release: the press was refused.
ReleaseUnknown ==
    /\ Doing("keymap")
    /\ LET e == Head(agenda) IN
       /\ ~e.down /\ e.pos \in HoldTaps
       /\ \A i \in Slot : taps[i].pos # e.pos
    /\ agenda' = Tail(agenda)
    /\ UNCHANGED <<settings, engine, input, seen, hid, overflow>>

\* Slip: a release later than the term is not looked for.
BindingReleasedInTime ==
    /\ Doing("keymap")
    /\ LET e == Head(agenda)
           mine == {i \in Slot : taps[i].pos = e.pos}
           i == Min(mine)
       IN  /\ ~e.down /\ e.pos \in HoldTaps
           /\ mine # {}
           /\ taps' = [taps EXCEPT ![i].timer = Off]
           /\ agenda' = <<[do |-> "keyUp", i |-> i, at |-> e.at, from |-> e.from]>> \o Tail(agenda)
    /\ UNCHANGED <<settings, undecided, lastTapped, captured, input, seen, hid, overflow>>

\* on_hold_tap_binding_released: the work is cancelled; a release later than the
\* term stands for the timer first.
BindingReleased ==
    /\ Doing("keymap")
    /\ LET e == Head(agenda)
           mine == {i \in Slot : taps[i].pos = e.pos}
           i == Min(mine)
           tp == [taps EXCEPT ![i].timer = Off]
           up == <<[do |-> "keyUp", i |-> i, at |-> e.at, from |-> e.from]>> \o Tail(agenda)
       IN  /\ ~e.down /\ e.pos \in HoldTaps
           /\ mine # {}
           /\ IF e.at > taps[i].at + timing[e.pos].term
                THEN Decide(tp, i, "timer", up)
                ELSE taps' = tp /\ agenda' = up /\ UNCHANGED <<undecided, lastTapped>>
    /\ UNCHANGED <<settings, captured, input, seen, hid, overflow>>

KeyUpDecision ==
    /\ Doing("keyUp")
    /\ Decide(taps, Head(agenda).i, "keyUp", <<[Head(agenda) EXCEPT !.do = "released"]>> \o Tail(agenda))
    /\ UNCHANGED <<settings, captured, input, seen, hid, overflow>>

\* Slip: a retro tap is released but never pressed.
ReleasedNoTap ==
    /\ Doing("released")
    /\ LET i == Head(agenda).i
           h == taps[i]
           c == Config[h.pos]
           s == IF c.retro /\ h.status = "holdTimer" THEN "tap" ELSE h.status
       IN  /\ agenda' = ReleaseBinding(h, s)
                          \o (IF c.early /\ c.linger THEN <<Code(Hold(h.pos), FALSE, h.at)>> ELSE <<>>)
                          \o Tail(agenda)
           /\ taps' = [taps EXCEPT ![i] = Unused]
    /\ UNCHANGED <<settings, undecided, lastTapped, captured, input, seen, hid, overflow>>

\* Slip: the hold-tap is not cleared.
ReleasedNotCleared ==
    /\ Doing("released")
    /\ LET h == taps[Head(agenda).i] IN agenda' = ReleaseBinding(h, h.status) \o Tail(agenda)
    /\ UNCHANGED <<settings, engine, input, seen, hid, overflow>>

\* decide_retro_tap, release_binding, the lingering hold, clear_hold_tap.
Released ==
    /\ Doing("released")
    /\ LET i == Head(agenda).i
           h == taps[i]
           c == Config[h.pos]
           retro == c.retro /\ h.status = "holdTimer"
           s == IF retro THEN "tap" ELSE h.status
       IN  /\ lastTapped' = IF retro THEN [pos |-> h.pos, at |-> h.at] ELSE lastTapped
           /\ agenda' = (IF retro THEN PressBinding(h, "tap") ELSE <<>>)
                          \o ReleaseBinding(h, s)
                          \o (IF c.early /\ c.linger THEN <<Code(Hold(h.pos), FALSE, h.at)>> ELSE <<>>)
                          \o Tail(agenda)
           /\ taps' = [taps EXCEPT ![i] = Unused]
    /\ UNCHANGED <<settings, undecided, captured, input, seen, hid, overflow>>

-----------------------------------------------------------------------------
(* What may happen between two events. *)

Idle == agenda = <<>>

\* The timer of hold-tap i runs out.
TimerHandler(i) ==
    /\ Idle
    /\ taps[i].timer # Off /\ now >= taps[i].timer
    /\ Decide([taps EXCEPT ![i].timer = Off], i, "timer", <<>>)
    /\ UNCHANGED <<settings, captured, input, seen, hid, overflow>>

KeyDown(p) ==
    /\ Idle
    /\ p \notin held /\ serial < MaxEvents
    /\ held' = held \cup {p} /\ serial' = serial + 1
    /\ agenda' = <<Key(p, TRUE, now, serial')>>
    /\ UNCHANGED <<settings, engine, now, seen, hid, overflow>>

\* Every key that is down comes up, also beyond the bound.
KeyUp(p) ==
    /\ Idle
    /\ p \in held
    /\ held' = held \ {p}
    /\ agenda' = <<Key(p, FALSE, now, serial)>>
    /\ UNCHANGED <<settings, engine, now, serial, seen, hid, overflow>>

Tick ==
    /\ Idle
    /\ now < MaxTime
    /\ now' = now + 1
    /\ UNCHANGED <<settings, engine, agenda, held, serial, seen, hid, overflow>>

\* One field of the copy rt_holdtap_set or rt_holdtap_reset makes.
CopyField(p, f, v) ==
    /\ Idle \/ (Doing("pos") /\ undecided # None)
    /\ v # timing[p][f]
    /\ timing' = [timing EXCEPT ![p][f] = v]
    /\ UNCHANGED <<build, engine, agenda, input, seen, hid, overflow>>

Work ==
    \/ UpdateRetroTaps \/ Bubbling \/ WhileUndecided \/ AfterTimer \/ ReleaseCaptured
    \/ Keycode \/ PlainKey
    \/ PressRefused \/ BindingPressed \/ Pressed
    \/ ReleaseUnknown \/ BindingReleased \/ KeyUpDecision \/ Released

Next ==
    \/ Work
    \/ \E i \in Slot : TimerHandler(i)
    \/ \E p \in Position : KeyDown(p) \/ KeyUp(p)
    \/ Tick
    \/ \E p \in HoldTaps : \E f \in DOMAIN Edits[p] : \E v \in Edits[p][f] : CopyField(p, f, v)

\* The work queue carries a call through.
Spec == Init /\ [][Next]_vars /\ WF_vars(Work)

-----------------------------------------------------------------------------
(* Properties. *)

TypeOK ==
    /\ taps \in [Slot -> [pos : HoldTaps \cup {NoKey}, at : 0 .. MaxTime, timer : {Off} \cup 0 .. MaxTime + Long,
                          status : {"undecided", "tap", "holdInterrupt", "holdTimer"}, other : Position \cup {NoKey}]]
    /\ undecided \in Slot \cup {None}
    /\ \A j \in Place : captured[j].do \in {"free", "pos", "code"}
    /\ held \subseteq Position
    /\ DOMAIN hid = Binding

\* Once every key is up nothing is left of them: no hold-tap active or undecided, no
\* event captured, no binding still pressed, whatever was captured, raised again,
\* timed out or edited on the way, as long as no event was lost to a full array.
NothingStuck ==
    Idle /\ held = {} /\ ~overflow =>
        /\ undecided = None /\ \A i \in Slot : taps[i] = Unused
        /\ \A j \in Place : captured[j] = Free
        /\ \A b \in Binding : hid[b] = 0

\* An undecided hold-tap is one whose key is down and whose timer runs: what it has
\* captured comes out at the latest when the term ends.
UndecidedIsTimed ==
    Idle /\ undecided # None /\ ~overflow => taps[undecided].pos \in held /\ taps[undecided].timer # Off

\* Between events nothing is captured unless a hold-tap is undecided.
CapturedHasOwner ==
    Idle /\ undecided = None => \A j \in Place : captured[j] = Free

\* An event raised from captured_events is read in place until the keymap has it:
\* nothing is captured over it while the calls it started still run.
RaisedEventIntact ==
    \A n \in DOMAIN agenda :
        LET e == agenda[n] IN
        e.do \in {"pos", "after", "keymap"} /\ e.from # None => captured[e.from] = Free

\* captured_events loses nothing that is in it: it is emptied when its hold-tap is
\* decided, and no nested capture overwrites an event that is being raised from it.
CapturedIntact == CapturedHasOwner /\ RaisedEventIntact

\* The keymap sees the presses in the order the keys went down, however often they
\* were captured and raised again (keys some hold-tap ignores excepted), as long as no
\* event was lost to a full array.
PressesInOrder ==
    Doing("keymap") /\ Head(agenda).down /\ Head(agenda).pos \notin Ignored /\ ~overflow
        => Head(agenda).n > seen

\* Between events each active hold-tap has pressed exactly the binding it was decided
\* for: with modifiers still captured counted, never both bindings, never none.
Captured(b, down) == Cardinality({j \in Place : captured[j].do = "code" /\ captured[j].code = b /\ captured[j].down = down})
Pressing(b) == hid[b] + Captured(b, TRUE) - Captured(b, FALSE)
BindingsFollowDecisions ==
    Idle => \A p \in HoldTaps :
        LET mine == {i \in Slot : taps[i].pos = p}
            is(s) == \E i \in mine : taps[i].status \in s
            c == Config[p]
        IN  /\ Pressing(Tap(p)) = IF is({"tap"}) THEN 1 ELSE 0
            /\ Pressing(Hold(p)) =
                 IF \/ is({"holdInterrupt"})
                    \/ is({"holdTimer"}) /\ (c.early \/ ~c.retro)
                    \/ is({"undecided"}) /\ c.early
                    \/ is({"tap"}) /\ c.early /\ c.linger
                 THEN 1 ELSE 0

\* A tap-preferred hold-tap that no other key forces to a tap is decided by the times
\* its own key moved, not by the times the events were handled: captured events keep
\* their timestamps, and a late or cancelled timer is made up for.
DecidedByTime(h) ==
    /\ timing[h.pos] = [timing[h.pos] EXCEPT !.flavor = "tap-preferred", !.idle = -1, !.quick = -1]
    /\ \A f \in DOMAIN Edits[h.pos] : Edits[h.pos][f] = {}
    /\ Config[h.pos].triggers = {} \/ h.other \in {NoKey, h.pos}

OutcomeByTime ==
    Doing("released") =>
        LET e == Head(agenda)
            h == taps[e.i]
        IN  DecidedByTime(h) =>
              /\ h.status = "tap" => e.at <= h.at + timing[h.pos].term
              /\ h.status # "tap" => e.at >= h.at + timing[h.pos].term

\* The listeners always return to the work queue.
EventsEnd == ~Idle ~> Idle
=============================================================================
