-------------------------------- MODULE Combo --------------------------------
(***************************************************************************)
(* The combo engine (src/runtime_combo.c): presses of candidate keys are   *)
(* captured until a combo is complete, ruled out or out of time; captured  *)
(* keys that made no combo are released to the next listener, the second   *)
(* and later ones by raising their event again, which re-enters this very  *)
(* listener.                                                               *)
(*                                                                         *)
(* Listener and timeout task run on the system work queue.  What is left   *)
(* of the call being executed, callers included, is the agenda: a step     *)
(* takes its head, and pushes the calls it makes.  Nothing else moves on   *)
(* that queue until the agenda is empty (the keymap may switch layers as   *)
(* part of a call), and neither does the Studio RPC thread, which has a    *)
(* lower priority; between two events that thread may store any field of   *)
(* the parameters (CopyField).                                             *)
(***************************************************************************)
EXTENDS Integers, Sequences, FiniteSets, SequencesExt

CONSTANTS
    Combos,        \* the number of combos
    DtParams,      \* DtParams[i]: the devicetree parameters of combo i
    Builds,        \* the keyboards to consider
    MaxTime        \* the clock stops here (bound)

VARIABLE build     \* the keyboard at hand; it does not change

Position == build.positions      \* its keys
TapKeys == build.tapKeys         \* the keys whose keymap binding sends a non-modifier keycode
Keys == build.keys               \* Keys[i]: the key positions of combo i; shorter combos come first
Edits == build.edits             \* Edits[i][f]: the values the host may store in field f
Layer == build.layers            \* the highest active layers
MaxPressed == build.maxPressed   \* CONFIG_ZMK_COMBO_MAX_PRESSED_COMBOS

Combo == 1 .. Combos
Behavior == UNION {{DtParams[i].binding} \cup Edits[i].binding : i \in Combo}
Unknown == "unknown"     \* a binding whose local id names no behavior
NoKey == "no key"        \* what a cleanup is called for that no release starts
None == 0                \* INT16_MAX in fully_pressed_combo
MaxComboKeys == Max({Cardinality(Keys[i]) : i \in Combo})
LongMax == 1073741824    \* LONG_MAX of a 32 bit long: no clock reaches it

ASSUME ComboAssumption ==
    /\ Combos \in Nat \ {0}
    /\ MaxTime \in Nat
    /\ DOMAIN DtParams = Combo
    /\ \A i \in Combo : DOMAIN DtParams[i] = {"binding", "timeout", "idle", "layers", "slow"}
    /\ \A b \in Builds :
        /\ IsFiniteSet(b.positions) /\ NoKey \notin b.positions
        /\ b.keys \in [Combo -> (SUBSET b.positions) \ {{}}]
        /\ \A i, j \in Combo : i < j => Cardinality(b.keys[i]) <= Cardinality(b.keys[j])
        /\ b.tapKeys \subseteq b.positions
        /\ b.maxPressed \in Nat

VARIABLES
    params,      \* rt_params
    pressed,     \* pressed_keys[0 .. pressed_keys_count - 1]
    candidates,  \* candidates
    fully,       \* fully_pressed_combo
    active,      \* active_combos[0 .. active_combo_count - 1]
    timer,       \* when timeout_task is due, Off if it is not scheduled
    timeoutAt,   \* timeout_task_timeout_at
    lastTapped,  \* last_tapped_timestamp
    lastCombo,   \* last_combo_timestamp
    agenda,      \* the calls still to execute, the innermost first
    now,         \* k_uptime_get()
    layer,       \* zmk_keymap_highest_layer_active()
    held,        \* the keys physically down, in the order they were pressed
    passed,      \* the keys whose press, not yet their release, left this listener
    on           \* how often each behavior has been pressed more than released

Off == -1
settings == <<build, params>>
engine == <<pressed, candidates, fully, active, timer, timeoutAt, lastTapped, lastCombo>>
outside == <<now, layer, held>>
vars == <<build, params, pressed, candidates, fully, active, timer, timeoutAt,
          lastTapped, lastCombo, agenda, now, layer, held, passed, on>>

Down(p, t) == [do |-> "down", pos |-> p, at |-> t]
Up(p) == [do |-> "up", pos |-> p]
UpRest(p, n) == [do |-> "upRest", pos |-> p, released |-> n]
Bubble(p, t) == [do |-> "bubble", pos |-> p, at |-> t]
Cleanup(p) == [do |-> "cleanup", pos |-> p]     \* called for the release of p, or of no key
CleanupRest(p) == [do |-> "cleanupRest", pos |-> p]
Update == [do |-> "update"]

Init ==
    /\ build \in Builds
    /\ params = DtParams
    /\ pressed = <<>> /\ candidates = {} /\ fully = None /\ active = <<>>
    /\ timer = Off /\ timeoutAt = 0
    /\ lastTapped = -LongMax /\ lastCombo = -LongMax
    /\ agenda = <<>>
    /\ now = 1 /\ layer \in Layer /\ held = <<>>
    /\ passed = {}
    /\ on = [b \in Behavior |-> 0]

-----------------------------------------------------------------------------
(* The parts of the engine. *)

\* combo_lookup: the combos with a key at position p.
Lookup(p) == {i \in Combo : p \in Keys[i]}

ActiveOnLayer(i) == params[i].layers = {} \/ layer \in params[i].layers
QuickTap(i, t) == lastTapped + params[i].idle > t

FirstCandidates(p, t) == {i \in Lookup(p) : ActiveOnLayer(i) /\ ~QuickTap(i, t)}

InTime(c, t) == {i \in c : pressed[1].at + params[i].timeout > t}

\* Press and release of the behavior of combo i; an unknown one cannot be invoked.
Invoke(i, by) ==
    on' = IF params[i].binding = Unknown THEN on
          ELSE [on EXCEPT ![params[i].binding] = @ + by]

\* The press of p reaches the next listeners, in the end the keymap; a
\* non-modifier keycode of its binding comes back to the keycode listener, which
\* compares it with the last combo, the one that is activated now included.
Pass(p, t) ==
    /\ passed' = passed \cup {p}
    /\ lastTapped' = IF p \in TapKeys /\ t > lastCombo' THEN t ELSE lastTapped

\* Slip: the keys are let go last one first.
ReleasePressedBackwards(keys, rest) ==
    /\ pressed' = <<>>
    /\ IF keys = <<>> THEN UNCHANGED <<passed, lastTapped>>
                      ELSE Pass(Last(keys).pos, Last(keys).at)
    /\ agenda' = [i \in 1 .. Len(keys) - 1 |-> Down(keys[Len(keys) - i].pos, keys[Len(keys) - i].at)]
                   \o rest

\* release_pressed_keys, called with "keys" pressed: the first is released to
\* the next listener, the others are raised again, and then comes "rest".
ReleasePressed(keys, rest) ==
    /\ pressed' = <<>>
    /\ IF keys = <<>> THEN UNCHANGED <<passed, lastTapped>>
                      ELSE Pass(keys[1].pos, keys[1].at)
    /\ agenda' = [i \in 1 .. Len(keys) - 1 |-> Down(keys[i + 1].pos, keys[i + 1].at)]
                   \o rest

\* s without the first place that holds p; what is behind it moves up.
Without(s, p) == RemoveAt(s, Min({j \in DOMAIN s : s[j] = p}))

\* What follows cleanup(): nothing, or position_state_up with its result.
Then(p, n, rest) == IF p = NoKey THEN rest ELSE <<UpRest(p, n)>> \o rest

FirstTimeout ==
    IF pressed = <<>> THEN LongMax
    ELSE pressed[1].at + Min({LongMax} \cup {params[i].timeout : i \in candidates})

-----------------------------------------------------------------------------
(* The calls, one action each. *)

Doing(what) == agenda # <<>> /\ Head(agenda).do = what

\* A first key no combo wants goes by.
DownIgnored ==
    /\ Doing("down")
    /\ UNCHANGED <<settings, pressed, candidates, fully, active, timer, timeoutAt, lastCombo, outside, on>>
    /\ LET e == Head(agenda) IN
       /\ pressed = <<>>
       /\ FirstCandidates(e.pos, e.at) = {}
       /\ Pass(e.pos, e.at)
    /\ agenda' = Tail(agenda)

\* position_state_down: narrow the candidates, capture the key, look whether the
\* first candidate left is complete.
PositionStateDown ==
    /\ Doing("down")
    /\ LET e == Head(agenda)
           first == FirstCandidates(e.pos, e.at)
           left == IF pressed = <<>> THEN candidates \cup first
                   ELSE InTime(candidates, e.at) \cap Lookup(e.pos)
           matches == IF pressed = <<>> THEN first ELSE left
           full == Len(pressed) = MaxComboKeys
           captured == IF full THEN pressed ELSE Append(pressed, [pos |-> e.pos, at |-> e.at])
           complete == left # {} /\ Cardinality(Keys[Min(left)]) = Len(captured)
           over == matches = {} \/ (complete /\ Cardinality(matches) = 1)
       IN  /\ pressed = <<>> => first # {}
           /\ candidates' = left
           /\ pressed' = captured
           /\ fully' = IF complete THEN Min(left) ELSE fully
           /\ agenda' = <<Update>> \o (IF over THEN <<Cleanup(NoKey)>> ELSE <<>>)
                          \o (IF full THEN <<Bubble(e.pos, e.at)>> ELSE <<>>) \o Tail(agenda)
    /\ UNCHANGED <<settings, active, timer, timeoutAt, lastTapped, lastCombo, outside, passed, on>>

\* A press that found pressed_keys full was answered with BUBBLE.
BubbleDown ==
    /\ Doing("bubble")
    /\ UNCHANGED <<settings, pressed, candidates, fully, active, timer, timeoutAt, lastCombo, outside, on>>
    /\ Pass(Head(agenda).pos, Head(agenda).at)
    /\ agenda' = Tail(agenda)

\* cleanup, no combo completely pressed.
CleanupOnly ==
    /\ Doing("cleanup")
    /\ fully = None
    /\ timer' = Off /\ candidates' = {}
    /\ UNCHANGED <<settings, fully, active, timeoutAt, lastCombo, outside, on>>
    /\ ReleasePressed(pressed, Then(Head(agenda).pos, Len(pressed), Tail(agenda)))

\* Slip: the combo takes every pressed key.
ActivateComboTakesAll ==
    /\ Doing("cleanup")
    /\ fully # None
    /\ Len(active) < MaxPressed
    /\ timer' = Off /\ candidates' = {} /\ fully' = None
    /\ active' = Append(active, [combo |-> fully, keys |-> [j \in DOMAIN pressed |-> pressed[j].pos]])
    /\ lastCombo' = pressed[1].at
    /\ ReleasePressed(<<>>, Then(Head(agenda).pos, 0, Tail(agenda)))
    /\ Invoke(fully, 1)
    /\ UNCHANGED <<settings, timeoutAt, outside>>

\* cleanup with activate_combo: the combo takes its keys, the rest is released.
ActivateCombo ==
    /\ Doing("cleanup")
    /\ fully # None
    /\ Len(active) < MaxPressed
    /\ timer' = Off /\ candidates' = {} /\ fully' = None
    /\ LET n == Min({Len(pressed), Cardinality(Keys[fully])})
           keys == SubSeq(pressed, 1, n)
           others == SubSeq(pressed, n + 1, Len(pressed))
       IN  /\ active' = Append(active, [combo |-> fully, keys |-> [j \in 1 .. n |-> keys[j].pos]])
           /\ lastCombo' = keys[1].at
           /\ ReleasePressed(others, Then(Head(agenda).pos, Len(others), Tail(agenda)))
    /\ Invoke(fully, 1)
    /\ UNCHANGED <<settings, timeoutAt, outside>>

\* cleanup with no room in active_combos: activate_combo releases the keys
\* while fully_pressed_combo is still set, cleanup releases what came back.
ActivateNoRoom ==
    /\ Doing("cleanup")
    /\ fully # None
    /\ Len(active) = MaxPressed
    /\ timer' = Off /\ candidates' = {}
    /\ UNCHANGED <<settings, fully, active, timeoutAt, lastCombo, outside, on>>
    /\ ReleasePressed(pressed, <<CleanupRest(Head(agenda).pos)>> \o Tail(agenda))

AfterNoRoom ==
    /\ Doing("cleanupRest")
    /\ fully' = None
    /\ UNCHANGED <<settings, candidates, active, timer, timeoutAt, lastCombo, outside, on>>
    /\ ReleasePressed(pressed, Then(Head(agenda).pos, Len(pressed), Tail(agenda)))

\* position_state_up starts with cleanup.
PositionStateUp ==
    /\ Doing("up")
    /\ agenda' = <<Cleanup(Head(agenda).pos)>> \o Tail(agenda)
    /\ UNCHANGED <<settings, engine, outside, passed, on>>

\* The active combo that holds key p, its place in the contiguous array.
HolderOf(p) == {i \in DOMAIN active : p \in ToSet(active[i].keys)}

\* Slip: the last record is dropped, not copied.
DeactivateDropsLast(i) == SubSeq(active, 1, Len(active) - 1)

\* deactivate_combo: the last record takes the free place.
Deactivate(i) == [j \in 1 .. Len(active) - 1 |-> IF j = i THEN active[Len(active)] ELSE active[j]]

\* Slip: a combo of the other kind of release is released too.
ReleaseComboKeyTwice ==
    /\ Doing("upRest")
    /\ LET p == Head(agenda).pos IN
       /\ HolderOf(p) # {}
       /\ LET i == Min(HolderOf(p))
              c == active[i].combo
              rest == Without(active[i].keys, p)
              all == Len(active[i].keys) = Cardinality(Keys[c])
          IN  /\ IF rest = <<>> \/ all
                   THEN Invoke(c, -1) ELSE UNCHANGED on
              /\ active' = IF rest = <<>> THEN Deactivate(i)
                           ELSE [active EXCEPT ![i].keys = rest]
    /\ agenda' = Tail(agenda)
    /\ UNCHANGED <<settings, pressed, candidates, fully, timer, timeoutAt, lastTapped, lastCombo, outside, passed>>

\* release_combo_key finds the key: the release event ends here.
ReleaseComboKey ==
    /\ Doing("upRest")
    /\ LET p == Head(agenda).pos IN
       /\ HolderOf(p) # {}
       /\ LET i == Min(HolderOf(p))
              c == active[i].combo
              rest == Without(active[i].keys, p)
              all == Len(active[i].keys) = Cardinality(Keys[c])
          IN  /\ IF (params[c].slow /\ rest = <<>>) \/ (~params[c].slow /\ all)
                   THEN Invoke(c, -1) ELSE UNCHANGED on
              /\ active' = IF rest = <<>> THEN Deactivate(i)
                           ELSE [active EXCEPT ![i].keys = rest]
    /\ agenda' = Tail(agenda)
    /\ UNCHANGED <<settings, pressed, candidates, fully, timer, timeoutAt, lastTapped, lastCombo, outside, passed>>

\* Slip: the release is raised again whatever cleanup did.
UpAlwaysAgain ==
    /\ Doing("upRest")
    /\ HolderOf(Head(agenda).pos) = {}
    /\ agenda' = <<Up(Head(agenda).pos)>> \o Tail(agenda)
    /\ UNCHANGED <<settings, engine, outside, passed, on>>

\* No active combo has the key: after presses were raised again the release is
\* raised again as well, to keep its place; otherwise it goes on.
UpAfterCleanup ==
    /\ Doing("upRest")
    /\ HolderOf(Head(agenda).pos) = {}
    /\ IF Head(agenda).released > 1
         THEN agenda' = <<Up(Head(agenda).pos)>> \o Tail(agenda) /\ UNCHANGED passed
         ELSE agenda' = Tail(agenda) /\ passed' = passed \ {Head(agenda).pos}
    /\ UNCHANGED <<settings, engine, outside, on>>

\* update_timeout_task: k_work_schedule answers 0 and changes nothing when the
\* task is scheduled already; no value equals LLONG_MAX where long has 32 bits.
UpdateTimeoutTask ==
    /\ Doing("update")
    /\ IF timeoutAt = FirstTimeout THEN UNCHANGED <<timer, timeoutAt>>
       ELSE /\ timer' = IF timer = Off THEN FirstTimeout ELSE timer
            /\ timeoutAt' = FirstTimeout
    /\ agenda' = Tail(agenda)
    /\ UNCHANGED <<settings, pressed, candidates, fully, active, lastTapped, lastCombo, outside, passed, on>>

-----------------------------------------------------------------------------
(* What may happen between two events. *)

Idle == agenda = <<>>

\* combo_timeout_handler.  With no key pressed the code asks whether the press that
\* was last in pressed_keys[0] is in time: any candidates may remain.
TimeoutHandler ==
    /\ Idle
    /\ timer # Off /\ now >= timer
    /\ timer' = Off
    /\ IF timeoutAt = 0 \/ now < timeoutAt THEN UNCHANGED <<candidates, agenda>>
       ELSE \E left \in IF pressed = <<>> THEN SUBSET candidates ELSE {InTime(candidates, timeoutAt)} :
            /\ candidates' = left
            /\ agenda' = IF left = {} THEN <<Cleanup(NoKey), Update>> ELSE <<Update>>
    /\ UNCHANGED <<settings, pressed, fully, active, timeoutAt, lastTapped, lastCombo, outside, passed, on>>

KeyDown(p) ==
    /\ Idle
    /\ p \notin ToSet(held)
    /\ held' = Append(held, p)
    /\ agenda' = <<Down(p, now)>>
    /\ UNCHANGED <<settings, engine, now, layer, passed, on>>

KeyUp(p) ==
    /\ Idle
    /\ p \in ToSet(held)
    /\ held' = Without(held, p)
    /\ agenda' = <<Up(p)>>
    /\ UNCHANGED <<settings, engine, now, layer, passed, on>>

Tick ==
    /\ Idle
    /\ now < MaxTime
    /\ now' = now + 1
    /\ UNCHANGED <<settings, engine, agenda, layer, held, passed, on>>

\* A behavior downstream switches layers, also while captured keys are let go.
SetLayer(l) ==
    /\ l # layer
    /\ layer' = l
    /\ UNCHANGED <<settings, engine, agenda, now, held, passed, on>>

\* One field of the copy rt_combo_set or rt_combo_reset makes (RtStore's CopyField).
CopyField(i, f, v) ==
    /\ Idle
    /\ v # params[i][f]
    /\ params' = [params EXCEPT ![i][f] = v]
    /\ UNCHANGED <<build, engine, agenda, outside, passed, on>>

Work ==
    \/ DownIgnored \/ PositionStateDown \/ BubbleDown
    \/ CleanupOnly \/ ActivateCombo \/ ActivateNoRoom \/ AfterNoRoom
    \/ PositionStateUp \/ ReleaseComboKey \/ UpAfterCleanup
    \/ UpdateTimeoutTask

Next ==
    \/ Work
    \/ TimeoutHandler
    \/ \E p \in Position : KeyDown(p) \/ KeyUp(p)
    \/ Tick
    \/ \E l \in Layer : SetLayer(l)
    \/ \E i \in Combo : \E f \in DOMAIN params[i] : \E v \in Edits[i][f] : CopyField(i, f, v)

\* The work queue carries a call through.
Spec == Init /\ [][Next]_vars /\ WF_vars(Work)

-----------------------------------------------------------------------------
(* Properties. *)

TypeOK ==
    /\ pressed \in Seq([pos : Position, at : 1 .. MaxTime])
    /\ Len(pressed) <= MaxComboKeys
    /\ candidates \subseteq Combo
    /\ fully \in Combo \cup {None}
    /\ active \in Seq([combo : Combo, keys : Seq(Position)])
    /\ Len(active) <= MaxPressed
    /\ passed \subseteq Position
    /\ held \in Seq(Position)
    /\ DOMAIN on = Behavior

Captured == {pressed[j].pos : j \in DOMAIN pressed}
InCombos == UNION {ToSet(active[i].keys) : i \in DOMAIN active}

\* The combos have each key once.
CombosShareNoKey ==
    \A i, j \in DOMAIN active : \A a \in DOMAIN active[i].keys, b \in DOMAIN active[j].keys :
        active[i].keys[a] = active[j].keys[b] => i = j /\ a = b

\* No key press is lost, doubled or made up: between events every key that is
\* down is in exactly one place (captured, held by one combo, or passed on to
\* the keymap), and no key that is up is anywhere.  Releases that are captured,
\* raised again and swallowed by combos keep that true in any order of keys.
KeysConserved ==
    Idle =>
        /\ ToSet(held) = passed \cup Captured \cup InCombos
        /\ passed \cap (Captured \cup InCombos) = {}
        /\ Captured \cap InCombos = {}
        /\ \A i, j \in DOMAIN pressed : pressed[i].pos = pressed[j].pos => i = j
        /\ CombosShareNoKey

\* The keymap sees presses in the order the keys went down: no key passes
\* another that was pressed before it and is still captured or to be raised again.
Undecided == Captured \cup {agenda[i].pos : i \in {j \in DOMAIN agenda : agenda[j].do \in {"down", "bubble"}}}
NoOvertaking ==
    \A i, j \in DOMAIN held :
        i < j /\ held[j] \in passed /\ held[j] \notin Undecided => held[i] \notin Undecided

\* A combo swallows its own keys only, each once.
CombosHoldTheirKeys ==
    \A i \in DOMAIN active :
        /\ ToSet(active[i].keys) \subseteq Keys[active[i].combo]
        /\ Len(active[i].keys) = Cardinality(ToSet(active[i].keys))
        /\ active[i].keys # <<>>

\* A combo's behavior is down exactly while its keys say so: with slow release
\* until the last of them is up, otherwise until the first is.
BehaviorFollowsKeys ==
    Idle => \A b \in Behavior \ {Unknown} :
        on[b] = Cardinality({i \in DOMAIN active :
                    LET c == active[i].combo IN
                    /\ params[c].binding = b
                    /\ params[c].slow \/ Len(active[i].keys) = Cardinality(Keys[c])})

\* Raising captured keys again, each of which may capture and release in turn,
\* comes to an end: the listener always returns to the work queue.
EventsEnd == ~Idle ~> Idle

\* The comment in struct active_combo: "Once this array is empty, the behavior is
\* released."
ReleasedOnceEmpty == Idle /\ active = <<>> => \A b \in Behavior : on[b] = 0

\* The assertion in filter_timed_out_candidates: "Searching for a candidate
\* timeout with no keys pressed".
TimeoutHasKeys ==
    [][timer # Off /\ timer' = Off /\ Idle /\ timeoutAt # 0 /\ now >= timeoutAt
         => pressed # <<>>]_vars

\* The comment in combo_timeout_handler says of a task that runs before its time:
\* "timer was cancelled or rescheduled".  So keys still captured then have a task
\* scheduled that will time them out.
EarlyTaskWasRescheduled ==
    [][TimeoutHandler /\ now < timeoutAt /\ pressed # <<>> => timer' # Off]_vars
=============================================================================
