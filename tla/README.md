# TLA+ models of zmk-module-runtime-config

The repository lets a host edit macros, hold-tap timing, conditional layers and
combos of a running ZMK keyboard. Two programs take part: a firmware module in C
(`src/src/`), and a Python host (`src/cli/zmk_runtime_cli/`) with a browser page
(`src/cli/ui/`). This directory models the parts of both that keep state,
the browser page included, checks
them with TLC on small instances and proves some of the results with TLAPS.

1. [The system](#1-the-system) · 2. [The modules](#2-the-modules) ·
3. [The runs](#3-the-runs) · 4. [The proofs](#4-the-proofs) ·
5. [Where the code disagrees](#5-where-the-code-disagrees-with-what-it-says) ·
6. [Not modelled](#6-not-modelled) · 7. [Plan](#7-plan)

To check: `tlc -config MCStoreRpc.cfg MCStoreRpc`, and so on for each run below;
`tlapm StorePageProofs.tla`, and the same for `LayersProofs`, `MacroProofs`,
`MuxProofs`, `EditorsProofs`, `ComboProofs`, `HoldTapProofs` and `HoldTapOutcomeProofs`.

## 1. The system

### Who runs

| actor | what it does | what it can interrupt |
|---|---|---|
| boot | registers every store entry (SYS_INIT of each devicetree node), then `settings_load` in `main` hands each stored key to its callback | nothing else runs on these data yet |
| Studio RPC thread | decodes one request at a time and runs its handler: get, set, reset, and the settings reset of ZMK Studio | lowest priority: the work queue preempts it between any two instructions |
| system work queue | key events and their listeners (combo, hold-tap, conditional layers, monitor), behaviors, timers, the behavior queue | cooperative: it runs until it waits (a mutex, `k_msleep`) |
| power | may go at any moment | everything; one settings record is written whole or not at all |
| host client | `send_recv` on the serial port, under the session's lock | |
| reader thread | takes the port over while event streams are open | |
| event streams | one HTTP thread per `/api/events`; subscribe and unsubscribe without the session's lock | |
| the browser page | async functions of the page, each waiting for one reply at a time; the user may start others meanwhile | replies are served in any order; a reply may be an error although the request took effect |

### Components

| component | state | operations | interacts with | hard behaviours | what makes it correct |
|---|---|---|---|---|---|
| Parameter stores: `runtime_combo_store.c`, `runtime_holdtap_store.c`, `runtime_condlayer_store.c` | table of entries (default, saved copy, flags, pointer to the live struct); flash keys | register, settings callback, get, set, reset, clear all | written by the RPC handlers, read by the engines without a lock | power cut or failing save between flash and RAM; torn reads; load before or after registration | RAM is what a reboot would restore; an `ok` means both hold the value; a reader sees old and new fields only |
| Combos RPC: `combos_rpc_handler.c` | none of its own | list, get, set of one field (read-modify-write), reset | store | 32-bit index cast to 8 bits | a set changes its field only; no key in flash for a combo that does not exist |
| Hold-tap RPC and client: `holdtap_rpc_handler.c`, `holdtap_client.py` | what the client got, until it sets | get, set of the whole struct, reset | store | the read and the write are two requests, with restarts in between | the fields not named survive the round trip |
| Conditional layers: `runtime_conditional_layer.c` and its store and handler | layer state, `updates_needed`, `rt_cfgs` | layer listener, set, reset | keymap (re-entrant), RPC thread | cascades, cycles, half-copied entries | then-layers follow the if-layers; the result does not depend on the order of events; the loop ends |
| Combo engine: `runtime_combo.c` | captured keys, candidates, the complete combo, active combos, timeout task, timestamps | key down, key up, timeout, keycode event | keymap, behaviors, itself (events raised again) | re-entrance, timeout racing a key, full table, parameters edited while held | no key lost or doubled, order kept, a behavior is down exactly while its keys say so |
| Hold-tap engine: `behavior_runtime_hold_tap.c` | active hold-taps with their timers, the undecided one, captured events, last tap | binding pressed and released, position and keycode listeners, timer | keymap, behaviors, itself | nested capture and release, late timers, flavors, retro and quick taps, edits while undecided | one binding per press, pressed once and released once; nothing captured for ever; presses in order |
| Macros: `runtime_macro_store.c`, `macros_rpc_handler.c`, `behavior_runtime_macro.c`, `macro_dsl.py` | flash, RAM cache, mutex, behavior queue | set, reset all, get, key press | behavior queue of ZMK | copy of the cache against a key press; power cut; full queue | cache is flash; what plays is one macro; keys come up; the keyboard never freezes |
| Monitor: `monitor_rpc_handler.c`, `monitor_listener.c` | a flag | enable, disable, get layers; three listeners | session, mux | flag against host's count | a stream that is open is told everything from its first layers on |
| Serial multiplexer: `ui/mux_serial.py` | buffers, subscribers, reader thread | read, write, subscribe, unsubscribe, stop | session, streams, `rpc.py` | threads starting and stopping while clients read | one reader of the port; the stream keeps its order; nothing lost |
| RPC transport: `rpc.py`, `framing.py` | request counter | encode, decode, `send_recv` | every client | late answers, split and merged frames | an answer belongs to the request |
| Device session: `ui/session.py` | handle, stream count, cached subsystem index | open, close, error, monitor open and close | mux, monitor | count and flag changed in two steps | stream on while there are listeners |
| UI server: `ui/server.py`, `ui/features.py`, `ui/state.py` | none besides the session | routes: unlock check, backup, write, save; event stream | session | one of several writes failing | what is answered is what the keyboard holds |
| Clients, CLI, backup log | none that outlives a call | one request each | transport | | |
| Page: `App.tsx`, `api.ts` | documents (state, features, groups), flags (`busy`, `loadingFeatures`, `error`), calls under way | run a change and reload, refresh, save the groups, snapshot, reset | UI server | overlapping calls, answers that pass each other, errors after the fact, partial reloads | a quiet page shows the keyboard; the controls come back |
| Layer card: `LayerChips.tsx`, `groups.ts`, `LayerChoice.tsx` | what is open and what it remembers | rename, drag, remove, restore layers; name, fill, delete groups | page | layers named by index, the document under the dialog changing | an operation hits what it was aimed at; a save is never refused |
| Forms: inspectors and panels, `params.ts`, `BindingForm.tsx`, `KeycodePicker.tsx` | drafts | seed, edit, apply whole or field by field, reset, parse | page | the document loaded again under a draft; a sequence of requests that stops half-way; 32-bit arithmetic of JavaScript | nothing is written that was not changed; a form shows the keyboard; what is sent fits the device |
| Board and lists: `activators.ts`, `board.ts`, `Keyboard.tsx`, `LayerEntry.tsx`, `LayerKeyList.tsx`, `Combo*.tsx` | tab, layer, selection, hover | select, point, go to a key, change tab, reload | page | four views of the same relation; layers that are gone | the views agree; "go" opens the key it names |
| Practice mode: `practice.ts`, `PracticeStrip.tsx` | pressed keys, layers, output, the stream | fold of events, start, stop, clear, pick a layer | server's event stream, monitor | a stream opened while keys are held, left behind, failing | once all events are in, the screen shows the keyboard |
| Help, labels, geometry, catalogs | none | | | | wording and layout |

`PROJECT.json` lists every component with what is modelled of it, and the
hazards at the lines where they bite.

## 2. The modules

```
DurableParams <--refines-- RtStore --EXTENDS-- CombosRpc --EXTENDS-- StoreRpc -- StorePageProofs
                              |                                        |
                              `--------- HoldTapRpc --INSTANCE---------'

Combo -- ComboProofs      HoldTap -- HoldTapProofs -- HoldTapOutcomeProofs
Macro -- MacroProofs      MuxSerial, Practice -- MuxProofs

Requests, Groups -- Page -- LayerCard -- StorePageProofs
Keycodes -- Bindings -- Editors -- EditorsProofs      (Editors with Requests)
                   \--- Board -----.
                    CondLayers ----`-- LayersProofs
```

An `MC` module gives a module's constants values that a `.cfg` cannot write. A
definition with the comment *Slip:* is a variant of the definition after it
with a plausible bug; no specification uses it, and `PROJECT.json` pairs it with
the property that catches it.

### DurableParams, RtStore

`DurableParams` is the promise: each entry has one durable value and one view
the engine reads; a request stores entry by entry, each at one instant; `ok`
means stored and visible, `error` means neither.

`RtStore` is the C code. `nvs` is flash, `live` the structs the engines read,
`saved` and `registered` the table, `boot` and `toLoad` where the boot is.
The RPC thread's place in a call is `pc`: `SetCall`, then `SaveOk` or `SaveFails`
(`settings_save_one`), `CopyField` per field of `*live = *p`, `CopyDone`. A reset
goes through `Delete`, a reset of all goes on with the next entry. The copy is
field by field since a key event may preempt it. `PowerCut` is possible in every
state and drops everything but `nvs`. The three stores differ in names only; the
map cites the combo store.

### CombosRpc, HoldTapRpc, StoreRpc

The first two extend `RtStore` with the handlers. `Cast` is the conversion of the
request's 32-bit index to `uint8_t`. `CombosRpc!HandleSet` reads the live struct,
changes one field and calls the store. In `HoldTapRpc` the firmware replaces the
whole struct, and the host gets it first: `held` is what the client keeps between
its two requests. The port belongs to one process and the session's lock to one
client, so no other request comes in between; boot steps and a restart may. `StoreRpc` puts both
over one store, so that one run checks and one proof covers the store under either:
`subsystem` says which, and `HoldTapRpc` is an `INSTANCE`.

### CondLayers

`Pass` is one round of the while loop in
`layer_state_changed_listener`; the switches it makes re-enter the
listener, which only sets `updates_needed` again, as the semaphore is taken. The
layer state leaves out the default layer's bit, which the keymap never clears.
`CopyField` is one half of `*live = ...`; the listener may read an entry between
the two halves. `seen` remembers the entries the last pass read, for the
properties. `Closure` defines what ranked entries mean, layer by layer, without
a loop.

### Combo

The listener raises captured keys again, and these events come back into the
same listener before the loop that raised them goes on. `agenda` is what is left
of the call being executed, innermost call first: a step takes its head and
pushes the calls it makes. `PositionStateDown`, `PositionStateUp`, `TimeoutHandler`
and the parts they call (filter, capture, release, activate, cleanup) are named
after the code's functions. `held`, `passed` and `on` are the outside world: the
keys that are down, those whose press went on to the keymap, and how often each
behavior is pressed.

### HoldTap

The same agenda. An event on it is a position event (`pos`), a keycode event
(`code`), or a call inside the behavior. `captured` is `captured_events`, with
`from` marking the place an event raised again still lies in: the code raises it
by reference. `Decide` is `decide_hold_tap` with its flavors (`hold-preferred`,
`balanced`, `tap-preferred`, `tap-unless-interrupted`), retro tap, quick tap, prior
idle and trigger positions included. A timer fires at any moment from its due time
on; if another key's event (`WhileUndecided`) or the key-up (`BindingReleased`) comes
first, with a timestamp past the term, that call makes the timer's decision.
`release_captured_events` sleeps while a hold-tap is undecided (`k_msleep`); that is the
one place inside a call where the RPC thread may edit timing.

### Macro

`pc`, `locked`, `steps` and `done` follow the RPC thread through `rt_macro_set_steps`
and `cache_update`; `KeyPress` is the work queue in `rt_macro_get_steps`: it takes the
cache at once, or waits in `waiting` if the mutex is held. `queue`, `delayed`
and `Process` are ZMK's behavior queue, as the behavior uses it; a step's `hold` and
`wait` say whether its `tap_ms` and `wait_ms` are positive. The firmware cuts a macro
to `MaxSteps`. `Balanced` is the test of `macro_dsl.parse`; it guards no action, since the
command line can be told to skip it and the browser's route only warns, but
`KeysComeUp` speaks of macros that pass it.

### MuxSerial

The byte stream is cut into halves of frames. A step is what one thread does
under `_cond` or `_io`, or between two such sections, and nothing else orders the threads: a
stream may subscribe, and a client read, at any moment. `subscribe` is two steps (`Subscribe`
under the lock, then `StartThread`, which raises when a `stop()` has come in between);
`unsubscribe` is two, since it lets go of the lock before it calls `stop()`; `stop()` is
two, since it joins the reader (`StopBegin`, `StopEnd`; `StopRaises` joins a thread that was not
started). The join has a timeout, so `StopEnd` does not wait for the reader. `_pending` has no
lock: `LoadPending` reads it and `Extract` or `NoFrame` stores it. `Fail` is the reader whose
read raised, `Close` a thread that closes the handle.

The docstrings promise more than this gives. So that a property can say what holds
and when, the ghost `mishaps` remembers which of six meetings have taken place:

| meeting | when | where |
|---|---|---|
| `Late` | a stream subscribed when a `stop()` was due | `mux_serial.py:129` |
| `Overlap` | a stream subscribed while a `stop()` waited for the reader | `mux_serial.py:113` |
| `GaveUp` | a `stop()` ended with its reader alive | `mux_serial.py:146` |
| `Failed` | the reader's read raised, or the handle was closed | `mux_serial.py:164` |
| `Bypass` | a client's read of the port got bytes that follow some the reader has | `mux_serial.py:74` |
| `Backlog` | a half-read frame was put before frames that waited | `mux_serial.py:151` |

No action has a guard on `mishaps`: every meeting happens in the run. `Free(of)` in a property
names those after which it promises nothing.

### Requests, Groups, Page, LayerCard

`Requests` is `api.ts` and the rule of the browser: a call of the page is an async
function between two awaits, kept in a lane of `calls`; `Serve` lets the server answer
any request under way, `replies` are the answers on their way back, `Resume` runs the
page to its next await. Every request may be answered with an error whether or not it
took effect. `InOrder` says whether answers reach the page in the order they were
given.

`Page` is `App.tsx`. `dev` and `file` are the keyboard and `.zmkrt-ui.json`, `state`,
`features`, `meta` and `initial` what the page has of them. A change goes through
`op` (`run`, `runLayer`), `state` and `features` (`refetch`), and `groups`
(`refetchMeta`) in that order; `OpAnswered`, `StateRead`, `FeaturesRead`,
`ReloadFailed`, `GroupsRead` and `SaveAnswered` are the code between the awaits, with
its catch and finally. `Carried` is what the keyboard makes of a layer operation, by
index as the firmware takes it; the contents of a part are a count of its changes.
`Slugged` is `_slug` of the server: ids of groups are made anew from their names
at every save. `Groups` has the pure functions of `groups.ts`.

`LayerCard` adds `LayerChips.tsx`: `open` is the dialog, menu, drag or text field that
is open, with the index or id it remembers, and a ghost that says whether the page
was quiet when it was opened.

### Keycodes, Bindings, Editors

`Keycodes` is the arithmetic of `params.ts` and the keycode picker, with JavaScript's
signed result of a bitwise operator (`Signed`); the number of keys below the modifiers
(`KeyCount`, 2 ^ 24 in the code) is a constant. `Bindings` is the binding form: which editor a parameter gets,
what picking a behavior does to both parameters, and what one use of the form can make
of a binding.

`Editors` is one form over the part of the keyboard it edits; `form` says which of the
seven. `drafts` is seeded by `Seed` when something is selected and by `Reseed` when a
document arrives (each form's `useEffect` or `key`), `Change` sends one request or a
list of them (`OneByOne`), which stops at the first failure, and `touched` is a ghost:
the fields the user changed since.

### Board

No server: the keymap and the features change under the page (`Reload`), and the user
selects, points and changes tabs. `KeyActivators` and `Rest` are `layerActivators`;
`CapShows`, `Banner`, `LayerKeyRows` and `MarksFor` are the four views. `Noted` stands for the
`layerNotes` of `decor.ts`, which go by the names of layers: a note is a way in, has the
trackball's mark, and takes the place of the base layer's own.

### Practice

From the key to the screen: `Press`, `Release` and `Turn` report to the queues of the
subscribed streams while the firmware's flag is on; `stage` is how far the handler of
a stream is in `monitor_open`, the loop of `api_events` and `monitor_close`;
`written` is the EventSource; `Reduce` is `practice.ts`; `practice` is the state React
holds and `drawn` the one a click handler sees. The handlers of several streams interleave at
every step, as nothing but the session's lock orders them. Ghosts: `before` has the keys held since before the
page's stream was told of any, `missed` an event that stream had to be told of while
the flag was off, `undone` a disable that failed.

## 3. The runs

| run | configuration | states | shows |
|---|---|---|---|
| `rpc` | MCStoreRpc | 27,554 | a store under the combos subsystem and under the hold-tap client: RAM is what flash would restore (`LiveMatchesFlash`), a get answers that value (`GetAnswersDurable`), a reader sees old and new fields only (`TornReadIsBounded`), the store implements `DurableParams` (`KeepsPromise`), and an edit loses no other field on its way to the host and back (`EditKeepsOtherFields`); failing saves and power cuts at every step |
| `condlayers_ranked` | MCCondLayersRanked | 13,692 | ranked entries: then-layers follow, the result is `Closure` for every history, the loop ends; edits whole and half-copied |
| `condlayers_loop` | MCCondLayersLoop | violation | see section 5 |
| `combo` | MCCombo | 421,521 | overlapping combos, timeouts, quick taps, slow release, an edited timeout; and two combos on the same keys with room for one active one: keys are conserved and in order, behaviors follow keys, raising keys again ends |
| `holdtap` | MCHoldTap | 341,870 | two hold-taps and a modifier, timers on time or late, flavors and quick taps edited at any moment; and room for one hold-tap and two captured events, where presses are refused: nothing is left behind, one binding per press, in order, decided by the times the keys moved |
| `macro` | MCMacro | 154,213 | cache and flash agree, whole macros play, balanced ones leave no key down, a waiting key press is served |
| `mux` | MCMuxSerial | 1,990,298 | two streams come and go, a client reads, the reader fails and the handle is closed, in every order: one reader at a time unless a stream subscribes during a join or the join is given up (`PortHasOneReader`); a stream has its reader unless it came when a stop was due or the port failed, and no reader runs without one (`ReaderServesStreams`); notifications reach each stream in order, and `read()` gets the rest in order unless a client overtook the reader or a half-read frame was put before others (`StreamInOrder`); nothing is lost but the end of a frame whose beginning a client took before the reader came (`NothingLost`) |
| `page` | MCPage | 199,328 | overlapping changes, refreshes, saves and failures: a quiet page is fresh, features stay whole, removals and moves begun on a quiet page hit what they name, no save of the groups is refused, the controls come back |
| `editors` | MCEditors | 312,969 | the seven forms: nothing untouched is written, a form shows the keyboard, drafted parameters fit their behavior |
| `editors_right_gui` | MCEditorsRightGui | violation | see section 5 |
| `board` | MCBoard | 18,240 | ten keymaps: caps, banner and list group the keys into a layer to the same keys, gestures and layers, "go" shows the key it names |
| `practice` | MCPractice | 564,922 | from the keyboard's report to the screen, with two streams opened, failing, left behind and closed in every order: once every event is in, the board shows the keys, layers and keycodes of the keyboard, unless the flag was off at an event (`CaughtUp`); after the last stream the keyboard is silent (`SilentWhenIdle`) |

### Bounds

- Stores: three entries, one of them not registered, two fields of two values,
  indices past the table (3) and past eight bits (257). Calls touch one entry at a
  time, so a second one is there to be left alone, and two fields make a torn copy. No
  bound on requests or power cuts.
- Conditional layers: five layers, two entries, one cascading from the other.
  No bound on events.
- Combos: three combos over four keys (lengths 2, 2, 3, sharing keys), or over three
  keys with two of the combos alike. `MaxTime` = 2: a key before, at and after
  the timeout. The clock stops there; keys go on for ever.
- Hold-taps: three keys, three presses each of which may be captured, raised
  again and captured by the next hold-tap; three or four ticks (terms 1 and 2).
  `MaxEvents` bounds presses only: every key that is down can come up.
- Macro: two slots of three steps, a queue of four, so that two macros
  do not fit; two presses per boot; four macros, one of them longer than a slot.
  No bound on sets, resets and power cuts.
- Mux: three frames, the second a notification; two streams, one thread that closes; two reader
  threads, the second of which is needed for two at once. `Explored` bounds what is sent, not what
  happens: one piece after `Overlap` or `GaveUp`, where the properties of the stream promise
  nothing, and two frames after `Late`.
- Page: three layer ids, two in use; two parts; two group names with the same slug;
  two lanes, so that two calls overlap; two events beside the first load, where
  an event is a request of the user, an error answer or a lock. Two suffice for a change
  that overlaps another, or a change that fails and is followed by a save.
- Editors: two places, two cards, two plain fields, `MaxTouched` = 2 fields changed at a
  time, two events. A behavior with a layer and a keycode and one with no parameters
  are the cases `Bindings` tells apart; one toggled modifier in the passing run, the right
  GUI in the other.
- Board: ten keymaps that have every combination of two keys that vary, one and two
  layers, two features documents, a layer with a note in some keymaps; no bound on events.
- Practice: two streams, four events (keys, turns, starts, failures), layer ids out of
  order so that an id is not an index; no bound on picks, clears and stops. With five
  events (4,930,000 states) both properties hold as well.

`holdtap`, `page`, `editors`, `editors_right_gui` and `board` say
`CHECK_DEADLOCK FALSE`: with the bounded events used up, or on a page that failed to
draw (`LayerCard!Broken`), nothing is left to happen. All others check deadlock.

Assumptions a passing run makes, each with its counterexample in section 5: deletions
succeed (`DeleteMayFail` = FALSE), and answers reach the page in order (`InOrder` = TRUE).
`mux` and `practice` make none about the order of threads: where the code fails in some order, the
property says so itself, by a ghost that remembers it.

### Fairness

- `CondLayers`: `WF(Pass)`. The loop runs on the work queue until its condition is
  false.
- `Combo`, `HoldTap`: `WF(Work)`. A call on the work queue is carried to its end;
  nothing else of that queue runs before.
- `Macro`: `WF(RpcStep)`. While the work queue waits for the mutex, the thread that
  holds it gets to run; Zephyr then hands the mutex to the waiter. Keys, hosts,
  timers and power owe nothing.
- `LayerCard`: `WF` of `Serve(l)` for each lane and of `ReplyStep`. A `fetch` is answered or
  rejected, and the browser runs its continuation. The user owes nothing.

No safety property uses fairness. `MuxSerial`, the stores, `Editors`, `Board` and
`Practice` state no liveness.

## 4. The proofs

Each theorem holds for every value of its module's constants, under the `ASSUME` of the
modules it extends, which TLC evaluates in the runs, and the hypotheses named here.

`StorePageProofs` has two parts that do not use each other, the stores and the page. It begins with
the store alone, for every number of entries, every set of
registered ones, all fields, values and defaults:

- `TypeCorrect`: `Spec => []TypeOK`. Inductive together with `BootOrder`: no call
  runs before the keyboard is up, and `settings_load` only has keys that exist.
- `FlashAndRamAgree`: `Spec => [](LiveMatchesFlash /\ SavedMirrorsFlash)`, assuming
  `~DeleteMayFail`. Neither says anything of a boot or of a copy under way, so they
  are not inductive. `StoreInv` adds that during boot `saved` holds what was loaded and
  `live` follows for registered entries (`BootAgrees`), what the call's variables
  mean at each place (`CallShape`), and that in a copy flash already has the new
  value and the fields written so far are right (`CopyAgrees`).
- `TornReads`: the action property `TornReadIsBounded`, from the same invariant.
- `StoreKeepsPromise`: every step of `RtStore` is a step of `DurableParams` or a
  stutter, again from `StoreInv`.

and goes on with the two subsystems over it, with any indices a host may send, assuming
`~DeleteMayFail`:

- `StepsAreCalls`: a step of either subsystem is a step of the store, so that `StoreInv`
  is theirs too. For the hold-tap it needs that what the client holds is a struct.
- `GetsAreDurable`, `NoOrphans`, `EditsKeepFields`: `[]GetAnswersDurable`,
  `[]NoOrphanCombo` (no combo request leaves a key in flash for a combo that does not
  exist), `EditKeepsOtherFields`. `RpcInv` adds to `StoreInv` that an answer is gone
  before flash changes (`GotInv`), that what the client holds is what flash has
  as long as it holds it (`HeldInv`: no call runs in between, and a restart takes the
  client with it), and that a struct about to be saved differs from flash in the edited field
  only (`EditInv`).

`LayersProofs`, for every number of layers and all entries, ranked or not:

- `LayersTypeCorrect`: `Spec => []TypeOK`.
- `ThenLayersAlwaysFollow`: `Spec => []ThenLayersFollow`. The invariant behind it is
  `LoopInv`: when no pass is due, another pass over the entries last read would change
  nothing. `SettledFollows` turns that into the property.
- `RankedLayersHaveOneMeaning`: `Spec => []OrderIndependent`. What the layers mean is a
  recursive function over the layers, from the lowest up (`Closure`): `ClosureUnfolds` shows
  that it exists, and `SettledIsBuilt` that a pass that changes nothing has found it, both
  by induction on the layer.
- `BoardViewsAgree`, `GoShowsTheRightKey`: `BoardSpec => []ViewsAgree` and
  `BoardSpec => GoShowsTheKey`, for any keymaps with a layer, any behaviors and positions.
  Both follow from what grouping keeps: the groups of the banner, the gestures of each
  cap and the rows of a layer stand for the same triples of layer, position and gesture
  (`GroupsKeepWays`, `CapsKeepWays`, `RowsKeepWays`), and every layer of a group is one
  the key works on (`GroupsLead`).

`MacroProofs`, for any slots, steps, queue and macros:

- `WholeMacrosPlay`: `Spec => []PlaysWholeMacros`. `MutexInv` says that whatever is in the cache
  while the mutex is free is a stored macro or empty; only the holder of the mutex sees
  a copy half done.
- `CacheAndFlashAgree`: `[]CacheMatchesFlash`, assuming `~DeleteMayFail`. `CacheInv`: flash is
  ahead of the cache by the macro in `steps` between the save and the end of the
  copy, by the keys in `toLoad` during boot, and nowhere else.
- `NoKeyStaysDown`: `[]KeysComeUp`. `UpInv`: what is down, and what a queued item will press, is
  let go by an item queued behind it. While a macro is queued step by step the
  steps not queued yet count too (`ComesUp`). In a balanced macro each press has
  its release behind it (`BalancedLifts`, by counting), and the states between the steps are a recursive
  function: that it exists, and keeps `ComesUp`, is by induction.

`ComboProofs`, for any keys, combos, parameters and edits, any order of events, and any
size of the two tables:

- `NoKeyIsLost`: `Spec => []KeysConserved`, without a hypothesis: a full table, and a key
  released twice because of it, included. Between two events a key that is down is in one place. In
  the middle of a call it may also be on the agenda, so `KeyInv` counts it there: as a press
  about to be raised (`Raised`) or as a release under way (`LetGo`), with the release behind
  every press (`UpLast`) since a release makes the captured keys be raised first.
- `CombosTakeTheirKeys`: `[]CombosHoldTheirKeys`, assuming `[][~ActivateNoRoom]_vars`: no combo
  completes while `active_combos` is full. That is no bound on the model but the condition
  under which the property is true: without it MCComboStale has the
  counterexample (section 5). `RoomForEveryCombo` discharges it: with a place for every combo
  the table is never full, since a combo has one record at most (`OneRecord`). `TakesKeys`:
  captured keys are keys of every candidate, and of `fully` (`Fits`).
- `BehaviorsFollowTheirKeys`: `[]BehaviorFollowsKeys`, assuming room and that no step edits the
  binding or `slow_release` of an active combo (`RebindsActive`), which the code answers by releasing another
  behavior, or none (MCComboSlow). A behavior is down as often as there are records that
  keep it down (`Follows`).
- `NoKeyOvertakes`: `[]NoOvertaking`, assuming room. `OrderInv`: the keys in `passed`, in
  records, captured, and on the agenda in its order are never against the order they were
  pressed in (`InOrder`). A press that finds `pressed_keys` full, passes on and would
  overtake the captured keys is the hard case: it comes only when these complete a combo,
  which is cleaned up first (`FullIsComplete`, `BubblesLast`).

`HoldTapProofs`, for any keys, hold-taps, timings and edits of them, flavors, sizes of the
tables and order of events and timers:

- `NothingStaysCaptured`: `Spec => []CapturedHasOwner`, the first half of `CapturedIntact`,
  without a hypothesis. `OwnedInv`: what is captured has no free place before it and a
  hold-tap is undecided, or it lies before a `release_captured_events` under way that will come to it.
- `NothingIsOverwritten`: `Spec => []CapturedIntact`, assuming `Calm`: a hold-tap with a modifier that
  is a retro tap presses it early, and one that presses early does not linger. An
  event raised again is read where it lies in `captured_events` until the keymap has it, while
  the calls it starts may capture again. `CallsInv` says why its place is not taken:
  of the calls on the agenda that read a place or release from it, the inner has the
  lower place (`Ordered`), and while something is undecided a free place lies before each
  (`Clears`), so that the next capture goes there. A modifier pressed in the middle of
  a call is one capture more, for which a second free place is needed; `Calm` is what
  bounds these to one. Without it two late retro taps press their modifiers, one inside the
  release of the other, and the second is captured over the event still being raised.
- `PressesComeInOrder`, `UndecidedEnds`: `[]PressesInOrder`, `[]UndecidedIsTimed`, assuming `Calm` and
  `Plain`: the flavors are the four there are, and no hold-tap ignores the key of another.
  `LineInv`, kept until an event is lost to a full array, sees what is on the agenda and what is
  captured as one line of events. `InLine`: of any two, the one that comes first in the line is the sooner
  press, or the sooner event of its key, and no event stands before the end of the
  hold-tap of its key; what a `release_captured_events` will raise stands before the calls
  behind it, what the undecided hold-tap captured before all that has not passed the
  listener. `KeymapClear`: no press reaches the keymap while a hold-tap is undecided. `Alternate`:
  the presses and releases of a key on their way alternate, the last being how the key is now.
  `Follows`: the key of an active hold-tap is down, or its release is on its way
  before any press of it, hence no key has two hold-taps (`TapsIn`). `Awaited`: the undecided
  hold-tap's timer runs or its decision is on the agenda. The keyboard `Mixed` of the run meets
  both hypotheses; `Busy`, where a hold-tap ignores another's key, does not, and there the two
  properties are model-checked only.

`HoldTapOutcomeProofs` goes on from there, with the same freedom, to what becomes of a hold-tap:

- `OutcomesComeByTime`: `Spec => [](overflow \/ OutcomeByTime)`, assuming `Calm`, `Plain` and `Punctual`:
  only keys that are modifiers are ignored, and a hold-tap that looks at the releases of
  other keys (`hold-trigger-on-release`) has its own key among its triggers. Without the second the
  property is false (MCHoldTapOwnKey, section 5). Without the first an ignored key's keycode, raised
  past the captured events, can make `last_tapped` later than the press of a hold-tap still
  captured, which then is a quick tap even with a `require_prior_idle_ms` of -1. `TimeInv` says
  two things. There is a time no mark of the past is later than and no press still to come is
  earlier (`Floor`), so that a hold-tap is pressed with a time at which no quick tap is due. And of each
  hold-tap that the times decide (`InTerm`): its timer is not scheduled before its term
  ends; while it is open or a tap, whatever tells it that its key is up does so with a
  time within the term; once it is a hold the term is over, and the release of its key,
  wherever it still lies, is no earlier than that. `SeatedInv` closes the gap in the
  middle of a press, between the slot being taken and the timer being scheduled: what
  comes before the rest of a press (`Ahead`) is only what the press itself sends.
- `BindingsAreAsDecided`: `Spec => [](overflow \/ BindingsFollowDecisions)`, assuming these and
  `Steady`: a hold-tap that presses its hold early does not let it linger, and neither its
  devicetree timing nor an edit gives it a quick tap or a prior idle time. Without that the code releases
  a hold it never pressed, or releases one twice (section 5). The property speaks of the
  moments between two events, when the calls in between have sent everything. `BalanceInv`
  holds in every state: for each binding, what is pressed (`hid`) plus what the calls under
  way will send plus what is captured (`Net`) is what is owed (`Owes`), one or nothing by the
  status of the hold-tap on its key, or for a plain key by whether the key is down. Each
  action then is a line in these books: `Paid` is what it moves on the left, `Owing` on
  the right, and `Elsewhere` says that no other key's account is touched (`Rebalance`). A
  decision, for instance, sends what the new status owes (`DecideBalances`), and a captured event is
  worth the same in its place as on the agenda (`CaptureBooks`). An event lost to a full
  array is money lost, which is why the theorem ends there.
- `NothingIsLeftStuck`: `Spec => []NothingStuck`, under the same hypotheses. With every key up
  `UndecidedEnds` leaves no hold-tap undecided, `NothingStaysCaptured` then nothing captured,
  `Follows` no hold-tap active, and a key with no hold-tap owes nothing, so `BalanceInv` has
  every binding released.

The keyboard `Mixed` of the run meets the four hypotheses. `Busy` does not, and
there these properties are model-checked only. TLC also checks `OutcomeByTime` and
`BindingsFollowDecisions` within the run's bounds where `captured_events` has overflowed.

`MuxProofs`, for any frames, streams, closing threads and reader threads, with no hypothesis on
their order:

- `OneReader`: `[]PortHasOneReader`, with `Hands`, which has what a thread may hold in hand
  at which line, and that a stop waits for `_thread` or for none (`Safe` is the three with the types).
- `StreamsAreServed`: `[]ReaderServesStreams`. `ServeInv`: a reader is to run for a stream or for one
  whose stop is due (`Asked`); and until `Late`, `Overlap` or `Failed` the stream whose stop is due was the
  last, nobody waits for a reader that is to run, and one that is not started has somebody who
  is about to start it (`Served`).
- `StreamStaysInOrder`, `NothingIsLost`: `[]StreamInOrder`, `[]NothingLost`. `StreamInv`
  adds to `Safe`, until `Overlap` or `GaveUp`: the frame in hand, `_pending`, the chunk and the port are in
  line (`InLine`), whatever else has happened; what went to `read()` or waits for it comes before them until
  `Bypass` or `Backlog` (`Ordered`), and what went to the streams always (`Queued`); and every piece that was sent
  is in one of these places, or excused (`Accounted`). `SeenIsPending`: what the reader loaded from
  `_pending` is still there when it stores the rest, although no lock says so.

and about the practice mode that these streams feed, for any keys, layers, encoders, streams and
number of events, again in any order:

- `ScreenCatchesUp`: `PracticeSpec => []CaughtUp`. `ScreenInv` says of
  the events on their way (`OnTheWay`: what is written, then the queue) only what survives one
  more at the end and one less at the front, so that nothing has to be folded. The last event
  of a key is how the key is now, and a key without one is shown as it is (`KeysInv`); the
  last one of the layers is what they are now (`LayersInv`); between two presses of a keycode
  it is let go, and where a chip's keycode is no longer held its release is on the way
  (`CodesInv`; hence no keycode has two chips, and the first that `reduce` finds is the right
  one). As long as nothing is missed, this holds of a stream from the moment it has its layers.
- `KeyboardFallsSilent`: `PracticeSpec => []SilentWhenIdle`. `StreamsInv`: the count of clients is the
  number of streams that count, and a flag that is on has a stream that counts or one whose
  disable is due, or the last disable failed.

The page's part of `StorePageProofs`, for any layers, parts, groups, lanes and number of events:

- `FeaturesStayWhole`: `CardSpec => []FeaturesWhole`, whatever order answers come in.
  `WholeInv`: a call that asks for some parts only was started when there were features
  to merge them into, features are never taken away again, and an answer on its way has
  the parts its call asked for.
- `InOrderPageIsFresh`: `CardSpec => []QuietPageIsFresh`, assuming `InOrder = TRUE`. For each
  document `DocInv` says: some call will still have it read, or it was lost (`missed`, or a
  failed answer on its way), or answers on their way bring it and the last of them has it
  as the server does, or it is shown. "Quiet and nothing missed" leaves only
  the last. `InOrder` is what makes the last answer on its way the last one the page
  takes. Each action either leaves a document alone, starts a call that will have it
  read (`StartFresh`), serves a read or a change (`ServeFresh`), or takes the first answer
  (`ResumeFresh`).
- `SureOpsAlwaysHit`: `CardSpec => []SureOpsHit`, assuming `InOrder = TRUE`. `SureInv`: from
  the moment a dialog or a drag is opened on a quiet page nothing else is started, by the
  user or by an older call, until its operation is served, and the index it carries names
  in the keyboard's layers what it named on the page. That the page's layers are the
  keyboard's when the operation starts is `QuietShows`. `LayersInv`: all
  layers are sequences of ids, and operations carry indices.
- `SavesStayAccepted`: `CardSpec => []SavesAreAccepted`, in any order of answers. In every
  document of groups that is stored, shown, on its way or being sent a layer is in one
  group (`GroupsInv`). What the page has from the server also has ids of its own for each
  group (`UniqueIds`, which `Slugged` makes): a layer is moved to the group with a given id, and two
  such would both get it.

`EditorsProofs`, for any fields, places, values and number of calls:

- `FormsShowTheKeyboard`, `UntouchedFieldsStay`: `[]FormShowsKeyboard`, `[]UntouchedStays`,
  assuming `InOrder = TRUE`.
  `EditorsInv`: an untouched field of a draft is that of the document (`DraftsFollow`), the document is read again,
  lost, on its way or as the keyboard has it (`DocInv`, as for the page), and a field that an
  operation sends was touched, or is what the keyboard held as long as nobody else changed it
  (`SendsInv`).
- `DraftedBindingsFit`: `Fitting => (Spec => []ParamsFit)`, in any order of replies, for any
  behaviors, keycodes and modifiers. `Fitting` is what the keyboard says of itself: the bindings of
  its devicetree and the transparent one fit their behaviors, the key A has a code, there is a
  layer 0, and no parameter describes another kind before a constant (`ConstantsFirst`).
  Without the last, picking a behavior fills in the default of the first kind, where the
  form offers the constants only (`params.ts:55`, `params.ts:66`). `FitsInv`: the keyboard, the document, each draft, each request and each answer to a reading
  have such bindings only. Under it lies arithmetic: modifiers are multiples of `KeyCount`,
  and so leave the key of a keycode alone, the sign included (`JoinedBase`). TLC agreed with `Fitting` and `FitsInv`
  (without its shapes) before the proof, on the `editors` run with a behavior of constants added
  (1,349,010 states).

Every safety property of the passing runs is stated by a theorem, under the conditions given with
it. Induction is by a least counterexample (`LeastNumber`, from `WFMin`): the library's induction
theorems cannot be used. Model-checked only:

- Liveness (`UpdatesEnd`, `EventsEnd`, `PressesAreServed`, `ControlsComeBack`), which is out
  of the prover's reach.
- The hold-tap properties on keyboards outside the hypotheses of their theorems, and those whose
  theorem ends with an overflow after one.

A note on what is trusted. The SMT encoding of tlapm 1.4.5 takes the domain of a
function to be `1 .. Len(f)` in an obligation that mentions sequences. Numbers that index
functions here start at 1, except the slots of `Macro`: its proofs keep `Slot` and `FirstSlot`
unexpanded, so that in them a slot is any value. With this the provers derive FALSE from no
leaf whose goal is not FALSE itself.

## 5. Where the code disagrees with what it says

Two runs of `PROJECT.json` expect a violation.

| run | violated | what happens |
|---|---|---|
| `condlayers_loop` | `UpdatesEnd` | Entries {if 1, then 2} and {if 2, then 1} switch each other on and off for ever; the work queue never leaves the loop. The comment at `runtime_conditional_layer.c:57` says that the process terminates. |
| `editors_right_gui` | `KeycodesFitTheDevice` | `RG` is `0x80 << 24`, negative in JavaScript (`params.ts:11`); a keycode with the right GUI modifier is sent as a negative number, which the protobuf's uint32 refuses. `help.ts:284` describes the modifier as one to press together with the key. |

These are reproduced by changing a configuration as told, or with one that is not a
run.

| change | violated | what happens |
|---|---|---|
| MCMuxClaims | `OneReader` | A subscribe while `stop()` joins the old thread sets `_running` again and starts a second reader, and the old one goes on. `stop`'s docstring (`mux_serial.py:137`) says no one else touches the port. Likewise a `read()` while `stop()` waits finds `_running` false and goes to the port beside the reader. |
| MCMuxClaims | `EveryStreamHasAReader` | A subscribe between the two halves of the last unsubscribe finds `_running` set, and `stop()` then ends the reader it relies on (`mux_serial.py:129`). |
| MCMuxClaims | `WholeStream` | `stop()` puts a half-read frame before whole frames read earlier that still wait (`mux_serial.py:151`). |
| MCMuxClaims | `NoByteLost` | The first subscribe comes while a client has read half a response; the reader drops the other half as noise. |
| MCCondLayersEdit | `EntriesInForce` | An entry edited while its if-layers are on takes effect at the next layer change only. |
| MCComboTimer | `EarlyTaskWasRescheduled` | `k_work_schedule` leaves a scheduled task alone, so it runs at the old time, finds it is early, and nothing times the captured keys out until another key moves. |
| MCComboSlow | `ReleasedOnceEmpty` | `slow_release` cleared between the first and last release of a combo: its behavior is never released. |
| MCComboStale | `CombosHoldTheirKeys` | With `active_combos` full, captured keys are released twice; candidates left behind make a later combo fire on keys that are not its own. |
| MCComboAssert | `TimeoutHasKeys` | The same leaves the timeout task scheduled with no key captured, which the code asserts never happens. |
| MCHoldTapOwnKey | `OutcomeByTime` | With hold-trigger-key-positions and hold-trigger-on-release the hold-tap's own release counts as the first other key: a long press is decided as a tap. |
| MCStoreRpc, `DeleteMayFail` = TRUE, PROPERTY `ResetDeletesKey` | `ResetDeletesKey` | `settings_delete`'s result is dropped: a reset answered ok may come back at the next boot. |
| MCStoreRpc, PROPERTY `SetNeedsRegisteredSlot` | `SetNeedsRegisteredSlot` | A hold-tap set for an unregistered slot is stored and answered ok; the header says it is an error. |
| MCMacro, `DeleteMayFail` = TRUE | `CacheMatchesFlash` | A failing `settings_delete` empties the cache and leaves the macro in flash. |
| MCMacro, PROPERTY `NvsWritesOutsideMutex` | `NvsWritesOutsideMutex` | The reset of all macros deletes keys while it holds the mutex a key press needs. |
| MCPage, `InOrder` = FALSE | `QuietPageIsFresh` | Two refreshes overlap, the older answer arrives last and replaces the newer; the page shows it until the next reload. |
| MCPage, INVARIANT `RemovesWhatItNames` | `RemovesWhatItNames` | The dialog that confirms a removal keeps an index (`LayerChips.tsx:657`); the document is loaded under it (`App.tsx:170`), it names another layer or none, or the keyboard removes another than the one named. |
| MCPracticeClaims | `OpenStreamHearsAll` | The last stream drops the count, a new one counts and enables, and then the old one's disable is sent (`session.py:184`): the new stream hears nothing. So too when a second stream counts itself (`session.py:162`) and has its layers before the first one's enable, or that enable fails. |
| MCBoard, INVARIANT `RingUnderPointer` | `RingUnderPointer` | A click on a row of the layer-key list takes the list away from under the pointer, and the ring it drew stays. |

Seen while modelling, and stated by no property:

- `HoldTap`: hold-while-undecided with a quick tap releases a hold that was never pressed,
  and with linger releases one twice; a stored flavor that is none of the four never
  decides, and the undecided hold-tap then captures every event; a full
  `captured_events` lets events pass those captured. When the timer decides inside the listener
  (`behavior_runtime_hold_tap.c:785`) and another hold-tap is undecided after it, that one captures the event
  without being asked whether it ignores the key; the later release of the key is not
  captured, and passes the press.
- `Combo`: the binding is looked up again at release (`runtime_combo.c:356`), so one edited
  while held releases another behavior; timestamps are narrowed to 32 bits
  (`runtime_combo.c:326`).
- `Macro`: a macro that is balanced but longer than the device's `MaxSteps` is cut and answered
  ok, and may leave a key down: the host's limit (`macro_dsl.MAX_STEPS`, 32) is the
  firmware's default, not its setting. The page's warning of an unbalanced macro
  (`MacroPanel.tsx:80`) is put into `error` of an answer that is ok, of which the page shows
  the usual text only (`App.tsx:166`).
- `Editors`: the answer to a parse goes to the table of whichever slot is shown by then
  (`MacroPanel.tsx:62`); a number of the trackball stays in its field after a failed set
  (`TrackballPanel.tsx:83`).
- `Page`: a `refetchMeta` that fails leaves the page with no groups (`App.tsx:112`), and the next
  save writes that.
- `Practice`: a log cleared between an event and its drawing puts the older state back
  (`practice.ts:183`, `PracticeStrip.tsx:95`), the case `CaughtUp` excepts.
- `MuxSerial`: a `stop()` between `subscribe`'s two halves sets `_thread` to None, and
  `self._thread.start()` (`mux_serial.py:120`) raises; the queue stays in `_subs` with nobody to take
  it out.
- Session and server: after a serial error the count of streams is kept
  (`session.py:69`); any failure while the subsystem is looked up is kept as "there is
  none" (`session.py:139`); a write whose `save_changes` fails is answered with an error
  and stays in force until the keyboard restarts (`server.py:94`).

## 6. Not modelled

- `send_recv` with its timeouts and late answers (`rpc.py`), reopening the port and the
  cached subsystem index of the session, the reconnecting of the EventSource.
  `Requests` takes their outcome: an answer, or an error whether or not the request took
  effect.
- `framing.py` and the tokenising of `macro_dsl.py`: pure functions on bytes and text, which
  have tests of their own.
- Backup log, CLI, tables of names: no state that outlives a call.
- Of the page: help, labels, legends, geometry, the search and drawing of the pickers,
  toasts, suggested groups, folded sections, tooltips, the practice log's texts. No state,
  or state no other part reads.
- Protos, generated code, devicetree bindings, Kconfig, assets: declarations; the values
  they fix are constants here.
- Inside the modelled parts: the text of settings keys, protobuf conversions,
  combo bindings that are not found, timestamps narrowed to 32 bits, the `int8_t`
  cast of a then-layer, behavior metadata, split sources, the
  `work_is_cancelled` branch of the hold-tap (`k_work_cancel_delayable` answers a mask
  of busy flags, never the `-EINPROGRESS` the branch tests for). `MuxSerial` is the life of
  one handle: the session's next one is another instance, with streams of its own.

## 7. Plan

What is left, most useful first:

1. `SendRecv`: requests, answers, timeouts and late answers over `MuxSerial`'s
   stream; the property that an answer is taken for the request it answers. With it the
   session's reopening and its cached index.
2. Proofs: the hold-tap theorems where hold-taps ignore each other's keys, and with early holds that
   linger or have quick taps, once the code says what these should do.
3. Extensions: bindings of combos edited while held, a module for 32-bit time, three
   nested hold-taps, the combo store's parsing of keys.
