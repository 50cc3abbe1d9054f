--------------------------------- MODULE Page ---------------------------------
(***************************************************************************)
(* The browser page (cli/ui/src/App.tsx over api.ts) and the documents it   *)
(* keeps: the state and the features of the keyboard, and the layer groups  *)
(* of .zmkrt-ui.json.  A change is one request; when it is answered the     *)
(* page loads the state again, then the features the change names, then,    *)
(* after a layer operation, the groups.                                     *)
(*                                                                         *)
(* Only this page changes the keyboard and the groups; what the server      *)
(* (cli/zmk_runtime_cli/ui/server.py) makes of its requests is Carried.     *)
(***************************************************************************)
EXTENDS Requests, Groups

CONSTANTS
    LayerId,      \* the layer ids of the keymap
    FirstLayers,  \* the layers the devicetree has, in order
    Part,         \* the features a reload can name
    GroupName,    \* the names a group can get
    Stem,         \* Stem[n]: the ASCII part of name n, from which ids are made
    FirstGroups   \* the groups .zmkrt-ui.json has

\* What the user has done to a part is counted, not spelled out.
Contents == Part \cup {"keymap"}
Group == [id : Seq(GroupName \cup Nat), name : GroupName, layers : SUBSET LayerId]

ASSUME PageAssumption ==
    /\ FirstLayers \in Seq(LayerId)
    /\ "keymap" \notin Part /\ Part # {}
    /\ None \notin [Part -> Nat] /\ \A parts \in SUBSET Part : None # parts
    /\ Stem \in [GroupName -> GroupName]
    /\ IsFiniteSet(LayerId)
    /\ FirstGroups \in Seq(Group) /\ Disjoint(FirstGroups) /\ UniqueIds(FirstGroups)

VARIABLES
    dev,       \* the keyboard: its layers, and how often each content changed
    file,      \* .zmkrt-ui.json
    state,     \* the state document the page draws
    features,  \* the features document: the count of each part it was read at
    loading,   \* loadingFeatures
    error,     \* is error set?
    busy,      \* the controls are disabled
    meta,      \* the groups the page draws, None until they are read
    initial,   \* initialLayers
    missed     \* what has failed: a "reload" (until a refresh on a quiet page), or the "groups"

server == <<dev, file>>
documents == <<state, features, initial>>
pageVars == <<dev, file, state, features, loading, error, busy, meta, initial, calls, replies, missed, events>>

\* A call that waits for the reply to a request: what it sent, which parts it will
\* reload (None: all of them), and whether it reads the groups in the end.
Call(at, sent, parts, groups) == [at |-> at, sent |-> sent, parts |-> parts, groups |-> groups, served |-> FALSE]

PageInit ==
    /\ dev = [layers |-> FirstLayers, count |-> [c \in Contents |-> 0], locked |-> FALSE]
    /\ file = FirstGroups
    /\ state = None /\ features = None /\ meta = None /\ initial = None
    /\ loading = FALSE /\ error = FALSE /\ busy = FALSE
    /\ calls = [l \in Lane |-> CASE l = 1 -> Call("state", None, None, FALSE)
                                 [] l = 2 -> Call("groups", None, None, FALSE)
                                 [] OTHER -> Free]
    /\ replies = <<>> /\ missed = {}
    /\ events = 0

-----------------------------------------------------------------------------
(* The server. *)

\* Layers by index, from 0, as the page and the firmware count them.
At(layers, i) == layers[i + 1]
Count(c) == [dev.count EXCEPT ![c] = @ + 1]

\* What the keyboard makes of an operation; a set, empty when it refuses.
Carried(op) ==
    LET n == Len(dev.layers)
        keep == [dev EXCEPT !.count = Count("keymap")]
        layers(s) == {[dev EXCEPT !.layers = s]}
    IN  IF dev.locked THEN {} ELSE
        CASE op.do = "rename" -> IF op.layer \in ToSet(dev.layers) THEN {keep} ELSE {}
          [] op.do = "key" -> {keep}
          [] op.do = "part" -> {[dev EXCEPT !.count = Count(op.part)]}
          [] op.do = "add" -> UNION {layers(Append(dev.layers, l)) : l \in LayerId \ ToSet(dev.layers)}
          [] op.do = "remove" -> IF op.index < n /\ n > 1 THEN layers(RemoveAt(dev.layers, op.index + 1)) ELSE {}
          [] op.do = "move" ->
               IF op.start < n /\ op.dest < n
               THEN layers(InsertAt(RemoveAt(dev.layers, op.start + 1), op.dest + 1, At(dev.layers, op.start)))
               ELSE {}
          [] op.do = "restore" ->
               IF op.layer \notin ToSet(dev.layers) /\ op.index <= n
               THEN layers(InsertAt(dev.layers, op.index + 1, op.layer)) ELSE {}
          [] op.do = "reset" -> {[dev EXCEPT !.layers = FirstLayers, !.count = [c \in Contents |-> @[c] + 1]]}

\* _slug: an id for each group, from its name; a taken one gets a counter.
Slugged(doc) ==
    [i \in DOMAIN doc |->
        [doc[i] EXCEPT !.id = <<Stem[doc[i].name], Cardinality({j \in 1 .. i : Stem[doc[j].name] = Stem[doc[i].name]})>>]]

StateDoc == [layers |-> dev.layers, count |-> dev.count["keymap"], locked |-> dev.locked]
FeaturesDoc(parts) == [p \in parts |-> dev.count[p]]
MetaDoc(groups) == [groups |-> groups]
All(parts) == IF parts = None THEN Part ELSE parts

\* An operation: refused, carried out and saved, or carried out and answered with an error.
ServeOp(l) ==
    /\ Asked(l, {"op"})
    /\ LET after == Carried(calls[l].sent) IN
       \/ after = {} /\ Reply(l, FALSE, None) /\ UNCHANGED <<dev, events>>
       \/ dev' \in after /\ Reply(l, TRUE, None) /\ UNCHANGED events
       \/ /\ Another
          /\ dev' \in after \cup {dev}
          /\ Reply(l, FALSE, None)
    /\ UNCHANGED <<file, documents, loading, error, busy, meta, missed>>

\* A read of the state, of features or of the groups.
ServeRead(l) ==
    /\ Asked(l, {"state", "features", "groups", "snapshot"})
    /\ \/ /\ Reply(l, TRUE, CASE calls[l].at = "state" -> StateDoc
                              [] calls[l].at = "features" -> FeaturesDoc(All(calls[l].parts))
                              [] calls[l].at = "groups" -> MetaDoc(file)
                              [] OTHER -> None)
          /\ UNCHANGED events
       \/ /\ Another
          /\ Reply(l, FALSE, None)
    /\ UNCHANGED <<server, documents, loading, error, busy, meta, missed>>

\* A save of the groups; a layer in two groups is refused.
ServeSave(l) ==
    /\ Asked(l, {"save"})
    /\ LET doc == Slugged(calls[l].sent.doc) IN
       \/ /\ Disjoint(doc)
          /\ file' = doc /\ Reply(l, TRUE, MetaDoc(doc)) /\ UNCHANGED events
       \/ /\ ~Disjoint(doc)
          /\ Reply(l, FALSE, None) /\ UNCHANGED <<file, events>>
       \/ /\ Another
          /\ file' \in {file} \cup {d \in {doc} : Disjoint(d)}
          /\ Reply(l, FALSE, None)
    /\ UNCHANGED <<dev, documents, loading, error, busy, meta, missed>>

Serve(l) == ServeOp(l) \/ ServeRead(l) \/ ServeSave(l)

-----------------------------------------------------------------------------
(* The page goes on with the reply to a call. *)

Next1(c, at) == [Then(c, at) EXCEPT !.sent = None]
\* After the reload: runLayer reads the groups, any other call is done.
AfterReload(c) == IF c.groups THEN Next1(c, "groups") ELSE Free

\* Slip: after an error there is nothing to reload.
OpAnsweredOnlyOk(k) ==
    LET l == replies[k].to IN
    /\ calls[l].at = "op"
    /\ busy' = FALSE
    /\ GoOn(l, IF replies[k].ok THEN Next1(calls[l], "state") ELSE Free)
    /\ UNCHANGED <<documents, loading, error, meta, missed>>

\* Slip: the controls come back in the body of the try, not in its finally.
OpAnsweredNoFinally(k) ==
    LET l == replies[k].to IN
    /\ calls[l].at = "op"
    /\ busy' = IF replies[k].ok THEN FALSE ELSE busy
    /\ GoOn(l, Next1(calls[l], "state"))
    /\ UNCHANGED <<documents, loading, error, meta, missed>>

\* run, its finally: the controls come back, then the reload starts.
OpAnswered(k) ==
    LET l == replies[k].to IN
    /\ calls[l].at = "op"
    /\ busy' = FALSE
    /\ GoOn(l, Next1(calls[l], "state"))
    /\ UNCHANGED <<documents, loading, error, meta, missed>>

\* refetch, its two halves, and the catch and finally of both.
StateRead(k) ==
    LET r == replies[k] IN
    /\ calls[r.to].at = "state" /\ r.ok
    /\ state' = r.doc /\ error' = FALSE /\ loading' = TRUE
    /\ initial' = IF initial = None THEN r.doc.layers ELSE initial
    /\ GoOn(r.to, Next1(calls[r.to], "features"))
    /\ UNCHANGED <<features, busy, meta, missed>>

\* Slip: what was read is the document, whichever parts were asked for.
FeaturesReadOver(k) ==
    LET r == replies[k] IN
    /\ calls[r.to].at = "features" /\ r.ok
    /\ features' = r.doc
    /\ loading' = FALSE
    /\ GoOn(r.to, AfterReload(calls[r.to]))
    /\ UNCHANGED <<state, initial, error, busy, meta, missed>>

FeaturesRead(k) ==
    LET r == replies[k]
        c == calls[r.to]
    IN
    /\ c.at = "features" /\ r.ok
    /\ features' = IF c.parts # None /\ features # None
                   THEN [p \in DOMAIN features \cup DOMAIN r.doc |->
                            IF p \in DOMAIN r.doc THEN r.doc[p] ELSE features[p]]
                   ELSE r.doc
    /\ loading' = FALSE
    /\ GoOn(r.to, AfterReload(c))
    /\ UNCHANGED <<state, initial, error, busy, meta, missed>>

ReloadFailed(k) ==
    LET r == replies[k] IN
    /\ calls[r.to].at \in {"state", "features"} /\ ~r.ok
    /\ error' = TRUE /\ loading' = FALSE /\ missed' = missed \cup {"reload"}
    /\ GoOn(r.to, AfterReload(calls[r.to]))
    /\ UNCHANGED <<documents, busy, meta>>

\* refetchMeta: what cannot be read is taken for no groups at all.
GroupsRead(k) ==
    LET r == replies[k] IN
    /\ calls[r.to].at = "groups"
    /\ meta' = IF r.ok THEN r.doc.groups ELSE <<>>
    /\ missed' = IF r.ok THEN missed ELSE missed \cup {"groups"}
    /\ GoOn(r.to, Free)
    /\ UNCHANGED <<documents, loading, error, busy>>

\* saveGroups: the page keeps what the server stored, or what it had.
SaveAnswered(k) ==
    LET r == replies[k] IN
    /\ calls[r.to].at = "save"
    /\ meta' = IF r.ok THEN r.doc.groups ELSE meta
    /\ missed' = IF r.ok THEN missed ELSE missed \cup {"groups"}
    /\ GoOn(r.to, Free)
    /\ UNCHANGED <<documents, loading, error, busy>>

SnapshotTaken(k) ==
    LET r == replies[k] IN
    /\ calls[r.to].at = "snapshot"
    /\ busy' = FALSE
    /\ GoOn(r.to, Free)
    /\ UNCHANGED <<documents, loading, error, meta, missed>>

Resume ==
    \E k \in DOMAIN replies :
        /\ Arrives(k) /\ Take(k)
        /\ \/ OpAnswered(k) \/ StateRead(k) \/ FeaturesRead(k) \/ ReloadFailed(k)
           \/ GroupsRead(k) \/ SaveAnswered(k) \/ SnapshotTaken(k)
        /\ UNCHANGED <<server, events>>

-----------------------------------------------------------------------------
(* What the user starts. *)

Shown == state # None
Disabled == state.locked \/ busy

\* run and runLayer: nothing happens on a keyboard that was locked when last read.
Run(op, parts, groups) ==
    /\ IF state.locked THEN UNCHANGED <<calls, events, busy>>
       ELSE busy' = TRUE /\ Start(Call("op", op, parts, groups))
    /\ UNCHANGED <<server, documents, loading, error, meta, replies, missed>>

SaveGroups(save) ==
    /\ Start(Call("save", save, None, FALSE))
    /\ UNCHANGED <<server, documents, loading, error, busy, meta, replies, missed>>

\* The refresh button.
Refresh ==
    /\ Shown /\ ~busy
    /\ Start(Call("state", None, None, FALSE))
    /\ missed' = IF Quiet THEN missed \ {"reload"} ELSE missed
    /\ UNCHANGED <<server, documents, loading, error, busy, meta, replies>>

\* The "..." menu: a snapshot, and the reset the dialog asks to confirm.
DoSnapshot ==
    /\ Shown /\ ~busy
    /\ busy' = TRUE
    /\ Start(Call("snapshot", None, None, FALSE))
    /\ UNCHANGED <<server, documents, loading, error, meta, replies, missed>>

Reset ==
    /\ Shown /\ ~busy
    /\ Run([do |-> "reset"], None, FALSE)

\* A panel or the inspector changes the keymap, or a part of the features it has read.
EditKey == Shown /\ ~Disabled /\ Run([do |-> "key"], None, FALSE)
EditPart(p) == Shown /\ ~Disabled /\ features # None /\ Run([do |-> "part", part |-> p], {p}, FALSE)

\* The keyboard locks itself, or the user presses &studio_unlock.
Lock ==
    /\ Another
    /\ dev' = [dev EXCEPT !.locked = ~@]
    /\ UNCHANGED <<file, documents, loading, error, busy, meta, calls, replies, missed>>
=============================================================================
