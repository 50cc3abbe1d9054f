------------------------------ MODULE LayersProofs ----------------------------
(***************************************************************************)
(* Proofs about layers.  On the keyboard, the conditional layers: for any   *)
(* number of layers, any entries (ranked or not) and any edits, whole or    *)
(* half copied.  On the page, the ways into a layer that the board shows.   *)
(***************************************************************************)
EXTENDS CondLayers, Board, WellFoundedInduction, TLAPS

\* A pass leaves the set of layers in its type: layers other than the default.
LEMMA SettleType ==
  ASSUME NEW c \in Entries, NEW on \in SUBSET (Layer \ {Default})
  PROVE  Settle(c, on) \in SUBSET (Layer \ {Default})
<1>1. Wanted(c, on) \subseteq Layer
  BY DEF Wanted, Entries
<1> QED
  BY <1>1 DEF Settle

\* A pass that changes nothing found every then-layer where its entries want it.
LEMMA SettledFollows ==
  ASSUME NEW c, NEW on, Settle(c, on) = on, NEW t \in ThenLayers(c) \ {Default}
  PROVE  t \in on <=> \E i \in Entry : c[i].then = t /\ c[i].mask \subseteq on
<1>1. t \in on <=> t \in Wanted(c, on)
  BY DEF Settle
<1>2. ASSUME t \in Wanted(c, on)
      PROVE  \E i \in Entry : c[i].then = t /\ c[i].mask \subseteq on
  BY <1>2 DEF Wanted
<1>3. ASSUME NEW i \in Entry, c[i].then = t, c[i].mask \subseteq on
      PROVE  t \in Wanted(c, on)
  BY <1>3 DEF Wanted
<1> QED
  BY <1>1, <1>2, <1>3

LEMMA InitTypeOK == Init => TypeOK
  BY LayerAssumption DEF Init, TypeOK, Entries

LEMMA StepTypeOK == TypeOK /\ [Next]_vars => TypeOK'
<1> SUFFICES ASSUME TypeOK, [Next]_vars
             PROVE  TypeOK'
  OBVIOUS
<1>1. ASSUME NEW l \in KeyLayers, NEW on \in BOOLEAN, SetLayer(l, on)
      PROVE  TypeOK'
  BY <1>1, LayerAssumption DEF SetLayer, TypeOK
<1>2. CASE Pass
  BY <1>2, SettleType DEF Pass, TypeOK
<1>3. ASSUME NEW i \in Entry, NEW v \in EntryValue(i), BeginCopy(i, v)
      PROVE  TypeOK'
  <2>1. v \in [mask : SUBSET Layer, then : Layer]
    BY LayerAssumption DEF EntryValue
  <2> QED
    BY <1>3, <2>1 DEF BeginCopy, TypeOK
<1>4. ASSUME NEW f \in {"mask", "then"}, CopyField(f)
      PROVE  TypeOK'
  <2>1. copy \in [left : SUBSET {"mask", "then"}, entry : Entry,
                  value : [mask : SUBSET Layer, then : Layer]]
    BY <1>4 DEF CopyField, TypeOK, NoCopy
  <2>2. entries' \in Entries
    BY <1>4, <2>1 DEF CopyField, TypeOK, Entries
  <2> QED
    BY <1>4, <2>1, <2>2 DEF CopyField, TypeOK
<1>5. CASE UNCHANGED vars
  BY <1>5 DEF vars, TypeOK
<1>6. ASSUME NEW i \in Entry, HandleReset(i)
      PROVE  TypeOK'
  BY <1>3, <1>6, LayerAssumption DEF HandleReset
<1>7. ASSUME NEW i \in Entry, NEW v \in EntryValue(i), HandleSet(i, v)
      PROVE  TypeOK'
  BY <1>3, <1>7 DEF HandleSet
<1> QED
  BY <1>1, <1>2, <1>4, <1>5, <1>6, <1>7 DEF Next

THEOREM LayersTypeCorrect == Spec => []TypeOK
  BY InitTypeOK, StepTypeOK, PTL DEF Spec

-----------------------------------------------------------------------------
(* ThenLayersFollow speaks of the entries; what the loop keeps is that the  *)
(* listener stops only at layers one more pass would not change.            *)

LoopInv == ~needed /\ seen # NotRead => Settle(seen, layers) = layers

LEMMA StepLoopInv == LoopInv /\ [Next]_vars => LoopInv'
<1> SUFFICES ASSUME LoopInv, [Next]_vars
             PROVE  LoopInv'
  OBVIOUS
<1>1. ASSUME NEW l \in KeyLayers, NEW on \in BOOLEAN, SetLayer(l, on)
      PROVE  LoopInv'
  BY <1>1 DEF SetLayer, LoopInv
<1>2. CASE Pass
  <2> SUFFICES ASSUME ~needed'
               PROVE  Settle(seen', layers') = layers'
    BY DEF LoopInv, Settle, Wanted, ThenLayers
  <2> QED
    BY <1>2 DEF Pass
<1>3. ASSUME UNCHANGED <<layers, needed, seen>>
      PROVE  LoopInv'
  BY <1>3 DEF LoopInv, Settle, Wanted, ThenLayers
<1> QED
  BY <1>1, <1>2, <1>3 DEF Next, HandleReset, HandleSet, BeginCopy, CopyField, vars

THEOREM ThenLayersAlwaysFollow == Spec => []ThenLayersFollow
<1>1. Init => LoopInv
  BY DEF Init, LoopInv
<1>2. LoopInv => ThenLayersFollow
  BY SettledFollows DEF LoopInv, ThenLayersFollow
<1> QED
  BY <1>1, <1>2, StepLoopInv, PTL DEF Spec

-----------------------------------------------------------------------------
(* With ranked entries the layers are the meaning Closure gives the entries: *)
(* the layers up to l satisfy its equation, and nothing else does, by        *)
(* induction on l.                                                           *)

\* Every nonempty set of numbers has a least one; induction below is for want of a
\* least counterexample.
LEMMA LeastNumber ==
  ASSUME NEW S \in SUBSET Nat, S # {}
  PROVE  \E m \in S : \A n \in S : m <= n
<1>1. \E m \in S : \A n \in S : ~ (<<n, m>> \in OpToRel(<, Nat))
  BY NatLessThanWellFounded, WFMin, Zenon
<1>2. PICK m \in S : \A n \in S : ~ (<<n, m>> \in OpToRel(<, Nat))
  BY <1>1
<1>3. ASSUME NEW n \in S
      PROVE  m <= n
  <2>1. ~ (<<n, m>> \in OpToRel(<, Nat))
    BY <1>2
  <2> QED
    BY <2>1 DEF OpToRel
<1> QED
  BY <1>3

\* One step of Closure: layer l, given the layers below it.
Enters(c, on, l, below) ==
    IF l \in ThenLayers(c) \ {Default}
    THEN \E i \in Entry : c[i].then = l /\ c[i].mask \subseteq below
    ELSE l \in on
Built(c, on, f) ==
    \A l \in Layer :
        LET below == IF l = 0 THEN {} ELSE f[l - 1]
        IN  f[l] = IF Enters(c, on, l, below) THEN below \cup {l} ELSE below

LEMMA ClosureUnfolds ==
  ASSUME NEW c, NEW on, NEW g,
         g = [l \in Layer |-> g[l]], Built(c, on, g)
  PROVE  \E f : f = [l \in Layer |-> f[l]] /\ Built(c, on, f) /\ Closure(c, on) = f[MaxLayer]
<1> DEFINE Up(f) == [l \in Layer |->
          LET below == IF l = 0 THEN {} ELSE f[l - 1]
          IN  IF IF l \in ThenLayers(c) \ {Default}
                   THEN \E i \in Entry : c[i].then = l /\ c[i].mask \subseteq below
                   ELSE l \in on
                THEN below \cup {l} ELSE below]
<1>1. g = Up(g)
  BY DEF Built, Enters
<1>2. Closure(c, on) = (CHOOSE f : f = Up(f))[MaxLayer]
  BY DEF Closure
<1> HIDE DEF Up
<1>3. PICK f : f = Up(f) /\ Closure(c, on) = f[MaxLayer]
  BY <1>1, <1>2
<1>4. f = [l \in Layer |-> f[l]] /\ Built(c, on, f)
  BY <1>3 DEF Up, Built, Enters
<1> QED
  BY <1>3, <1>4

LEMMA BuiltOnce ==
  ASSUME NEW c, NEW on, NEW f, NEW g, Built(c, on, f), Built(c, on, g)
  PROVE  f[MaxLayer] = g[MaxLayer]
<1> DEFINE Differ == {l \in Layer : f[l] # g[l]}
<1> SUFFICES ASSUME Differ # {}
             PROVE  FALSE
  BY LayerAssumption DEF Layer
<1>1. PICK l \in Differ : \A m \in Differ : l <= m
  <2>1. Differ \in SUBSET Nat
    BY DEF Layer
  <2> HIDE DEF Differ
  <2> QED
    BY <2>1, LeastNumber
<1>2. l # 0 => l - 1 \in Layer /\ f[l - 1] = g[l - 1]
  BY <1>1, LayerAssumption DEF Layer
<1> QED
  BY <1>1, <1>2 DEF Built

\* Up to layer l, the layers that a pass leaves alone are what the ranked entries make of
\* the others: the if-layers of an entry lie below its then-layer.
UpTo(on, l) == {x \in on : x <= l}

LEMMA SettledIsBuilt ==
  ASSUME NEW c \in Entries, NEW on \in SUBSET (Layer \ {Default}), Settle(c, on) = on, Ranked(c),
         NEW g, \A l \in Layer : g[l] = UpTo(on, l)
  PROVE  Built(c, on \ (ThenLayers(c) \ {Default}), g)
<1> DEFINE rest == on \ (ThenLayers(c) \ {Default})
<1> HIDE DEF rest
<1> SUFFICES ASSUME NEW l \in Layer, NEW below, below = IF l = 0 THEN {} ELSE g[l - 1]
             PROVE  g[l] = IF Enters(c, rest, l, below) THEN below \cup {l} ELSE below
  BY DEF Built, rest
<1>1. l \in Nat /\ on \in SUBSET Int
  BY LayerAssumption DEF Layer
<1>2. below \subseteq on /\ \A x \in on : x \in below <=> x < l
  <2>1. CASE l = 0
    <3>1. ASSUME NEW x \in on
          PROVE  ~ (x < 0)
      BY LayerAssumption DEF Layer
    <3> QED
      BY <2>1, <3>1
  <2>2. CASE l # 0
    <3>1. l - 1 \in Layer
      BY <2>2, LayerAssumption DEF Layer
    <3>2. below = UpTo(on, l - 1)
      BY <2>2, <3>1
    <3>3. ASSUME NEW x \in on
          PROVE  x \in UpTo(on, l - 1) <=> x < l
      <4>1. x \in Int
        BY <1>1
      <4> QED
        BY <1>1, <4>1 DEF UpTo
    <3> QED
      BY <3>2, <3>3 DEF UpTo
  <2> QED
    BY <2>1, <2>2
<1>3. l \in on <=> Enters(c, rest, l, below)
  <2>1. CASE l \in ThenLayers(c) \ {Default}
    <3>1. l \in on <=> \E i \in Entry : c[i].then = l /\ c[i].mask \subseteq on
      BY <2>1, SettledFollows
    <3>2. ASSUME NEW i \in Entry, c[i].then = l
          PROVE  c[i].mask \subseteq on <=> c[i].mask \subseteq below
      BY <1>2, <3>2 DEF Ranked
    <3> QED
      BY <2>1, <3>1, <3>2 DEF Enters
  <2>2. CASE l \notin ThenLayers(c) \ {Default}
    BY <2>2 DEF Enters, rest
  <2> QED
    BY <2>1, <2>2
<1>4. UpTo(on, l) = IF l \in on THEN below \cup {l} ELSE below
  <2> DEFINE next == IF l \in on THEN below \cup {l} ELSE below
  <2>1. UpTo(on, l) \subseteq on /\ next \subseteq on
    BY <1>2 DEF UpTo
  <2>2. ASSUME NEW x \in on
        PROVE  x \in UpTo(on, l) <=> x \in next
    <3>1. x \in Int /\ (x <= l <=> x < l \/ x = l)
      BY <1>1
    <3>2. x \in UpTo(on, l) <=> x <= l
      BY DEF UpTo
    <3> QED
      BY <1>2, <3>1, <3>2
  <2> HIDE DEF next
  <2>3. UpTo(on, l) = next
    BY <2>1, <2>2
  <2> QED
    BY <2>3 DEF next
<1> QED
  BY <1>3, <1>4

\* What ranked entries make of the layers does not depend on how they were switched: when
\* the listener is done, each layer is on exactly if the entries, taken in the order of
\* their then-layers, say so.
THEOREM RankedLayersHaveOneMeaning == Spec => []OrderIndependent
<1>1. ASSUME TypeOK, LoopInv
      PROVE  OrderIndependent
  <2> SUFFICES ASSUME ~needed, seen # NotRead, Ranked(seen)
               PROVE  layers = Closure(seen, layers \ (ThenLayers(seen) \ {Default}))
    BY DEF OrderIndependent
  <2> DEFINE rest == layers \ (ThenLayers(seen) \ {Default})
             g == [l \in Layer |-> UpTo(layers, l)]
  <2>1. g = [l \in Layer |-> g[l]] /\ \A l \in Layer : g[l] = UpTo(layers, l)
    OBVIOUS
  <2> HIDE DEF g
  <2>2. Built(seen, rest, g)
    <3>1. seen \in Entries /\ layers \in SUBSET (Layer \ {Default}) /\ Settle(seen, layers) = layers
      BY <1>1 DEF TypeOK, LoopInv
    <3> QED
      BY <2>1, <3>1, SettledIsBuilt
  <2> HIDE DEF rest
  <2>3. PICK f : Built(seen, rest, f) /\ Closure(seen, rest) = f[MaxLayer]
    BY <2>1, <2>2, ClosureUnfolds
  <2>4. f[MaxLayer] = g[MaxLayer]
    BY <2>2, <2>3, BuiltOnce
  <2>5. g[MaxLayer] = layers
    <3>1. MaxLayer \in Layer /\ \A x \in layers : x <= MaxLayer
      BY <1>1, LayerAssumption DEF TypeOK, Layer
    <3> QED
      BY <2>1, <3>1 DEF UpTo
  <2> QED
    BY <2>3, <2>4, <2>5 DEF rest
<1>2. Init => LoopInv
  BY DEF Init, LoopInv
<1> QED
  BY <1>1, <1>2, InitTypeOK, StepTypeOK, StepLoopInv, PTL DEF Spec

-----------------------------------------------------------------------------
(* The board: its views of the keys that lead into a layer. *)

\* A way in is a key of some layer, and a gesture.
LEMMA Activators ==
  ASSUME BoardAssumption, NEW target, NEW a \in KeyActivators(target)
  PROVE  a.pos \in Pos /\ a.how \in How /\ a.layer \in Index
<1>1. \/ a.how # "none" /\ \E l \in Index, p \in Pos : a = Key(l, p, HowFor(At(l, p).behavior))
      \/ \E l \in Index, p \in Pos : a = Key(l, p, "tap")
  BY DEF KeyActivators
<1>2. \A b : HowFor(b) \in How \cup {"none"}
  BY DEF HowFor, BoardAssumption, How
<1> QED
  BY <1>1, <1>2 DEF Key, How

\* Some layer is shown.
LEMMA ShownIsThere ==
  ASSUME BoardAssumption, keymap \in Keymaps
  PROVE  Shown \in Index
<1>1. PICK S : keymap \in Seq(S) /\ keymap # <<>>
  BY DEF BoardAssumption
<1> QED
  BY <1>1 DEF Shown, Index

\* The ways that a set of keys or of groups of them stands for.
WaysOf(acts) == {<<a.layer, a.pos, a.how>> : a \in acts}
WaysOfGroups(groups) == UNION {{<<l, g.pos, g.how>> : l \in g.on} : g \in groups}

\* Grouping loses no way, nor invents one: in the banner,
LEMMA GroupOf ==
  ASSUME NEW acts, NEW a \in acts
  PROVE  \E g \in GroupKeys(acts) : a.layer \in g.on /\ g.pos = a.pos /\ g.how = a.how
<1> DEFINE g == [pos |-> a.pos, how |-> a.how, on |-> {b.layer : b \in {x \in acts : x.pos = a.pos /\ x.how = a.how}}]
<1>1. g \in GroupKeys(acts) /\ a.layer \in g.on /\ g.pos = a.pos /\ g.how = a.how
  BY DEF GroupKeys
<1> HIDE DEF g
<1> QED
  BY <1>1

LEMMA GroupsKeepWays ==
  ASSUME NEW acts
  PROVE  WaysOfGroups(GroupKeys(acts)) = WaysOf(acts)
<1>1. ASSUME NEW a \in acts
      PROVE  <<a.layer, a.pos, a.how>> \in WaysOfGroups(GroupKeys(acts))
  <2>1. PICK g \in GroupKeys(acts) : a.layer \in g.on /\ g.pos = a.pos /\ g.how = a.how
    BY GroupOf
  <2> QED
    BY <2>1 DEF WaysOfGroups
<1>2. ASSUME NEW g \in GroupKeys(acts), NEW l \in g.on
      PROVE  <<l, g.pos, g.how>> \in WaysOf(acts)
  BY <1>2 DEF GroupKeys, WaysOf
<1> QED
  BY <1>1, <1>2 DEF WaysOf, WaysOfGroups

\* on the caps,
LEMMA CapsKeepWays ==
  ASSUME NEW acts, \A a \in acts : a.pos \in Pos /\ a.how \in How
  PROVE  LET caps == {x \in Pos \X How : x[2] \in DOMAIN HowGroups(ActsAt(acts, x[1]))}
         IN  UNION {{<<l, x[1], x[2]>> : l \in HowGroups(ActsAt(acts, x[1]))[x[2]]} : x \in caps} = WaysOf(acts)
<1> DEFINE caps == {x \in Pos \X How : x[2] \in DOMAIN HowGroups(ActsAt(acts, x[1]))}
           ways == UNION {{<<l, x[1], x[2]>> : l \in HowGroups(ActsAt(acts, x[1]))[x[2]]} : x \in caps}
<1>1. \A p, h : h \in DOMAIN HowGroups(ActsAt(acts, p)) <=> \E a \in acts : a.pos = p /\ a.how = h
  BY DEF HowGroups, ActsAt
<1>2. ASSUME NEW p, NEW h, h \in DOMAIN HowGroups(ActsAt(acts, p)), NEW l
      PROVE  l \in HowGroups(ActsAt(acts, p))[h] <=> \E a \in acts : a.pos = p /\ a.how = h /\ a.layer = l
  BY <1>2 DEF HowGroups, ActsAt
<1>3. ASSUME NEW a \in acts
      PROVE  <<a.layer, a.pos, a.how>> \in ways
  <2> DEFINE x == <<a.pos, a.how>>
  <2>1. x \in caps /\ a.layer \in HowGroups(ActsAt(acts, x[1]))[x[2]]
    BY <1>1, <1>2
  <2>2. x[1] = a.pos /\ x[2] = a.how
    OBVIOUS
  <2> HIDE DEF x, caps
  <2> QED
    BY <2>1, <2>2
<1>4. ASSUME NEW x \in caps, NEW l \in HowGroups(ActsAt(acts, x[1]))[x[2]]
      PROVE  <<l, x[1], x[2]>> \in WaysOf(acts)
  BY <1>2, <1>4 DEF WaysOf
<1> HIDE DEF caps
<1>5. ways = WaysOf(acts)
  BY <1>3, <1>4 DEF WaysOf
<1> QED
  BY <1>5 DEF caps

\* and in the rows of a layer.
LEMMA RowsKeepWays ==
  ASSUME NEW target \in Index
  PROVE  WaysOfGroups({r \in LayerKeyRows : r.target = target}) = WaysOf(KeyActivators(target))
<1> DEFINE rows == {r \in LayerKeyRows : r.target = target}
           groups == GroupKeys(KeyActivators(target))
<1>1. ASSUME NEW r \in rows
      PROVE  \E g \in groups : g.pos = r.pos /\ g.how = r.how /\ g.on = r.on
  <2>1. PICK t \in Index : \E g \in GroupKeys(KeyActivators(t)) : r = Row(g, t)
    BY <1>1 DEF LayerKeyRows
  <2>2. PICK g \in GroupKeys(KeyActivators(t)) : r = Row(g, t)
    BY <2>1
  <2>3. t = target
    BY <1>1, <2>2 DEF Row
  <2> QED
    BY <2>2, <2>3 DEF Row
<1>2. ASSUME NEW g \in groups
      PROVE  \E r \in rows : g.pos = r.pos /\ g.how = r.how /\ g.on = r.on
  <2>1. Row(g, target) \in LayerKeyRows
    BY DEF LayerKeyRows
  <2>2. Row(g, target).target = target
    BY DEF Row
  <2>3. Row(g, target) \in rows
    BY <2>1, <2>2
  <2> QED
    BY <2>3 DEF Row
<1> HIDE DEF rows, groups
<1>3. WaysOfGroups(rows) = WaysOfGroups(groups)
  BY <1>1, <1>2 DEF WaysOfGroups
<1> QED
  BY <1>3, GroupsKeepWays DEF groups, rows

LEMMA AllViewsAgree ==
  ASSUME BoardAssumption, keymap \in Keymaps
  PROVE  ViewsAgree
<1> DEFINE acts == KeyActivators(Shown)
           ways == {<<a.layer, a.pos, a.how>> : a \in acts}
           caps == {x \in Pos \X How : x[2] \in DOMAIN CapShows(x[1])}
           Flat(groups) == UNION {{<<l, g.pos, g.how>> : l \in g.on} : g \in groups}
<1>1. UNION {{<<l, x[1], x[2]>> : l \in CapShows(x[1])[x[2]]} : x \in caps} = ways
  <2>1. \A a \in acts : a.pos \in Pos /\ a.how \in How
    BY Activators
  <2> QED
    BY <2>1, CapsKeepWays DEF CapShows, WaysOf
<1>2. Flat(Banner) = ways
  BY GroupsKeepWays DEF Banner, WaysOf, WaysOfGroups
<1>3. Flat({r \in LayerKeyRows : r.target = Shown}) = ways
  BY RowsKeepWays, ShownIsThere DEF WaysOf, WaysOfGroups
<1>4. "key" \in MarksFor(Shown) <=> Banner # {}
  <2>1. Banner = {} <=> acts = {}
    <3>1. Banner = GroupKeys(acts)
      BY DEF Banner
    <3> HIDE DEF acts
    <3>2. ASSUME NEW a \in acts
          PROVE  GroupKeys(acts) # {}
      BY <3>2, GroupOf
    <3>3. ASSUME NEW g \in GroupKeys(acts)
          PROVE  acts # {}
      BY DEF GroupKeys
    <3> QED
      BY <3>1, <3>2, <3>3
  <2>2. "key" \notin Rest(Shown)
    BY DEF Rest
  <2>3. acts = {} => "key" \notin MarksFor(Shown)
    BY <2>2 DEF MarksFor
  <2>4. acts # {} => "key" \in MarksFor(Shown)
    BY DEF MarksFor
  <2> QED
    BY <2>1, <2>3, <2>4
<1> HIDE DEF Flat, ways, caps
<1> QED
  BY <1>1, <1>2, <1>3, <1>4 DEF ViewsAgree, Flat, ways, caps

\* The least layer of a set of them is in it.
LEMMA MinIsIn ==
  ASSUME NEW S \in SUBSET Nat, S # {}
  PROVE  Min(S) \in S
<1>1. PICK m \in S : \A n \in S : m <= n
  BY LeastNumber
<1> QED
  BY <1>1 DEF Min

\* A group leads to its target from every layer it works on.
LEMMA GroupsLead ==
  ASSUME BoardAssumption, keymap \in Keymaps, NEW target, NEW g \in GroupKeys(KeyActivators(target)),
         NEW l \in g.on \cup {Min(g.on)}
  PROVE  LeadsTo(l, g.pos, g.how, target)
<1>1. /\ \E a \in KeyActivators(target) : a.layer \in g.on
      /\ \A m \in g.on : \E a \in KeyActivators(target) : a.layer = m /\ a.pos = g.pos /\ a.how = g.how
  BY DEF GroupKeys
<1>2. Index \subseteq Nat
  <2>1. PICK S : keymap \in Seq(S)
    BY DEF BoardAssumption
  <2> QED
    BY <2>1 DEF Index
<1>3. g.on \in SUBSET Nat /\ g.on # {}
  BY <1>1, <1>2, Activators
<1>4. l \in g.on
  BY <1>3, MinIsIn
<1> QED
  BY <1>1, <1>4 DEF LeadsTo

\* Go opens a key of the group.
LEMMA GoesWhereItSays ==
  ASSUME BoardAssumption, keymap \in Keymaps
  PROVE  /\ \A k \in Banner : GoFromBanner(k) => LeadsTo(layerIdx', selection'.at, k.how, Shown)
         /\ \A r \in LayerKeyRows : GoFromList(r) => LeadsTo(layerIdx', selection'.at, r.how, r.target)
<1>1. ASSUME NEW k \in Banner, GoFromBanner(k)
      PROVE  LeadsTo(layerIdx', selection'.at, k.how, Shown)
  <2>1. layerIdx' = Min(k.on) /\ selection'.at = k.pos
    BY <1>1 DEF GoFromBanner, Go, Select, KeyAt
  <2> QED
    BY <2>1, GroupsLead DEF Banner
<1>2. ASSUME NEW r \in LayerKeyRows, GoFromList(r)
      PROVE  LeadsTo(layerIdx', selection'.at, r.how, r.target)
  <2>1. PICK t \in Index : \E g \in GroupKeys(KeyActivators(t)) : r = Row(g, t)
    BY DEF LayerKeyRows
  <2>2. PICK g \in GroupKeys(KeyActivators(t)) : r = Row(g, t)
    BY <2>1
  <2>3. g.pos = r.pos /\ g.how = r.how /\ g.on = r.on /\ r.target = t
    BY <2>2 DEF Row
  <2>4. layerIdx' \in r.on \cup {Min(r.on)} /\ selection'.at = r.pos
    BY <1>2 DEF GoFromList, Go, Select, KeyAt
  <2> QED
    BY <2>3, <2>4, GroupsLead
<1> QED
  BY <1>1, <1>2

\* The page shows a keymap.
LEMMA KeymapStays == keymap \in Keymaps /\ [BoardNext]_boardVars => (keymap \in Keymaps)'
  BY DEF BoardNext, boardVars, SelectLayer, SelectKey, SelectCombo, PointAtCombo, GoFromBanner, GoFromList, Go,
         PointAtRow, ChangeTab, OpenEncoder, LeaveCombo, LeaveRow, Close, ToggleCombos, ToggleEntry,
         TogglePractice, Reload, looks, hovers

\* The marks on the caps, the banner, the list of layer keys and the layer card say the
\* same of the layer that is shown, for any keymap, features, layers and positions.
THEOREM BoardViewsAgree == BoardSpec => []ViewsAgree
<1>1. BoardInit => keymap \in Keymaps
  BY DEF BoardInit
<1>2. keymap \in Keymaps => ViewsAgree
  BY BoardAssumption, AllViewsAgree
<1> QED
  BY <1>1, <1>2, KeymapStays, PTL DEF BoardSpec

\* What an entry of the banner or of the list opens is a key that, on the layer then shown,
\* leads to the layer the entry names, by the gesture it names.
THEOREM GoShowsTheRightKey == BoardSpec => GoShowsTheKey
<1>1. BoardInit => keymap \in Keymaps
  BY DEF BoardInit
<1> DEFINE Right == /\ \A k \in Banner : GoFromBanner(k) => LeadsTo(layerIdx', selection'.at, k.how, Shown)
                    /\ \A r \in LayerKeyRows : GoFromList(r) => LeadsTo(layerIdx', selection'.at, r.how, r.target)
<1>2. keymap \in Keymaps => [Right]_boardVars
  BY BoardAssumption, GoesWhereItSays
<1> QED
  BY <1>1, <1>2, KeymapStays, PTL DEF BoardSpec, GoShowsTheKey
===============================================================================
