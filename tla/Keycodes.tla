------------------------------- MODULE Keycodes -------------------------------
(***************************************************************************)
(* Keycodes with modifiers, and what the keycode picker makes of them       *)
(* (cli/ui/src/params.ts, macroFormat.ts, components/KeycodePicker.tsx).    *)
(* A keycode is a number: the key in its low bits, above them one bit for   *)
(* each of the eight modifiers, RG in the highest.  JavaScript's bitwise    *)
(* operators answer signed numbers of that width.                           *)
(***************************************************************************)
EXTENDS Integers, FiniteSets

CONSTANTS
    KeyCount,   \* the keys that fit below the modifiers; 2 ^ 24 in the code
    KeyName,    \* the names of keys, those of shifted symbols too
    Keycode,    \* state.keycodes: the number of each name
    Toggled     \* the modifiers the user toggles (bound)

ModBit == [LC |-> KeyCount, LS |-> 2 * KeyCount, LA |-> 4 * KeyCount, LG |-> 8 * KeyCount,
           RC |-> 16 * KeyCount, RS |-> 32 * KeyCount, RA |-> 64 * KeyCount, RG |-> 128 * KeyCount]
Mod == DOMAIN ModBit
Words == 256 * KeyCount

ASSUME KeycodesAssumption ==
    /\ KeyCount \in Nat \ {0}
    /\ Keycode \in [KeyName -> 0 .. Words - 1]
    /\ Toggled \subseteq Mod

Signed(n) == IF (n % Words) >= (Words \div 2) THEN (n % Words) - Words ELSE n % Words

Base(v) == v % KeyCount
SplitMods(v) == [base |-> Base(v), mods |-> {m \in Mod : (v \div ModBit[m]) % 2 = 1}]
JoinMods(base, mods) ==
    LET bit(m) == IF m \in mods THEN ModBit[m] ELSE 0
    IN  Signed(Base(base) + bit("LC") + bit("LS") + bit("LA") + bit("LG")
                          + bit("RC") + bit("RS") + bit("RA") + bit("RG"))

\* A number with a name of its own is that key or symbol: its modifiers are its own,
\* and no toggle is lit.
Named(v) == \E n \in KeyName : Keycode[n] = v
Lit(v) == IF Named(v) THEN {} ELSE SplitMods(v).mods

\* A toggle: a symbol keeps its own modifiers underneath.
Toggle(v, m) ==
    LET own == SplitMods(v)
        next == IF m \in Lit(v) THEN Lit(v) \ {m} ELSE Lit(v) \cup {m}
    IN  JoinMods(own.base, next \cup IF Named(v) THEN own.mods ELSE {})

\* A name is picked, from the search list or the drawn keyboard: the toggles stay on.
PickName(v, n) ==
    LET own == SplitMods(Keycode[n]) IN JoinMods(own.base, own.mods \cup Lit(v))

\* What one click in the picker can make of v.
Clicks(v) == {Toggle(v, m) : m \in Toggled} \cup {PickName(v, n) : n \in KeyName}
===============================================================================
