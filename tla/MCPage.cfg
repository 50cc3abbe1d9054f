SPECIFICATION CardSpec
CONSTANTS
    base = base  nav = nav  sym = sym  work = work  play = play
    LayerId = {base, nav, sym}
    FirstLayers <- Two
    Part = {"combos", "macros"}
    GroupName = {work, play}
    Stem <- Stems
    FirstGroups <- OneGroup
    None = None
    Lanes = 2
    InOrder = TRUE
    MaxEvents = 2
INVARIANTS QuietPageIsFresh FeaturesWhole SureOpsHit SavesAreAccepted
PROPERTIES ControlsComeBack
CHECK_DEADLOCK FALSE
