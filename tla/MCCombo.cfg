SPECIFICATION Spec
CONSTANTS
    kA = kA  kB = kB  kC = kC  kD = kD
    Combos = 3
    DtParams <- Dt
    Builds <- BothBuilds
    MaxTime = 2
INVARIANTS KeysConserved NoOvertaking CombosHoldTheirKeys BehaviorFollowsKeys
PROPERTIES EventsEnd
