SPECIFICATION Spec
CONSTANTS
    kA = kA  kB = kB  kM = kM
    Position = {kA, kB, kM}
    ModHolds = {kA}
    ModKeys = {kM}
    MaxEvents = 3
    Builds <- BothBuilds
INVARIANTS NothingStuck UndecidedIsTimed CapturedIntact PressesInOrder BindingsFollowDecisions OutcomeByTime
PROPERTIES EventsEnd
CHECK_DEADLOCK FALSE
