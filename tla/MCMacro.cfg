SPECIFICATION Spec
CONSTANTS
    Slots = 2
    MaxSteps = 3
    QueueSize = 4
    ReqSlot = {0, 1, 2, 257}
    Macros <- MCMacros
    Absent = Absent
    DeleteMayFail = FALSE
    MaxPlays = 2
INVARIANTS CacheMatchesFlash PlaysWholeMacros KeysComeUp
PROPERTIES PressesAreServed
