SPECIFICATION AllSpec
CONSTANTS
    Entries = 3
    Registered = {0, 1}
    Field = {"tapping_term_ms", "flavor"}
    Datum = {0, 1}
    DtDefault <- MCDefault
    Absent = Absent
    DeleteMayFail = FALSE
    ReqIndex = {0, 1, 2, 3, 257}
    ReqSlot = {0, 1, 2, 257}
    ZeroInfo <- MCZero
INVARIANTS
    LiveMatchesFlash
    GetAnswersDurable
PROPERTIES
    TornReadIsBounded
    KeepsPromise
    EditKeepsOtherFields
