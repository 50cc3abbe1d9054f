SPECIFICATION Spec
CHECK_DEADLOCK TRUE
CONSTANTS
    MaxLayer = 4
    KeyLayers = {1, 2, 3}
    Entry = {0, 1}
    MaskChoice <- LoopMasks
    ThenChoice <- LoopThens
    DtEntry <- LoopDt
PROPERTY
    UpdatesEnd
