SPECIFICATION Spec
CHECK_DEADLOCK TRUE
CONSTANTS
    MaxLayer = 4
    KeyLayers = {1, 2, 3}
    Entry = {0, 1}
    MaskChoice <- RankedMasks
    ThenChoice <- RankedThens
    DtEntry <- RankedDt
INVARIANTS
    
    ThenLayersFollow
    OrderIndependent
PROPERTIES
    UpdatesEnd
