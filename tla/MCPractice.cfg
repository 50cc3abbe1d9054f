SPECIFICATION PracticeSpec
CONSTANTS
    None = None
    Pos = {"k", "m"}
    LayerKey <- Holds
    Knob = {"up"}
    Order <- Ids
    Source = {1, 2}
    MaxEvents = 4
INVARIANTS  SilentWhenIdle
