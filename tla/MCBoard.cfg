SPECIFICATION BoardSpec
CONSTANTS
    Behavior = {"mo", "lt", "to", "mt", "os"}
    Meta <- Metas
    Layers = {0, 1}
    Typed = {}
    KeyA = 1
    KeyCount = 8
    KeyName = {}
    Keycode <- NoCodes
    Toggled = {}
    None = None
    Pos = {0, 1}
    HowOf <- Hows
    TargetOf <- Targets
    Keymaps <- Maps
    Noted <- NamesWithNotes
    FeatureDocs <- Docs
    Sensor = {0}
INVARIANTS ViewsAgree
PROPERTIES GoShowsTheKey
CHECK_DEADLOCK FALSE
