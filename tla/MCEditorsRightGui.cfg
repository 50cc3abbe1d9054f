SPECIFICATION Spec
CONSTANTS
    A = A  PLUS = PLUS  p1 = p1  p2 = p2  e1 = e1  e2 = e2
    Forms = {"key"}
    Place = {p1, p2}
    Entry = {e1, e2}
    Plain <- Fields2
    Value = {0, 1}
    MaxSteps = 2
    MaxTouched = 2
    FirstBinding <- Given
    Transparent = {"trans"}
    Behavior = {"lt", "trans"}
    Meta <- Metas
    Layers = {0, 1}
    Typed = {}
    KeyA = 4
    KeyCount = 8
    KeyName = {A, PLUS}
    Keycode <- Codes
    Toggled = {"LS", "RG"}
    None = None
    Lanes = 2
    InOrder = TRUE
    MaxEvents = 2
INVARIANTS KeycodesFitTheDevice
SYMMETRY Same
CHECK_DEADLOCK FALSE
