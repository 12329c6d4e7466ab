SPECIFICATION WindowsSpec
CONSTANTS
    WindowIds = {"a", "b"}
    Presses = {"p"}
    MaxPresses = 3
    MaxFocuses = 0
INVARIANT FloatingStaysFloating
CHECK_DEADLOCK FALSE
