SPECIFICATION KeysSpec
CONSTANTS
    WindowIds = {"a", "b", "c"}
    Presses = {"p", "q"}
    MaxPresses = 2
    MaxFocuses = 1
    Tabs = {"t1", "t2"}
    Splits = {"s1", "s2"}
    Panes = {"p1", "p2", "p3"}
    NoWidget = "-"
INVARIANTS AltTabReturns TypingReachesItsPane
CHECK_DEADLOCK FALSE
