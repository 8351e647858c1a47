SPECIFICATION SafeSpec
CONSTANTS
    Arrivals = {m1, m2, c1}
    Commands = {c1}
    NoMsg = NoMsg
    Sides = {}
    Tasks = {k1, k2}
    NoTask = NoTask
    Cap = 1
    MaxTools = 2
    MaxSideTurns = 1
INVARIANTS Answered
CHECK_DEADLOCK FALSE
