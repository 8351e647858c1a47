SPECIFICATION Spec
CONSTANTS
    Arrivals = {m1, c1}
    Commands = {c1}
    NoMsg = NoMsg
    Sides = {"cron"}
    Tasks = {k1}
    NoTask = NoTask
    Cap = 1
    MaxTools = 2
    MaxSideTurns = 1
INVARIANTS TypeOK LoneTurnAnswered ResultToldOnce
PROPERTIES HandledUnlessStuck
CHECK_DEADLOCK FALSE
