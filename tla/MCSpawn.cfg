SPECIFICATION Spec
CONSTANTS
    Arrivals = {m1, m2, c1}
    Commands = {c1}
    NoMsg = NoMsg
    Sides = {"cron"}
    Tasks = {k1, k2}
    NoTask = NoTask
    Cap = 1
    MaxTools = 2
    MaxSideTurns = 1
PROPERTIES SpawnReturns
CHECK_DEADLOCK FALSE
