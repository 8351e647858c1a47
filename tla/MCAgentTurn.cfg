SPECIFICATION Spec
CONSTANTS
    Keys = {a, b}
    MaxIter = 3
    Past = 2
    MaxCalls = 3
INVARIANTS TypeOK AtMostTwice RoundsWhole ToolsOfferedAgain
PROPERTIES NewestKept TerminatesUnlessStuck
CHECK_DEADLOCK FALSE
