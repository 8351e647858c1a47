SPECIFICATION SafeSpec
CONSTANTS
    Sums = {s1, s2}
    Keep = 2
    Threshold = 3
    BigBatch = 9
    Oversized = {}
    MaxTurns = 4
    MaxRounds = 1
    MaxCalls = 2
    MaxCrashes = 1
INVARIANTS RequestPaired
CHECK_DEADLOCK FALSE
