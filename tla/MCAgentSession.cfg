SPECIFICATION Spec
CONSTANTS
    Sums = {s1, s2}
    Keep = 2
    Threshold = 3
    BigBatch = 4
    Oversized = {2}
    MaxTurns = 3
    MaxRounds = 1
    MaxCalls = 1
    MaxCrashes = 1
INVARIANTS TypeOK NoHoles OneSummarizer PairedUntilCrash
PROPERTIES MarkRemoved TruncationCovered
CHECK_DEADLOCK FALSE
