SPECIFICATION SafeSpec
CONSTANTS
    AtJobs = {a}
    Recurring = {e}
    Barren = {}
    CommandJobs = {a}
    NoJob = NoJob
    MaxFaults = 1
    MaxCli = 1
INVARIANTS TypeOK AtMostOnce NeverStranded DiskCurrent
PROPERTIES RemovedStaysOut
