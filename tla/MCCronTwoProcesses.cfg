SPECIFICATION SafeSpec
CONSTANTS
    AtJobs = {}
    Recurring = {e}
    Barren = {}
    CommandJobs = {}
    NoJob = NoJob
    MaxFaults = 0
    MaxCli = 1
PROPERTIES NoLostUpdate
