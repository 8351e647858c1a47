SPECIFICATION Spec
CONSTANTS
    AtJobs = {a}
    Recurring = {e}
    Barren = {}
    CommandJobs = {e}
    NoJob = NoJob
    MaxFaults = 0
    MaxCli = 0
PROPERTIES RecurringRuns
