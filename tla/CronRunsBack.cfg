SPECIFICATION Spec
CONSTANTS
    Job = {a}
    MaxInstants = 1
    MaxRuns = 1
    MaxCrashes = 0
    MaxChanges = 0
    NoJob = NoJob
CHECK_DEADLOCK FALSE
PROPERTIES StaysDeleted
