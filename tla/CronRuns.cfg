SPECIFICATION Spec
CONSTANTS
    Job = {a}
    MaxInstants = 2
    MaxRuns = 2
    MaxCrashes = 2
    MaxChanges = 2
    NoJob = NoJob
CHECK_DEADLOCK FALSE
INVARIANTS TypeOK OncePerInstant LeaseTruthful TriggersFollow
