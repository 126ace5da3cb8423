SPECIFICATION Spec
CONSTANTS
    Agent = {a}
    Team = {}
    MaxRuns = 3
    MaxBoots = 0
    MaxSent = 2
    Slots = 2
    NoAgent = NoAgent
    NoTeam = NoTeam
CHECK_DEADLOCK FALSE
INVARIANTS OneRunWorks
