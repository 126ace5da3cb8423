SPECIFICATION Spec
CONSTANTS
    Agent = {a, b}
    Team = {t}
    MaxRuns = 2
    MaxBoots = 1
    MaxSent = 1
    Slots = 1
    NoAgent = NoAgent
    NoTeam = NoTeam
CHECK_DEADLOCK FALSE
INVARIANTS TypeOK RowHasRun MailHasReader VerdictKept
SYMMETRY Identities
