SPECIFICATION Spec
CONSTANTS
    Users = {m1, m2}
    Reports = {r1}
    Results = {}
    Turn = {t1, t2}
    NoTurn = NoTurn
    Wake = {w1}
    NoWake = NoWake
    WakeOn = TRUE
    MaxRounds = 1
    Parking = TRUE
    Leaves = FALSE
    Resets = TRUE
    TwoWindows = TRUE
CHECK_DEADLOCK FALSE
INVARIANTS LateBehindWake SlotHeldByTurn
PROPERTIES OwnerFrees NeverAgain
SYMMETRY Identities
