SPECIFICATION Spec
CONSTANTS
    Users = {m1, m2}
    Reports = {r1}
    Results = {c1}
    Turn = {t1, t2}
    NoTurn = NoTurn
    Wake = {w1, w2}
    NoWake = NoWake
    WakeOn = TRUE
    MaxRounds = 2
    Parking = FALSE
    Leaves = TRUE
    Resets = FALSE
    TwoWindows = FALSE
CHECK_DEADLOCK FALSE
INVARIANTS TypeOK OnePlace SoleTurn WakeAlone ClosedByEnding
PROPERTIES OwnerDrains DeliversOnce
SYMMETRY Identities
