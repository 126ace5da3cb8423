SPECIFICATION Spec
CONSTANTS
    Users = {m1}
    Reports = {r1, r2}
    Results = {}
    Turn = {t1, t2}
    NoTurn = NoTurn
    Wake = {w1, w2}
    NoWake = NoWake
    WakeOn = TRUE
    MaxRounds = 1
    Parking = FALSE
    Leaves = FALSE
    Resets = FALSE
    TwoWindows = FALSE
CHECK_DEADLOCK FALSE
INVARIANTS InboxHasReader
PROPERTIES Settles SlotFreed
