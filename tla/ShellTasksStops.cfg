SPECIFICATION Spec
CONSTANTS
    Cmd = {c1, c2}
    NoCmd = NoCmd
    Mine = {c1, c2}
    MaxCrashes = 0
CHECK_DEADLOCK FALSE
INVARIANTS TypeOK OneHolder ClaimedStaysInline StopReaches NoStaleMarks StoppedWakesNobody
PROPERTIES RunsUntilGroupGone
SYMMETRY Commands
