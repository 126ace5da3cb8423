SPECIFICATION Spec
CONSTANTS
    Cmd = {c1}
    NoCmd = NoCmd
    Mine = {c1}
    MaxCrashes = 2
CHECK_DEADLOCK FALSE
INVARIANTS RowHasWatcher OneEnding
PROPERTIES OneVerdict RowCloses ToolReturns
