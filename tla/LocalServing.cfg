SPECIFICATION Spec
CONSTANTS
    llama = llama
    mlx = mlx
    small = small
    large = large
    Key = {llama, mlx}
    MlxKeys = {mlx}
    Ctx = {small, large}
    DefaultCtx = small
    NoSize = NoSize
    Job <- Asked
    NoJob = NoJob
    Call = {a, b}
    NoCall = NoCall
    Stopper = {s}
    NoKey = NoKey
    NoServer = NoServer
CHECK_DEADLOCK FALSE
INVARIANTS TypeOK OneResident BusyIsMarks StopAlone
PROPERTIES OnlyUnsizedCuts LoadedIsReady
SYMMETRY Identities
