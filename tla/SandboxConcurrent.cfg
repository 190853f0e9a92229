SPECIFICATION Spec
CONSTANTS
    Requests = {r1, r2}
    Workers = {w1, w2}
    Names = {n1}
    MaxRows = 3
    MaxFaults = 2
    MaxAttempts = 2
    MayStop = TRUE
    Ops = {"create", "start", "stop", "delete"}
    RunningCpu = 1
    RunningGpu = 1
    TotalCpu = 1
    TotalGpu = 1
    MaxRunning <- MCMaxRunning
    MaxTotal <- MCMaxTotal
    NoRow = NoRow
    NoObj = NoObj
    NoOne = NoOne
    NoCall = NoCall
    NoJob = NoJob
SYMMETRY Symmetry
INVARIANTS TypeOK LockDiscipline SingleClaim
PROPERTY EventOrder
