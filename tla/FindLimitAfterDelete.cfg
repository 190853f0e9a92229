SPECIFICATION Spec
CONSTANTS
    Requests = {r1, r2}
    Workers = {w1}
    Names = {n1, n2}
    MaxRows = 2
    MaxFaults = 0
    MaxAttempts = 1
    MayStop = FALSE
    Ops = {"create", "delete"}
    RunningCpu = 1
    RunningGpu = 1
    TotalCpu = 2
    TotalGpu = 1
    MaxRunning <- MCMaxRunning
    MaxTotal <- MCMaxTotal
    NoRow = NoRow
    NoObj = NoObj
    NoOne = NoOne
    NoCall = NoCall
    NoJob = NoJob
SYMMETRY Symmetry
INVARIANT RunningLimit

CHECK_DEADLOCK FALSE
