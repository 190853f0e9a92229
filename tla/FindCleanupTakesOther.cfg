SPECIFICATION Spec
CONSTANTS
    Requests = {r1}
    Workers = {w1, w2}
    Names = {n1}
    MaxRows = 3
    MaxFaults = 0
    MaxAttempts = 1
    MayStop = FALSE
    Ops = {"create", "delete"}
    RunningCpu = 1
    RunningGpu = 1
    TotalCpu = 1
    TotalGpu = 1
    MaxRunning <- MCMaxRunning
    MaxTotal <- MCMaxTotal
    NoRow = NoRow
    NoObj = NoObj
    NoOne = NoOne
    NoCall = NoCall
    NoJob = NoJob
SYMMETRY Symmetry
INVARIANT AppliedBacked

CHECK_DEADLOCK FALSE
