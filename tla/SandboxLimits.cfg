SPECIFICATION Spec
CONSTANTS
    Requests = {r1, r2}
    Workers = {w1, w2}
    Names = {n1, n2, n3}
    MaxRows = 3
    MaxFaults = 1
    MaxAttempts = 1
    MayStop = FALSE
    Ops = {"create", "start", "stop"}
    RunningCpu = 1
    RunningGpu = 1
    TotalCpu = 2
    TotalGpu = 1
    MaxRunning <- MCMaxRunning
    MaxTotal <- MCMaxTotal
    NoRow = NoRow
    NoObj = NoObj
    NoOne = NoOne
    NoCall = NoCall
    NoJob = NoJob
SYMMETRY Symmetry
INVARIANTS RunningLimit TotalLimit

