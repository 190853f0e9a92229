SPECIFICATION FairSpec
CONSTANTS
    Requests = {r1, r2}
    Workers = {w1, w2}
    Names = {n1}
    MaxRows = 2
    MaxFaults = 0
    MaxAttempts = 1
    MayStop = TRUE
    Ops = {"create", "start", "stop", "delete"}
    RunningCpu = 1
    RunningGpu = 1
    TotalCpu = 1
    TotalGpu = 1
    MaxRunning <- MCMaxRunning
    MaxTotal <- MCMaxTotal
    NoRow = NoRow
    NoObj = NoObj
    NoOne = NoOne
    NoCall = NoCall
    NoJob = NoJob
INVARIANT GracefulStop
PROPERTIES RowsSettle RequestsEnd WorkerStops
