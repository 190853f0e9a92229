SPECIFICATION Spec
CONSTANTS
    Requests = {r1}
    Workers = {w1}
    Names = {n1, n2}
    MaxRows = 3
    MaxFaults = 2
    MaxAttempts = 2
    MayStop = FALSE
    Ops = {"create", "start", "stop", "delete"}
    RunningCpu = 1
    RunningGpu = 1
    TotalCpu = 2
    TotalGpu = 1
    MaxRunning <- MCMaxRunning
    MaxTotal <- MCMaxTotal
    NoRow = NoRow
    NoObj = NoObj
    NoOne = NoOne
    NoCall = NoCall
    NoJob = NoJob
SYMMETRY Symmetry
INVARIANT AppliedBacked
PROPERTIES KeepsLifecycle LostByFaultOnly
