\* Three names on pages of two, one permit; the goroutines are fair.
SPECIFICATION FairSpec
CONSTANTS
    Names = {n1, n2, n3}
    Limit = 2
    Permits = 1
    MaxAttempts = 2
    MaxChanges = 2
    MaxFaults = 1
INVARIANTS
    TypeOK
    CallsBounded
    ShownWasTrue
    NoneSkipped
PROPERTIES
    RequestEnds
    TasksEnd
