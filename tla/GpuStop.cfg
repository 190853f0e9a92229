\* Two names, two attempts; the schedule is fair.
SPECIFICATION FairSpec
CONSTANTS
    Names = {n1, n2}
    Absent = Absent
    MaxAttempts = 2
    MaxCreates = 2
    MaxFaults = 1
INVARIANTS
    TypeOK
    AnswerTrue
PROPERTIES
    CpuSpared
    StopEnds
    OwingUserStops
