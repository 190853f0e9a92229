\* Two users and one request; the schedule is fair.
SPECIFICATION FairSpec
CONSTANTS
    Users = {u1, u2}
    Requests = {r1}
    Job = Job
    MaxAttempts = 2
    MaxAdmin = 1
    MaxFaults = 2
INVARIANTS
    TypeOK
    CreatedMeansBoth
    RacesHarmless
    BilledOnce
    BilledHasRow
PROPERTIES
    Converges
