\* The sync, fair, and two requests; calls fail, answers are lost, processes die.
SPECIFICATION FairSpec
CONSTANTS
    Cron = cron
    Requests = {r1, r2}
    NoOne = NoOne
    Gpus = {g1, g2}
    MaxAttempts = 2
    MaxCalls = 2
    MaxMeter = 2
    MaxCredit = 2
    MaxFaults = 2
INVARIANTS
    AccessPaid
    Ledger
    PaidIsBacked
    BillingInv
PROPERTIES
    BooksWhatItTakes
    Regained
    GpuSettles
