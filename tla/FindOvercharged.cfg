\* A partial deduction whose request is refused.
SPECIFICATION Spec
CONSTANTS
    Cron = cron
    Requests = {r1}
    NoOne = NoOne
    Gpus = {g1}
    MaxAttempts = 1
    MaxCalls = 1
    MaxMeter = 3
    MaxCredit = 4
    MaxFaults = 0
INVARIANT NeverOvercharged
