SPECIFICATION FairSpec
CONSTANTS
    Events = {1, 2}
    Endpoints = {p1, p2}
    Workers = {w1, w2}
    Admins = {a1}
    NoEvent = NoEvent
    BatchSize = 1
    MaxAttempts = 2
    Overrun = FALSE
    MaxCrashes = 1
    MaxReplays = 1
INVARIANTS ClaimsAreExclusive SettledIsSent
PROPERTIES  ContractKept
