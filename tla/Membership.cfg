SPECIFICATION MCSpec
CONSTANTS
    u1 = u1
    u2 = u2
    u3 = u3
    o1 = o1
    o2 = o2
    NoRequest = NoRequest
    NoCall = NoCall
    Users <- MCUsers
    Organizations <- MCOrganizations
    Workers = {w1, w2}
    Assignable = {"viewer", "admin"}
    MaxKeys = 1
    MaxUsers <- MCMaxUsers
    MaxTasks = 2
    MaxAIRequests = 2
    MaxBatch = 2
    Rate <- MCRate
    Duration <- MCDuration
    MaxClock = 2
    Operations <- MCOperations
    Isolated = TRUE
SYMMETRY Symmetry
INVARIANTS  LimitsHold 
  
