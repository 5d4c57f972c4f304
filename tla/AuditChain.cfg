SPECIFICATION Spec
CONSTANTS
    w1 = w1
    w2 = w2
    u1 = u1
    Workers <- MCWorkers
    Users <- MCUsers
    Keys = {k1}
    NoKey = NoKey
    NoUser = NoUser
    Idle = Idle
    Free = Free
    MaxEntries = 3
    MaxPoints = 2
    Disturbances = {"edit", "rewrite", "lose", "forget", "rotate"}
SYMMETRY Symmetry
INVARIANTS
    SealedRecordsFit
    IntactTablesVerify
    ValidReportsAreTrue
    AlarmsHaveACause
    EntriesAreProvable
