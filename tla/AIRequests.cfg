SPECIFICATION Spec
CONSTANTS
    Workers = {w1, w2}
    Keys = {k1}
    Payloads = {p1, p2}
    NoKey = NoKey
    NoPayload = NoPayload
    NoOne = NoOne
    Slow = FALSE
    Budget = 2
    Alert = 1
    Costs = {1, 2}
    Cold = Cold
    MaxEvictions = 1
    MaxRollbacks = 1
SYMMETRY Symmetry
INVARIANTS
    
    
    OvershootBounded
    AlertsAreRaisedOnce
