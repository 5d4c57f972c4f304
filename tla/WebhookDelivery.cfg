SPECIFICATION Spec
CONSTANTS
    Messages = {m1, m2}
    Workers = {w1, w2}
    Admins = {a1}
    NoMessage = NoMessage
    MaxFailures = 2
    MaxRetries = 1
    MaxCrashes = 1
    MaxManual = 2
INVARIANTS EndsAreAccounted
PROPERTIES MessagesEnd
CHECK_DEADLOCK FALSE
