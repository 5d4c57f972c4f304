SPECIFICATION Spec
CONSTANTS
    Tasks = {t1, t2}
    Users = {u1, u2}
    Workers = {w1, w2}
    NoOne = NoOne
    NoTask = NoTask
    Gold = {t1, t2}
    GoldChoice = "response_a"
    Required = 2
    LeaseTime = 1
    MaxClock = 1
    CalibratedWeights <- MCWeights
    Operations = {"claim", "annotate", "triage", "delete"}
    Votes = {"response_a", "response_b"}
    Edits = {}
SYMMETRY Symmetry
INVARIANTS OneBallotPerAnnotator CalibrationCountsGoldBallots
PROPERTIES LiveLeaseIsNotTransferred
CHECK_DEADLOCK FALSE
