SPECIFICATION Spec
CONSTANTS
    Tasks = {t1}
    Users = {u1, u2, u3}
    Workers = {w1, w2}
    NoOne = NoOne
    NoTask = NoTask
    Gold = {}
    GoldChoice = "response_a"
    Required = 2
    LeaseTime = 1
    MaxClock = 0
    CalibratedWeights = {}
    Operations = {"annotate", "adjudicate", "update", "translate"}
    Votes = {"response_a", "response_b"}
    Edits <- MCEdits
SYMMETRY Symmetry
INVARIANTS TypeOK DecisionsAreSupported TransitionsAreAnnounced
