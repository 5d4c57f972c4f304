SPECIFICATION Evaluations
CONSTANTS
    Annotators = {u1, u2, u3, u4}
    Weights = {1000, 4500, 10000, 11500}
    Abstain = Abstain
    Quorum = 2
    MaxLeaves = 9
    MaxEvaluated = 30
    Thresholds = {1000, 4500, 4600, 7800, 9000, 9900}
    Scores = {4000, 4601, 8000, 9950}
    Samples = 2
    MaxResolved = 3
    MaxBallots = 3
INVARIANTS
    VerdictIsMajority
    SupportKeepsVerdict
    ProofsAreExact
    AnswersMoveWeightTheirWay
    ThresholdFollowsEvidence
    RecordIsAWinnersPair
