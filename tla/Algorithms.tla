------------------------------ MODULE Algorithms -------------------------------
(* The pure algorithms over bounded inputs: each initial state is one input  *)
(* of one of them.                                                           *)
EXTENDS Consensus, Merkle, Calibration, DatasetExport

CONSTANTS
    Annotators, Weights, Abstain, Quorum,
    MaxLeaves,     \* the size of a tree
    MaxEvaluated,  \* the gold tasks of an annotator
    Thresholds, Scores, Samples,
    MaxResolved,   \* the tasks of a domain
    MaxBallots     \* the ballots of an exported task

ASSUME Weights \subseteq SkillWeights

VARIABLE input

Elections ==
    {[kind |-> "election", weight |-> weight,
      ballots |-> {b \in Annotators \X Preferences : vote[b[1]] = b[2]}] :
        weight \in [Annotators -> Weights],
        vote \in [Annotators -> Preferences \cup {Abstain}]}

Trees ==
    {t \in [kind : {"tree"}, size : 1..MaxLeaves, index : 0..MaxLeaves, altered : 1..MaxLeaves] :
        t.index <= t.size /\ t.altered <= t.size}

Records ==
    {r \in [kind : {"gold"}, correct : 0..MaxEvaluated, evaluated : 0..MaxEvaluated] :
        r.correct <= r.evaluated}

Domains ==
    [kind : {"domain"}, current : Thresholds, auto : BOOLEAN,
     tasks : [1..MaxResolved -> [vote : {"open", "split", "clear", "narrow"}, judge : Scores \cup {Unjudged}]]]

Exports ==
    [kind : {"export"}, ballots : UNION {[1..n -> Ballot] : n \in 0..MaxBallots},
     choice : {"response_a", "response_b", "tie", ""}]

Given == input \in Elections \cup Trees \cup Records \cup Domains \cup Exports

Keep == UNCHANGED input

Evaluations == Given /\ [][Keep]_input

-------------------------------------------------------------------------------
(* Consensus                                                                 *)

Chosen == Verdict(input.ballots, input.weight, Quorum)

Abstainers == {a \in Annotators : \A b \in input.ballots : b[1] # a}

(* Majority and decision coincide, but for ratios within the rounding to four *)
(* decimals: a decision has the strict majority of the weight cast and no     *)
(* rival that qualifies, and a full, clear majority is never left undecided   *)
(* (evaluate_task_consensus).                                                 *)
VerdictIsMajority ==
    input.kind = "election" =>
        LET cast == WeightOf(input.ballots, input.weight)
            behind(c) == WeightOf(For(input.ballots, c), input.weight) IN
        \A c \in Preferences :
            /\ Chosen = c => 2 * behind(c) > cast
            /\ Chosen # Undecided /\ Wins(c, input.ballots, input.weight) => Chosen = c
            /\ Cardinality(input.ballots) >= Quorum /\ 10000 * behind(c) >= 5001 * cast
                 => Chosen = c

(* A further vote for the winner never unmakes the decision: the annotations *)
(* submitted after completion re-evaluate the task.                          *)
SupportKeepsVerdict ==
    input.kind = "election" /\ Chosen # Undecided =>
        \A a \in Abstainers :
            Verdict(input.ballots \cup {<<a, Chosen>>}, input.weight, Quorum) = Chosen

-------------------------------------------------------------------------------
(* Merkle                                                                    *)

Original(t) == [i \in 1..t.size |-> i]

(* The proof was built from the unaltered leaves.                            *)
OthersAgree(leaves, at) == \A i \in DOMAIN leaves : i # at => leaves[i] = i

Forged(t) == [Original(t) EXCEPT ![t.altered] = 0]

(* An inclusion proof of any entry of a tree of any size verifies against    *)
(* the root of the tree, for its own digest and position and for no other,   *)
(* and against the root of no tree that differs in that entry.  A            *)
(* consistency proof from the first entries of a tree to all of them         *)
(* verifies exactly when the earlier root is that of an unaltered prefix.    *)
ProofsAreExact ==
    input.kind = "tree" =>
        /\ input.index < input.size =>
             \A digest \in 0..input.size, at \in 0..input.size,
                leaves \in {Original(input), Forged(input)} :
                Included(digest, at, input.size, InclusionProof(Original(input), input.index),
                         RootOf(leaves))
                  <=> at = input.index /\ digest = leaves[at + 1] /\ OthersAgree(leaves, at + 1)
        /\ \A earlier \in {SubSeq(leaves, 1, input.index) : leaves \in {Original(input), Forged(input)}} :
             Consistent(input.index, input.size, RootOf(earlier), RootOf(Original(input)),
                        ConsistencyProof(Original(input), input.index))
               <=> earlier = SubSeq(Original(input), 1, input.index)

-------------------------------------------------------------------------------
(* Calibration                                                               *)

(* However the weight is rounded, one more correct gold answer never lowers  *)
(* it and one more wrong answer never raises it, also the first answer,      *)
(* which leaves the neutral weight behind.                                   *)
AnswersMoveWeightTheirWay ==
    input.kind = "gold" =>
        \A before \in SkillWeight(input.correct, input.evaluated) :
            /\ \A after \in SkillWeight(input.correct + 1, input.evaluated + 1) : after >= before
            /\ \A after \in SkillWeight(input.correct, input.evaluated + 1) : after <= before

(* A recalibration after splits the threshold missed never raises it (but to *)
(* the lower bound), one after needless escalations never lowers it (but to  *)
(* the upper bound), and a pinned threshold stays.                           *)
ThresholdFollowsEvidence ==
    input.kind = "domain" =>
        LET missed == UnpredictedSplits(input.tasks, input.current) # {}
        IN \A new \in Recalibrated(input.tasks, input.current, input.auto, Samples) :
             /\ missed => new < input.current \/ new \in {input.current, MinAdaptive}
             /\ missed /\ input.auto /\ Cardinality(Resolved(input.tasks)) >= Samples
                  => new < input.current \/ new = MinAdaptive
             /\ Splits(input.tasks) = {} => new >= input.current \/ new = MaxAdaptive
             /\ ~input.auto => new = input.current

-------------------------------------------------------------------------------
(* Export                                                                    *)

(* A record pairs two responses of one ballot whenever some ballot brought   *)
(* both, one that voted for the winner if there is such a ballot, and its    *)
(* chosen side is the response that won.                                     *)
RecordIsAWinnersPair ==
    input.kind = "export" =>
        \A r \in Exported(input.ballots, input.choice, Missing, 5000, TRUE) :
            LET full == {i \in DOMAIN input.ballots : input.ballots[i].a /\ input.ballots[i].b}
                winners == {i \in full : input.ballots[i].wins}
            IN /\ full # {} => r.chosen[1] = r.rejected[1] /\ r.chosen[1] \in full
               /\ winners # {} => r.chosen[1] \in winners
               /\ input.choice # "tie" => r.chosen[2] = input.choice
===============================================================================
