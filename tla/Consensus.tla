------------------------------- MODULE Consensus -------------------------------
(***************************************************************************)
(* The skill-weighted majority rule of apps/tasks/consensus.py.            *)
(*                                                                         *)
(* A ballot is a pair <<annotator, preference>>: one TaskAnnotation row.   *)
(* Rubric scores, domains and languages only select which weight an        *)
(* annotator has, so a weight is a function from annotators to integers in *)
(* units of 0.0001: the code rounds every weight to four decimals.         *)
(***************************************************************************)
EXTENDS Naturals, FiniteSets, FiniteSetsExt

Preferences == {"response_a", "response_b", "tie"}

(* consensus_choice = "" is the column's default: no decision.             *)
Undecided == ""

(* An annotator without any scored gold task weighs 1.0.                   *)
NeutralWeight == 10000

(* compute_bayesian_skill_weight and resolve_effective_skill_weight clamp  *)
(* to [0.10, 1.50].                                                        *)
SkillWeights == 1000..15000

WeightOf(ballots, weight) == MapThenSumSet(LAMBDA b : weight[b[1]], ballots)

For(ballots, choice) == {b \in ballots : b[2] = choice}

(* has_unique_leader: strictly heavier than every other preference cast.   *)
Leads(choice, ballots, weight) ==
    /\ For(ballots, choice) # {}
    /\ \A other \in Preferences \ {choice} :
         \/ For(ballots, other) = {}
         \/ WeightOf(For(ballots, choice), weight) > WeightOf(For(ballots, other), weight)

(* agreement_ratio = round(top_weight / total_weight, 4), in ten-thousandths; *)
(* a share that ends in an exact half may fall either way in floating point.  *)
AgreementRatio(choice, ballots, weight) ==
    LET total == WeightOf(ballots, weight)
    IN  (20000 * WeightOf(For(ballots, choice), weight) + total) \div (2 * total)

(* A plurality is enough.                                                  *)
WinsByPlurality(choice, ballots, weight) == Leads(choice, ballots, weight)

Wins(choice, ballots, weight) ==
    /\ Leads(choice, ballots, weight)
    /\ AgreementRatio(choice, ballots, weight) > 5000

(* Deciding one annotation early, and at the quorum only.                  *)
VerdictEarly(ballots, weight, required) ==
    IF /\ Cardinality(ballots) + 1 >= required
       /\ \E choice \in Preferences : Wins(choice, ballots, weight)
    THEN CHOOSE choice \in Preferences : Wins(choice, ballots, weight)
    ELSE Undecided

VerdictOnce(ballots, weight, required) ==
    IF /\ Cardinality(ballots) = required
       /\ \E choice \in Preferences : Wins(choice, ballots, weight)
    THEN CHOOSE choice \in Preferences : Wins(choice, ballots, weight)
    ELSE Undecided

(* The choice evaluate_task_consensus stores; a split or a missing quorum  *)
(* leaves the task undecided.                                              *)
Verdict(ballots, weight, required) ==
    IF /\ Cardinality(ballots) >= required
       /\ \E choice \in Preferences : Wins(choice, ballots, weight)
    THEN CHOOSE choice \in Preferences : Wins(choice, ballots, weight)
    ELSE Undecided
=============================================================================
