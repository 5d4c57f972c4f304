----------------------------- MODULE Calibration ------------------------------
(***************************************************************************)
(* What the counters of gold tasks and of split votes are turned into: the *)
(* weight of an annotator and the uncertainty threshold of a domain.       *)
(* Fractions are counted in ten-thousandths; a value that falls halfway    *)
(* between two of them may be rounded either way.                          *)
(***************************************************************************)
EXTENDS Naturals, FiniteSets, SequencesExt

Unit == 10000

Least(a, b) == IF a < b THEN a ELSE b

Most(a, b) == IF a < b THEN b ELSE a

(* a - b where the code goes on with a maximum.                            *)
Less(a, b) == IF b < a THEN a - b ELSE 0

(* round(num / den)                                                        *)
Roundings(num, den) ==
    {q \in {num \div den, num \div den + 1} : /\ 2 * q * den <= 2 * num + den
                                              /\ 2 * num <= 2 * q * den + den}

-------------------------------------------------------------------------------
(* Annotators                                                              *)

Clamped(weight) == Most(1000, Least(15000, weight))

(* With the denominator of a uniform prior.                                *)
SkillWeightUniform(correct, evaluated) ==
    IF evaluated = 0 THEN {Unit}
    ELSE {Clamped(q) :
            q \in Roundings(1000 * (evaluated + 2) + 7000 * (2 * correct + 1), evaluated + 2)}

(* compute_bayesian_skill_weight: 0.1 + 1.4 * (correct + 0.5) / (evaluated + 1) *)
SkillWeight(correct, evaluated) ==
    IF evaluated = 0 THEN {Unit}
    ELSE {Clamped(q) :
            q \in Roundings(1000 * (evaluated + 1) + 7000 * (2 * correct + 1), evaluated + 1)}

-------------------------------------------------------------------------------
(* Thresholds                                                              *)

MinAdaptive == 4500

MaxAdaptive == 9200

Unjudged == Unit + 1

(* A task: open without a quorum or a decision, split by a deadlocked      *)
(* vote, clear by 95 per cent of the weight; and the uncertainty the       *)
(* triage gave it, if it did.                                              *)
Outcomes == [vote : {"open", "split", "clear", "narrow"}, judge : 0..Unit \cup {Unjudged}]

Resolved(tasks) == {i \in DOMAIN tasks : tasks[i].vote # "open"}

Judged(tasks) == {i \in DOMAIN tasks : tasks[i].judge # Unjudged}

Splits(tasks) == {i \in DOMAIN tasks : tasks[i].vote = "split"}

UnpredictedSplits(tasks, current) ==
    {i \in Splits(tasks) \cap Judged(tasks) : tasks[i].judge < current}

FalseEscalations(tasks, current) ==
    {i \in Judged(tasks) : tasks[i].vote = "clear" /\ tasks[i].judge >= current}

SplitRates(tasks) ==
    IF Resolved(tasks) = {} THEN {0}
    ELSE Roundings(Unit * Cardinality(Splits(tasks)), Cardinality(Resolved(tasks)))

(* The lower quartile of the scores of the split tasks: the score that has *)
(* a quarter of the others, rounded down, below it in their order.         *)
Quartile(tasks) ==
    LET scored == Splits(tasks) \cap Judged(tasks)
        upTo(score) == {i \in scored : tasks[i].judge <= score}
    IN Min({score \in {tasks[i].judge : i \in scored} :
              Cardinality(upTo(score)) > (Cardinality(scored) - 1) \div 4})

(* Where a lowered threshold is pulled, in units of 1 / Unit.              *)
AnchorScore(tasks, current, rate) ==
    Most(MinAdaptive * Unit,
         IF Splits(tasks) \cap Judged(tasks) # {}
         THEN Less(Quartile(tasks), 200) * Unit
         ELSE Less(current * Unit, 800 * (Unit + rate)))

(* Half of the way to the anchor, and at least 0.03.                       *)
Lowered(tasks, current, rate) ==
    {Least(MaxAdaptive, Most(MinAdaptive, q)) :
       q \in Roundings(Least(2 * Unit * Less(current, 300),
                             Unit * current + AnchorScore(tasks, current, rate)), 2 * Unit)}

(* Whether or not splits were missed.                                      *)
TooHighByRate(tasks, current, rate) == rate >= 3500

TooHigh(tasks, current, rate) == UnpredictedSplits(tasks, current) # {} \/ rate >= 3500

TooLow(tasks, current, rate, samples) ==
    LET wrong == Cardinality(FalseEscalations(tasks, current)) IN
    /\ UnpredictedSplits(tasks, current) = {} /\ rate <= 1000
    /\ \/ wrong >= 2
       \/ Cardinality(Judged(tasks)) >= samples
          /\ 2 * wrong >= Most(1, Cardinality(Judged(tasks)))

(* calibrate_organization_domain_thresholds, one domain.                   *)
Recalibrated(tasks, current, auto, samples) ==
    UNION {IF ~auto \/ Cardinality(Resolved(tasks)) < samples THEN {current}
           ELSE IF TooHigh(tasks, current, rate) THEN Lowered(tasks, current, rate)
           ELSE IF TooLow(tasks, current, rate, samples)
           THEN {Least(MaxAdaptive, current + 500)}
           ELSE {current} : rate \in SplitRates(tasks)}
===============================================================================
