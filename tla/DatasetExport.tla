---------------------------- MODULE DatasetExport -----------------------------
(***************************************************************************)
(* The preference pair that the dataset export takes from the ballots of a *)
(* decided task.  A response is named by the ballot that brought it, so    *)
(* that a pair tells whose comparison it is.                               *)
(***************************************************************************)
EXTENDS Naturals, Sequences, SequencesExt

(* In the order of creation: does the ballot vote for the winner, and does *)
(* it bring a text for response A and for response B?                      *)
Ballot == [wins : BOOLEAN, a : BOOLEAN, b : BOOLEAN]

Missing == 0

FirstOf(ballots, P(_)) == SelectInSeq(ballots, P)

(* In the order of creation alone.                                         *)
Oldest(ballots) == FirstOf(ballots, LAMBDA t : t.a /\ t.b)

(* The ballot whose two responses are taken: the oldest of the winners     *)
(* that has both, else the oldest that has both.                           *)
Preferred(ballots) ==
    LET winner == FirstOf(ballots, LAMBDA t : t.wins /\ t.a /\ t.b)
    IN IF winner # Missing THEN winner ELSE FirstOf(ballots, LAMBDA t : t.a /\ t.b)

(* Where no ballot has both, the two may come from different ballots.      *)
CandidatePair(ballots) ==
    LET both == Preferred(ballots) IN
    IF both # Missing THEN <<both, both>>
    ELSE <<FirstOf(ballots, LAMBDA t : t.a), FirstOf(ballots, LAMBDA t : t.b)>>

Qualifies(choice, score, minimum, ties) ==
    /\ choice \in {"response_a", "response_b"} \cup (IF ties THEN {"tie"} ELSE {})
    /\ score = Missing \/ score >= minimum

(* The sides of a record: <<ballot, side>> for chosen and for rejected.    *)
RecordOf(ballots, choice) ==
    LET pair == CandidatePair(ballots)
        a == <<pair[1], "response_a">>
        b == <<pair[2], "response_b">>
    IN IF choice = "response_b" THEN [chosen |-> b, rejected |-> a]
       ELSE [chosen |-> a, rejected |-> b]

Exported(ballots, choice, score, minimum, ties) ==
    IF /\ Qualifies(choice, score, minimum, ties)
       /\ \A i \in 1..2 : CandidatePair(ballots)[i] # Missing
    THEN {RecordOf(ballots, choice)} ELSE {}
===============================================================================
