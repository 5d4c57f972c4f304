-------------------------- MODULE OrganizationLimits ---------------------------
(***************************************************************************)
(* The limits of an organization's plan together: the seats, which         *)
(* Membership counts, and the tasks and requests of PlanLimits.  The two   *)
(* share the web workers and no table.                                     *)
(***************************************************************************)
EXTENDS Membership

CONSTANTS NoCall, MaxTasks, MaxAIRequests, MaxBatch, Rate, Duration, MaxClock

VARIABLES tasks, deleted, used, history, clock, call, passed, overlapped, admitted

Plan == INSTANCE PlanLimits

planVars == <<tasks, deleted, used, history, clock, call, passed, overlapped, admitted>>

ASSUME LimitsAssumption ==
    /\ {MaxTasks, MaxAIRequests, MaxClock} \subseteq Nat /\ MaxBatch \in Nat \ {0}
    /\ Rate \in [Plan!Scopes -> Nat] /\ Duration \in [Plan!Scopes -> Nat]
    /\ NoCall \notin Plan!Call

(* Every limit of a plan holds up to the requests that overlap: the seats, *)
(* the tasks, the AI requests of a day; and the tasks, the AI requests and *)
(* the request rates hold exactly for requests that come one by one.       *)
LimitsHold == SeatsBounded /\ Plan!OvershootBounded /\ Plan!ExactAlone
================================================================================
