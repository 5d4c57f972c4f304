------------------------------ MODULE AIRequests ------------------------------
(***************************************************************************)
(* The POST endpoints of the AI assistant for one organization and one     *)
(* billing period: idempotency, cached answers, the budget check, the call *)
(* to the provider, and the ledger with its counter and alerts.            *)
(*                                                                         *)
(* Tokens and cost are charged alike and appear as one amount, in units of *)
(* the cheapest call.  The budget is checked twice before a call; the      *)
(* first check decides nothing the second does not and is left out.        *)
(***************************************************************************)
EXTENDS Idempotency

CONSTANTS
    Budget,         \* of the organization or its plan
    Alert,          \* the threshold in amounts
    Costs,          \* amounts a call can cost
    Cold,           \* the counter is not in the cache
    MaxEvictions, MaxRollbacks   \* bounds on faults

ASSUME AIAssumption ==
    /\ Budget \in Nat \ {0} /\ Alert \in 1..Budget
    /\ Costs \subseteq Nat \ {0} /\ Costs # {} /\ IsFiniteSet(Costs)
    /\ Cold \notin Nat
    /\ MaxEvictions \in Nat /\ MaxRollbacks \in Nat

VARIABLES
    ledger,     \* sum of the committed AIUsageLog rows
    counter,    \* monthly counter in the cache
    raised,     \* alert kinds locked in the cache
    alerts,     \* alerts in the outbox, of each kind
    results,    \* payloads whose validated result is cached
    evictions, rollbacks

money == <<ledger, counter, raised, alerts>>
faults == <<evictions, rollbacks>>
middleware == <<record, lock, executed>>
vars == <<record, lock, job, executed, ledger, counter, raised, alerts, results, evictions,
          rollbacks>>

Kinds == {"threshold", "exceeded"}

Level == [kind \in Kinds |-> IF kind = "threshold" THEN Alert ELSE Budget]

Init ==
    /\ InitMiddleware
    /\ ledger = 0 /\ counter = Cold
    /\ raised = {} /\ alerts = [kind \in Kinds |-> 0]
    /\ results = {}
    /\ evictions = 0 /\ rollbacks = 0

-------------------------------------------------------------------------------
(* Before the call                                                         *)

(* A hit costs nothing and is served to an organization without budget.    *)
AskCache(w) ==
    /\ At(w, "handling")
    /\ IF job[w].body \in results THEN Answer(w, TRUE) ELSE Go(w, "checking")
    /\ UNCHANGED <<money, results, faults, middleware>>

Spent(sum) == sum >= Budget

(* 429, or on to the provider.                                             *)
Decide(w, sum) == IF Spent(sum) THEN Answer(w, FALSE) ELSE Resume(w, "calling", FALSE)

Check(w) ==
    /\ At(w, "checking")
    /\ IF counter # Cold
       THEN Decide(w, counter)
       ELSE job' = [job EXCEPT ![w] = [@ EXCEPT !.at = "seeding", !.sum = ledger]]
    /\ UNCHANGED <<money, results, faults, middleware>>

(* cache.add keeps a counter that another request seeded meanwhile.        *)
Seeded(sum) == IF counter = Cold THEN sum ELSE counter

Seed(w) ==
    /\ At(w, "seeding")
    /\ counter' = Seeded(job[w].sum)
    /\ Decide(w, IF counter' > job[w].sum THEN counter' ELSE job[w].sum)
    /\ UNCHANGED <<ledger, raised, alerts, results, faults, middleware>>

-------------------------------------------------------------------------------
(* The call and its record                                                 *)

(* The provider fails or the circuit is open: 502 or 503.                  *)
Fail(w) ==
    /\ At(w, "calling")
    /\ Answer(w, FALSE)
    /\ UNCHANGED <<money, results, faults, middleware>>

(* An answer, whose row is inserted but not committed; one without usage   *)
(* data is not charged.                                                    *)
Call(w) ==
    /\ At(w, "calling")
    /\ \/ \E cost \in Costs :
            job' = [job EXCEPT ![w] = [@ EXCEPT !.at = "recording", !.cost = cost]]
       \/ Resume(w, "parsing", FALSE)
    /\ UNCHANGED <<money, results, faults, middleware>>

(* A counter that is there is incremented; else the rows the transaction   *)
(* sees are summed.                                                        *)
ReadCounter(w) ==
    /\ At(w, "recording")
    /\ job' = [job EXCEPT ![w] =
           IF counter # Cold THEN [@ EXCEPT !.at = "counting"]
           ELSE [@ EXCEPT !.at = "summing", !.sum = ledger + job[w].cost]]
    /\ UNCHANGED <<money, results, faults, middleware>>

SetCounter(w) ==
    /\ At(w, "summing")
    /\ counter' = job[w].sum
    /\ Go(w, "alerting")
    /\ UNCHANGED <<ledger, raised, alerts, results, faults, middleware>>

(* The rows of the database instead of the increment.                      *)
CountCommitted(w) == ledger + job[w].cost

(* incr; a counter lost since the read restarts with this call alone.      *)
Counted(w) == IF counter = Cold THEN job[w].cost ELSE counter + job[w].cost

Increment(w) ==
    /\ At(w, "counting")
    /\ counter' = Counted(w)
    /\ job' = [job EXCEPT ![w] = [@ EXCEPT !.at = "alerting", !.sum = Counted(w)]]
    /\ UNCHANGED <<ledger, raised, alerts, results, faults, middleware>>

(* An alert with every call beyond the level.                              *)
ReachedAgain(w) == {kind \in Kinds : job[w].sum >= Level[kind]}

Reached(w) == {kind \in Kinds : job[w].sum >= Level[kind]} \ raised

TakeAlerts(w) ==
    /\ At(w, "alerting")
    /\ raised' = raised \cup Reached(w)
    /\ job' = [job EXCEPT ![w] = [@ EXCEPT !.at = "committing", !.alerts = Reached(w)]]
    /\ UNCHANGED <<ledger, counter, alerts, results, faults, middleware>>

Commit(w) ==
    /\ At(w, "committing")
    /\ ledger' = ledger + job[w].cost
    /\ alerts' = [kind \in Kinds |-> IF kind \in job[w].alerts THEN alerts[kind] + 1
                                     ELSE alerts[kind]]
    /\ Resume(w, "parsing", FALSE)
    /\ UNCHANGED <<counter, raised, results, faults, middleware>>

Recording(w) == job[w].at \in {"recording", "summing", "counting", "alerting", "committing"}

(* An exception in the transaction is logged and forgotten, or the server  *)
(* dies; what the cache was told stays.                                    *)
RollBack(w) ==
    /\ Recording(w)
    /\ rollbacks < MaxRollbacks
    /\ rollbacks' = rollbacks + 1
    /\ Resume(w, "parsing", FALSE) \/ Leave(w)
    /\ UNCHANGED <<money, results, evictions, middleware>>

(* Only a result that its schema accepts is cached; else 502.              *)
Parse(w) ==
    /\ At(w, "parsing")
    /\ \E valid \in BOOLEAN :
         /\ results' = IF valid THEN results \cup {job[w].body} ELSE results
         /\ Answer(w, valid)
    /\ UNCHANGED <<money, faults, middleware>>

(* The cache loses the counter.                                            *)
Evict ==
    /\ counter # Cold
    /\ evictions < MaxEvictions
    /\ evictions' = evictions + 1
    /\ counter' = Cold
    /\ UNCHANGED <<ledger, raised, alerts, results, rollbacks, job, middleware>>

-------------------------------------------------------------------------------

Handler(w) ==
    \/ AskCache(w) \/ Check(w) \/ Seed(w)
    \/ Fail(w) \/ Call(w) \/ ReadCounter(w) \/ SetCounter(w) \/ Increment(w)
    \/ TakeAlerts(w) \/ Commit(w) \/ RollBack(w) \/ Parse(w)

Next ==
    \/ \E w \in Workers : Middleware(w) /\ UNCHANGED <<money, results, faults>>
    \/ \E k \in Keys : Expire(k) /\ UNCHANGED <<money, results, faults>>
    \/ \E w \in Workers : Handler(w)
    \/ \E w \in Workers : ~Recording(w) /\ Die(w) /\ UNCHANGED <<money, results, faults>>
    \/ Evict

Spec == Init /\ [][Next]_vars

-------------------------------------------------------------------------------
(* Properties                                                              *)

Dearest == CHOOSE c \in Costs : \A d \in Costs : d <= c

(* The check and the charge are apart, so calls that were under way exceed *)
(* the budget: by one call per thread and no more.  A counter that the     *)
(* cache loses costs at most that much again per thread.                   *)
OvershootBounded ==
    ledger < (1 + evictions * Cardinality(Workers)) * (Budget + Cardinality(Workers) * Dearest)

(* Each alert is raised once, and one whose level was reached is in the    *)
(* outbox when no call is being recorded, unless its transaction failed.   *)
AlertsAreRaisedOnce ==
    \A kind \in Kinds :
        /\ alerts[kind] <= 1
        /\ evictions + rollbacks = 0 /\ ledger >= Level[kind] /\ ~(\E w \in Workers : Recording(w))
             => alerts[kind] = 1
===============================================================================
