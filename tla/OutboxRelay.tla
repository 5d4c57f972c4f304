----------------------------- MODULE OutboxRelay ------------------------------
(***************************************************************************)
(* The relay of the transactional outbox: drain_outbox_batch in concurrent *)
(* Celery workers, the dead-letter replay of administrators, the daily     *)
(* prune.                                                                  *)
(*                                                                         *)
(* Time appears as due[e]: whether next_attempt_at has passed.  A drain    *)
(* has four kinds of transaction (reclaim, claim, one dispatch after the   *)
(* other, one result after the other) and a worker can die between any two.*)
(***************************************************************************)
EXTENDS Naturals, FiniteSets

CONSTANTS
    Events,        \* events, numbered by created_at
    Endpoints,     \* the queues a dispatch of an event has to reach
    Workers,       \* Celery workers
    Admins,
    NoEvent,       \* null reference
    BatchSize,     \* batch_size
    MaxAttempts,   \* MAX_OUTBOX_ATTEMPTS
    Overrun,       \* may a drain outlive its claim of STALE_PROCESSING_SECONDS?
    MaxCrashes, MaxReplays   \* bounds on what is not the relay's to decide

ASSUME RelayAssumption ==
    /\ Events \subseteq Nat /\ NoEvent \notin Events
    /\ BatchSize \in Nat \ {0} /\ MaxAttempts \in Nat \ {0}
    /\ Overrun \in BOOLEAN
    /\ MaxCrashes \in Nat /\ MaxReplays \in Nat

VARIABLES
    status,      \* status of each event's row, or "absent" / "pruned"
    attempts,    \* its attempts
    due,         \* its next_attempt_at has passed
    sent,        \* the endpoints for which a message was queued
    job,         \* the drain each worker runs
    replaying,   \* the failed event an administrator is about to replay
    crashes, replays

vars == <<status, attempts, due, sent, job, replaying, crashes, replays>>

(* The columns of an event's row.                                          *)
rows == <<status, attempts, due>>

-------------------------------------------------------------------------------
(* Data                                                                    *)

RowStatuses == {"pending", "processing", "dispatched", "failed"}

(* todo: the events locked, then claimed, whose results are not stored yet;*)
(* attempt: the number of the attempt of each, remembered from the claim.  *)
Job == [phase : {"idle", "claim", "locked", "dispatch", "record"}, want : SUBSET Events,
        todo : SUBSET Events, attempt : [Events -> Nat], ok : BOOLEAN]

NoJob == [phase |-> "idle", want |-> {}, todo |-> {}, attempt |-> [e \in Events |-> 0],
          ok |-> FALSE]

Init ==
    /\ status = [e \in Events |-> "absent"]
    /\ attempts = [e \in Events |-> 0]
    /\ due = [e \in Events |-> FALSE]
    /\ sent = [e \in Events |-> {}]
    /\ job = [w \in Workers |-> NoJob]
    /\ replaying = [a \in Admins |-> NoEvent]
    /\ crashes = 0
    /\ replays = 0

Earliest(events) == CHOOSE e \in events : \A f \in events : e <= f

(* The n earliest of events, or all of them.                               *)
Batch(events, n) == {e \in events : Cardinality({f \in events : f < e}) < n}

(* w works on e.                                                           *)
Holds(w, e) == job[w].phase \in {"dispatch", "record"} /\ e \in job[w].todo

-------------------------------------------------------------------------------
(* Events                                                                  *)

(* The business transaction that enqueued e commits: in any order, since   *)
(* created_at is set before.                                               *)
Commit(e) ==
    /\ status[e] = "absent"
    /\ status' = [status EXCEPT ![e] = "pending"]
    /\ due' = [due EXCEPT ![e] = TRUE]
    /\ UNCHANGED <<attempts, sent, job, replaying, crashes, replays>>

(* next_attempt_at passes.  Celery's hard time limit is as long as the     *)
(* claim, so a drain that runs under it is over when its claim runs out.   *)
BecomeDue(e) ==
    /\ status[e] \in {"pending", "processing"}
    /\ ~due[e]
    /\ Overrun \/ \A w \in Workers : ~Holds(w, e)
    /\ due' = [due EXCEPT ![e] = TRUE]
    /\ UNCHANGED <<status, attempts, sent, job, replaying, crashes, replays>>

(* A delete repeats the status filter of the select.                       *)
Prune(e) ==
    /\ status[e] = "dispatched"
    /\ status' = [status EXCEPT ![e] = "pruned"]
    /\ UNCHANGED <<attempts, due, sent, job, replaying, crashes, replays>>

-------------------------------------------------------------------------------
(* drain_outbox_batch                                                      *)

(* A sweep that leaves the events of dead workers alone.                   *)
NeverReclaimed(e) == FALSE

Reclaimable(e) == status[e] = "processing" /\ due[e]

(* The Beat sweep wants every event, the on_commit trigger one; the        *)
(* reclaiming UPDATE is the same for both.                                 *)
Start(w, want) ==
    /\ job[w].phase = "idle"
    /\ status' = [e \in Events |-> IF Reclaimable(e) THEN "pending" ELSE status[e]]
    /\ job' = [job EXCEPT ![w] = [NoJob EXCEPT !.phase = "claim", !.want = want]]
    /\ UNCHANGED <<attempts, due, sent, replaying, crashes, replays>>

Sweep(w) == Start(w, Events)

(* Triggers are lost with the broker, and late or repeated otherwise.      *)
Trigger(w) == \E e \in Events : status[e] # "absent" /\ Start(w, {e})

(* The rows an open claim transaction has locked.                          *)
Locked(e) == \E v \in Workers : job[v].phase = "locked" /\ e \in job[v].todo

(* A claim without FOR UPDATE.                                             *)
NotSkipped(e) == TRUE

Unlocked(e) == ~Locked(e)

Candidates(w) == {e \in job[w].want : status[e] = "pending" /\ due[e] /\ Unlocked(e)}

Lock(w) ==
    LET claimed == Batch(Candidates(w), BatchSize) IN
    /\ job[w].phase = "claim"
    /\ job' = [job EXCEPT ![w] =
           IF claimed = {} THEN NoJob
           ELSE [@ EXCEPT !.phase = "locked", !.todo = claimed,
                          !.attempt = [e \in Events |-> attempts[e] + 1]]]
    /\ UNCHANGED <<rows, sent, replaying, crashes, replays>>

(* The update and the commit of the claim.                                 *)
Claim(w) ==
    LET claimed == job[w].todo IN
    /\ job[w].phase = "locked"
    /\ status' = [e \in Events |-> IF e \in claimed THEN "processing" ELSE status[e]]
    /\ attempts' = [e \in Events |-> IF e \in claimed THEN attempts[e] + 1 ELSE attempts[e]]
    /\ due' = [e \in Events |-> due[e] /\ e \notin claimed]
    /\ job' = [job EXCEPT ![w].phase = "dispatch"]
    /\ UNCHANGED <<sent, replaying, crashes, replays>>

(* raise_on_broker_error = False.                                          *)
OutcomesIgnored == (SUBSET Endpoints) \X {TRUE}

(* An exception can come after any of the messages was queued.             *)
Outcomes == {<<Endpoints, TRUE>>} \cup ((SUBSET Endpoints) \X {FALSE})

Dispatch(w) ==
    /\ job[w].phase = "dispatch"
    /\ \E outcome \in Outcomes :
         /\ sent' = [sent EXCEPT ![Earliest(job[w].todo)] = @ \cup outcome[1]]
         /\ job' = [job EXCEPT ![w].phase = "record", ![w].ok = outcome[2]]
    /\ UNCHANGED <<status, attempts, due, replaying, crashes, replays>>

Result(ok, attempt) ==
    IF ok THEN "dispatched" ELSE IF attempt >= MaxAttempts THEN "failed" ELSE "pending"

(* The update filters on the id alone, and waits for a row that is being   *)
(* claimed; a backoff follows a failed attempt.                            *)
Record(w) ==
    LET e    == Earliest(job[w].todo)
        rest == job[w].todo \ {e} IN
    /\ job[w].phase = "record" /\ Unlocked(e)
    /\ status' = [status EXCEPT ![e] =
           IF @ = "pruned" THEN @ ELSE Result(job[w].ok, job[w].attempt[e])]
    /\ due' = [due EXCEPT ![e] = @ /\ Result(job[w].ok, job[w].attempt[e]) # "pending"]
    /\ job' = [job EXCEPT ![w] =
           IF rest = {} THEN NoJob ELSE [@ EXCEPT !.phase = "dispatch", !.todo = rest]]
    /\ UNCHANGED <<attempts, sent, replaying, crashes, replays>>

(* The worker dies or is killed at its time limit.                         *)
Crash(w) ==
    /\ job[w].phase # "idle"
    /\ crashes < MaxCrashes
    /\ crashes' = crashes + 1
    /\ job' = [job EXCEPT ![w] = NoJob]
    /\ UNCHANGED <<status, attempts, due, sent, replaying, replays>>

-------------------------------------------------------------------------------
(* replay_dead_letter_outbox_event                                         *)

(* Without the check of the status.                                        *)
ReplayAnything(e) == status[e] # "absent"

Replayable(e) == status[e] = "failed"

ReplayRead(a) ==
    \E e \in Events :
        /\ replaying[a] = NoEvent
        /\ replays < MaxReplays
        /\ Replayable(e)
        /\ replaying' = [replaying EXCEPT ![a] = e]
        /\ replays' = replays + 1
        /\ UNCHANGED <<rows, sent, job, crashes>>

(* The save does not look at the row again; it fails only when the row is  *)
(* gone.                                                                   *)
ReplayCommit(a) ==
    LET e == replaying[a] IN
    /\ e # NoEvent /\ Unlocked(e)
    /\ IF status[e] = "pruned" THEN UNCHANGED rows
       ELSE /\ status' = [status EXCEPT ![e] = "pending"]
            /\ attempts' = [attempts EXCEPT ![e] = 0]
            /\ due' = [due EXCEPT ![e] = TRUE]
    /\ replaying' = [replaying EXCEPT ![a] = NoEvent]
    /\ UNCHANGED <<sent, job, crashes, replays>>

-------------------------------------------------------------------------------

Drain(w) == Lock(w) \/ Claim(w) \/ Dispatch(w) \/ Record(w)

Next ==
    \/ \E e \in Events : Commit(e) \/ BecomeDue(e) \/ Prune(e)
    \/ \E w \in Workers : Sweep(w) \/ Trigger(w) \/ Drain(w) \/ Crash(w)
    \/ \E a \in Admins : ReplayRead(a) \/ ReplayCommit(a)

(* Time passes, a started drain goes on, and the Beat sweep, every 15 s in *)
(* Celery's queue, gets its turn again and again.  Nothing is assumed of   *)
(* triggers, of the broker or of operators.                                *)
Fairness ==
    /\ \A e \in Events : WF_vars(BecomeDue(e))
    /\ \A w \in Workers : WF_vars(Drain(w))
    /\ SF_vars(\E w \in Workers : Sweep(w))

Spec == Init /\ [][Next]_vars

FairSpec == Spec /\ Fairness

-------------------------------------------------------------------------------
(* Properties                                                              *)

TypeOK ==
    /\ status \in [Events -> RowStatuses \cup {"absent", "pruned"}]
    /\ attempts \in [Events -> Nat]
    /\ due \in [Events -> BOOLEAN]
    /\ sent \in [Events -> SUBSET Endpoints]
    /\ job \in [Workers -> Job]
    /\ \A w \in Workers : job[w].phase \in {"locked", "dispatch", "record"} <=> job[w].todo # {}
    /\ replaying \in [Admins -> Events \cup {NoEvent}]
    /\ crashes \in Nat /\ replays \in Nat

(* FOR UPDATE SKIP LOCKED and the claim's deadline: no two drains work on  *)
(* one event, and what a drain works on is neither settled nor free.       *)
ClaimsAreExclusive ==
    \A w \in Workers, e \in Events :
        Holds(w, e) =>
            /\ status[e] = "processing"
            /\ \A v \in Workers \ {w} : ~Holds(v, e)

(* OutboxEvent's docstring, at-least-once: an event marked dispatched, or  *)
(* pruned as such, was queued for every endpoint, also after partial       *)
(* failures, crashes and replays.                                          *)
SettledIsSent == \A e \in Events : status[e] \in {"dispatched", "pruned"} => sent[e] = Endpoints

(* A dispatched event is never sent or claimed again: only the prune       *)
(* touches its row.                                                        *)
DispatchedIsFinal ==
    [][\A e \in Events :
         status[e] = "dispatched" => /\ status'[e] \in {"dispatched", "pruned"}
                                     /\ attempts'[e] = attempts[e]]_vars

(* replay_dead_letter_outbox_event: only failed events can be replayed.    *)
OnlyFailedIsReplayed ==
    [][\A a \in Admins, e \in Events :
         replaying[a] = e /\ replaying'[a] = NoEvent => status[e] = "failed"]_vars

(* The contract                                                            *)
Life(s) ==
    CASE s = "absent" -> "none"
      [] s \in {"pending", "processing"} -> "owed"
      [] s \in {"dispatched", "pruned"} -> "met"
      [] s = "failed" -> "dead"

Contract == INSTANCE RelayContract WITH life <- [e \in Events |-> Life(status[e])]

ContractKept == Contract!Spec
===============================================================================
