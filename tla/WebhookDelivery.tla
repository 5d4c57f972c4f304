--------------------------- MODULE WebhookDelivery ----------------------------
(***************************************************************************)
(* Deliveries to one webhook endpoint: the Celery task with its retries,   *)
(* administrators who test, replay, recover and delete, and the counter of *)
(* consecutive failures that disables the endpoint.                        *)
(*                                                                         *)
(* A delivery reads the endpoint, posts for seconds, and saves the counter *)
(* it computed from what it had read, in no transaction and without a      *)
(* lock.  Celery acknowledges a message before it runs the task.           *)
(***************************************************************************)
EXTENDS Naturals, FiniteSets

CONSTANTS
    Messages,       \* deliveries queued by dispatches of outbox events
    Workers,        \* Celery workers
    Admins,
    NoMessage,
    MaxFailures,    \* MAX_CONSECUTIVE_WEBHOOK_FAILURES
    MaxRetries,     \* max_retries of the task
    MaxCrashes, MaxManual   \* bounds on crashes and on what administrators do

ASSUME DeliveryAssumption ==
    /\ NoMessage \notin Messages /\ Workers \cap Admins = {}
    /\ MaxFailures \in Nat \ {0} /\ MaxRetries \in Nat
    /\ MaxCrashes \in Nat /\ MaxManual \in Nat

VARIABLES
    present, active, count,   \* the endpoint's row: is_active, failure_count
    message,    \* where each message is, or how it ended
    tries,      \* self.request.retries
    received,   \* messages the receiver has got
    logged,     \* WebhookDelivery rows of each message
    job,        \* the delivery each worker and administrator is at
    failed,     \* failed posts so far, counted by the endpoint or not
    crashes, manual

row == <<present, active, count>>
vars == <<present, active, count, message, tries, received, logged, job, failed, crashes, manual>>

Ends == {"delivered", "exhausted", "refused", "lost"}

NoJob == [at |-> "idle", message |-> NoMessage, active |-> FALSE, count |-> 0, ok |-> FALSE]

Init ==
    /\ present = TRUE /\ active = TRUE /\ count = 0
    /\ message = [m \in Messages |-> "none"]
    /\ tries = [m \in Messages |-> 0]
    /\ received = {}
    /\ logged = [m \in Messages |-> 0]
    /\ job = [x \in Workers \cup Admins |-> NoJob]
    /\ failed = 0 /\ crashes = 0 /\ manual = 0

(* failed and logged are counted as far as the properties look.            *)
Enough == MaxFailures + MaxRetries + 2

Count(n) == IF n < Enough THEN n + 1 ELSE n

At(x, step) == job[x].at = step

(* Where a message ends, if the delivery is one of a message.              *)
Close(x, end) ==
    message' = [m \in Messages |-> IF m = job[x].message THEN end ELSE message[m]]

Abandon(x) == job' = [job EXCEPT ![x] = NoJob]

-------------------------------------------------------------------------------
(* The queue                                                               *)

(* dispatch_organization_webhooks.                                         *)
Queue(m) ==
    /\ present /\ active
    /\ message[m] = "none"
    /\ message' = [message EXCEPT ![m] = "queued"]
    /\ UNCHANGED <<row, tries, received, logged, job, failed, crashes, manual>>

(* Retries kept back while the endpoint is disabled.                       *)
WaitingWhileActive(m) == active /\ message[m] = "waiting"

Waiting(m) == message[m] = "waiting"

(* A retry's countdown is over.                                            *)
BecomeDue(m) ==
    /\ Waiting(m)
    /\ message' = [message EXCEPT ![m] = "queued"]
    /\ UNCHANGED <<row, tries, received, logged, job, failed, crashes, manual>>

(* The endpoint is read as it is now.                                      *)
Posting(m) == [NoJob EXCEPT !.at = "posting", !.message = m, !.active = active, !.count = count]

Take(w) ==
    /\ At(w, "idle")
    /\ \E m \in Messages :
         /\ message[m] = "queued"
         /\ IF present /\ active
            THEN /\ message' = [message EXCEPT ![m] = "taken"]
                 /\ job' = [job EXCEPT ![w] = Posting(m)]
            ELSE /\ message' = [message EXCEPT ![m] = "refused"]
                 /\ UNCHANGED job
    /\ UNCHANGED <<row, tries, received, logged, failed, crashes, manual>>

-------------------------------------------------------------------------------
(* deliver_webhook_sync                                                    *)

(* A post that reads as a failure may have been received all the same.     *)
Post(x) ==
    /\ At(x, "posting")
    /\ \E ok, arrived \in BOOLEAN :
         /\ ok => arrived
         /\ received' = IF arrived THEN received \cup ({job[x].message} \cap Messages) ELSE received
         /\ job' = [job EXCEPT ![x] = [@ EXCEPT !.at = "saving", !.ok = ok]]
         /\ failed' = IF ok THEN failed ELSE Count(failed)
    /\ UNCHANGED <<row, message, tries, logged, crashes, manual>>

(* Off by one.                                                             *)
TooManyEarly(n) == n + 1 >= MaxFailures

TooMany(n) == n >= MaxFailures

(* A success leaves is_active out of the saved fields, a failure writes    *)
(* back the value read; the save of a row that is gone raises.             *)
Save(x) ==
    /\ At(x, "saving")
    /\ IF ~present
       THEN Abandon(x) /\ Close(x, "lost") /\ UNCHANGED row
       ELSE LET n == IF job[x].ok THEN 0 ELSE job[x].count + 1
                on == job[x].active /\ (job[x].ok \/ ~TooMany(n))
            IN /\ count' = n
               /\ active' = IF job[x].ok THEN active ELSE on
               /\ job' = [job EXCEPT ![x] = [@ EXCEPT !.at = "logging", !.active = on, !.count = 0]]
               /\ UNCHANGED <<present, message>>
    /\ UNCHANGED <<tries, received, logged, failed, crashes, manual>>

Retried(m) == [tries EXCEPT ![m] = @ + 1]

(* How a logged delivery of a message goes on: the failure that disables   *)
(* the endpoint is not retried.                                            *)
Settle(m, ok, on) ==
    IF ok \/ ~on \/ tries[m] = MaxRetries
    THEN /\ message' = [message EXCEPT ![m] = IF ok THEN "delivered"
                                              ELSE IF on THEN "exhausted" ELSE "refused"]
         /\ UNCHANGED tries
    ELSE message' = [message EXCEPT ![m] = "waiting"] /\ tries' = Retried(m)

(* The row of the delivery; its reference fails when the endpoint is gone. *)
Log(x) ==
    LET m == job[x].message IN
    /\ At(x, "logging")
    /\ IF ~present
       THEN Close(x, "lost") /\ UNCHANGED <<tries, logged>>
       ELSE IF m = NoMessage
       THEN UNCHANGED <<message, tries, logged>>
       ELSE Settle(m, job[x].ok, job[x].active) /\ logged' = [logged EXCEPT ![m] = Count(@)]
    /\ Abandon(x)
    /\ UNCHANGED <<row, received, failed, crashes, manual>>

(* The message was acknowledged when it was taken.                         *)
Crash(w) ==
    /\ ~At(w, "idle")
    /\ crashes < MaxCrashes
    /\ crashes' = crashes + 1
    /\ Close(w, "lost")
    /\ Abandon(w)
    /\ UNCHANGED <<row, tries, received, logged, failed, manual>>

-------------------------------------------------------------------------------
(* Administrators                                                          *)

(* A test or the replay of an earlier delivery, also of a disabled         *)
(* endpoint, and without retries.                                          *)
DeliverOnce(a) ==
    /\ At(a, "idle") /\ present
    /\ job' = [job EXCEPT ![a] = Posting(NoMessage)]
    /\ UNCHANGED <<row, message, tries, received, logged, failed, crashes>>

Recover ==
    /\ present
    /\ active' = TRUE /\ count' = 0
    /\ UNCHANGED <<present, message, tries, received, logged, job, failed, crashes>>

Delete ==
    /\ present
    /\ present' = FALSE
    /\ UNCHANGED <<active, count, message, tries, received, logged, job, failed, crashes>>

Manual == manual < MaxManual /\ manual' = manual + 1

-------------------------------------------------------------------------------

Deliver(x) == Post(x) \/ Save(x) \/ Log(x)

Next ==
    \/ \E m \in Messages : Queue(m) \/ BecomeDue(m)
    \/ \E w \in Workers : Take(w) \/ Crash(w)
    \/ \E x \in Workers \cup Admins : Deliver(x)
    \/ Manual /\ (Recover \/ Delete \/ \E a \in Admins : DeliverOnce(a))

(* Countdowns run out, free workers take messages, and a post ends by its  *)
(* timeout.  Nothing is assumed of administrators and dispatches.          *)
Fairness ==
    /\ \A m \in Messages : WF_vars(BecomeDue(m))
    /\ WF_vars(\E w \in Workers : Take(w))
    /\ \A x \in Workers \cup Admins : WF_vars(Deliver(x))

Spec == Init /\ [][Next]_vars /\ Fairness

-------------------------------------------------------------------------------
(* Properties                                                              *)

(* However the saves of concurrent deliveries and of administrators        *)
(* overtake each other, an endpoint is disabled only after as many failed  *)
(* posts as the limit, and a message ends unreceived only because all its  *)
(* attempts failed and are logged, the endpoint was disabled or deleted,   *)
(* or a worker died.                                                       *)
EndsAreAccounted ==
    /\ present /\ ~active => failed >= MaxFailures
    /\ \A m \in Messages :
         /\ message[m] = "delivered" => m \in received /\ logged[m] = tries[m] + 1
         /\ message[m] = "exhausted" => logged[m] = MaxRetries + 1 /\ failed > MaxRetries
         /\ message[m] = "refused" => ~present \/ failed >= MaxFailures
         /\ message[m] = "lost" => ~present \/ crashes > 0

(* No message is tried for ever, whatever the receiver answers.            *)
MessagesEnd == \A m \in Messages : message[m] # "none" ~> message[m] \in Ends
===============================================================================
