-------------------------- MODULE Notifications_proofs ------------------------
(***************************************************************************)
(* Proofs about the two ways in which the service tells of its events:     *)
(* webhooks (WebhookDelivery) and web sockets (TaskSockets).      *)
(*                                                                         *)
(* Webhooks, for any number of messages, workers, administrators, retries  *)
(* and crashes, and any limit of failures: an endpoint is disabled and a   *)
(* message given up only for a reason, although every save of the failure  *)
(* counter is computed from a stale read.                                  *)
(*                                                                         *)
(* The counter itself may be anything the saves leave of it.  What is      *)
(* invariant is that whatever is in it, in the row or in the hand of a     *)
(* delivery, is explained by as many failed posts.                         *)
(*                                                                         *)
(* Sockets, for any number of sockets, groups, broadcasts and events: the  *)
(* memory of a consumer is the end of what its client was shown.           *)
(***************************************************************************)
EXTENDS WebhookDelivery, TaskSockets, SequenceTheorems, TLAPS

-------------------------------------------------------------------------------
(* Webhooks                                                                *)

Deliverers == Workers \cup Admins

Jobs == [at : {"idle", "posting", "saving", "logging"}, message : Messages \cup {NoMessage},
         active : BOOLEAN, count : Nat, ok : BOOLEAN]

Types ==
    /\ present \in BOOLEAN /\ active \in BOOLEAN /\ count \in Nat
    /\ message \in [Messages -> {"none", "queued", "taken", "waiting"} \cup Ends]
    /\ tries \in [Messages -> 0..MaxRetries] /\ logged \in [Messages -> Nat]
    /\ job \in [Deliverers -> Jobs]
    /\ failed \in 0..Enough /\ crashes \in Nat

(* A number of failures in a row that no more posts than that explain; of  *)
(* one beyond the limit, that the limit was reached is all that is known.  *)
Counted(n) == n <= failed \/ failed >= MaxFailures

Explained(x) ==
    /\ ~At(x, "idle") /\ ~job[x].active => failed >= MaxFailures
    /\ At(x, "posting") => Counted(job[x].count)
    /\ At(x, "saving") /\ ~job[x].ok => Counted(job[x].count + 1)

EndpointExplained ==
    /\ ~active => failed >= MaxFailures
    /\ Counted(count)
    /\ \A x \in Deliverers : Explained(x)

(* A message that is taken is in one delivery.                             *)
InOneDelivery ==
    /\ \A x \in Deliverers : job[x].message # NoMessage =>
         ~At(x, "idle") /\ message[job[x].message] = "taken"
    /\ \A x, y \in Deliverers :
         job[x].message # NoMessage /\ job[x].message = job[y].message => x = y

(* What a delivery knows of its post has happened, and a try more is a     *)
(* failed post more.                                                       *)
PostsAreReal ==
    /\ \A m \in Messages : tries[m] <= failed
    /\ \A x \in Deliverers : (At(x, "saving") \/ At(x, "logging")) /\ job[x].message # NoMessage =>
         IF job[x].ok THEN job[x].message \in received ELSE tries[job[x].message] < failed

Settled(m) ==
    /\ message[m] \notin Ends => logged[m] = tries[m]
    /\ message[m] = "delivered" => m \in received /\ logged[m] = tries[m] + 1
    /\ message[m] = "exhausted" => logged[m] = MaxRetries + 1 /\ failed > MaxRetries
    /\ message[m] = "refused" => ~present \/ failed >= MaxFailures
    /\ message[m] = "lost" => ~present \/ crashes > 0

Accounted == \A m \in Messages : Settled(m)

-------------------------------------------------------------------------------
(* What a step does to the delivery it is of                               *)

OthersStay(x) ==
    job' = [y \in Deliverers |-> job'[y]] /\ \A y \in Deliverers \ {x} : job'[y] = job[y]

Job(step, m, on, n, ok) == [at |-> step, message |-> m, active |-> on, count |-> n, ok |-> ok]

LEMMA OneMoves ==
  ASSUME Types, NEW x \in Deliverers, NEW j, job' = [job EXCEPT ![x] = j]
  PROVE  job'[x] = j /\ OthersStay(x)
  BY DEF Types, OthersStay

LEMMA JobIs ==
  ASSUME Types, NEW x \in Deliverers
  PROVE  /\ job[x] = Job(job[x].at, job[x].message, job[x].active, job[x].count, job[x].ok)
         /\ job[x].message \in Messages \cup {NoMessage} /\ job[x].count \in Nat
         /\ job[x].active \in BOOLEAN /\ job[x].ok \in BOOLEAN
         /\ job[x].at \in {"idle", "posting", "saving", "logging"}
  BY DEF Types, Jobs, Job

LEMMA PostingJob ==
  ASSUME Types, NEW m \in Messages \cup {NoMessage}
  PROVE  Posting(m) = Job("posting", m, active, count, FALSE)
  <1> DEFINE p == Posting(m)
  <1>1. NoJob \in Jobs /\ NoJob.ok = FALSE
    BY DEF NoJob, Jobs
  <1>2. p = [NoJob EXCEPT !.at = "posting", !.message = m, !.active = active, !.count = count]
    BY DEF Posting
  <1>3. active \in BOOLEAN /\ count \in Nat
    BY DEF Types
  <1> HIDE DEF p
  <1>4. p \in Jobs
    BY <1>1, <1>2, <1>3 DEF Jobs
  <1>5. p.at = "posting"
    BY <1>1, <1>2 DEF Jobs
  <1>6. p.message = m
    BY <1>1, <1>2 DEF Jobs
  <1>7. p.active = active
    BY <1>1, <1>2 DEF Jobs
  <1>8. p.count = count /\ p.ok = FALSE
    BY <1>1, <1>2 DEF Jobs
  <1>9. p = Job(p.at, p.message, p.active, p.count, p.ok)
    BY <1>4 DEF Jobs, Job
  <1>10. p = Job("posting", m, active, count, FALSE)
    BY <1>5, <1>6, <1>7, <1>8, <1>9
  <1> QED BY <1>10 DEF p

LEMMA Taken ==
  ASSUME Types, NEW w \in Workers, Take(w)
  PROVE  /\ UNCHANGED <<row, tries, received, logged, failed, crashes>>
         /\ At(w, "idle") /\ OthersStay(w)
         /\ \E m \in Messages :
              /\ message[m] = "queued"
              /\ \/ /\ present /\ active
                    /\ message' = [message EXCEPT ![m] = "taken"]
                    /\ job'[w] = Job("posting", m, active, count, FALSE)
                 \/ /\ ~(present /\ active)
                    /\ message' = [message EXCEPT ![m] = "refused"]
                    /\ job' = job
  <1>1. PICK m \in Messages :
          /\ message[m] = "queued"
          /\ IF present /\ active
             THEN message' = [message EXCEPT ![m] = "taken"] /\ job' = [job EXCEPT ![w] = Posting(m)]
             ELSE message' = [message EXCEPT ![m] = "refused"] /\ job' = job
    BY DEF Take
  <1>2. w \in Deliverers /\ At(w, "idle") /\ UNCHANGED <<row, tries, received, logged, failed, crashes>>
    BY DEF Take, Deliverers
  <1>3. CASE present /\ active
    <2>1. Posting(m) = Job("posting", m, active, count, FALSE)
      BY PostingJob
    <2>2. job'[w] = Posting(m) /\ OthersStay(w)
      BY <1>1, <1>2, <1>3, OneMoves
    <2> QED BY <1>1, <1>2, <1>3, <2>1, <2>2
  <1>4. CASE ~(present /\ active)
    BY <1>1, <1>2, <1>4 DEF OthersStay, Types
  <1> QED BY <1>3, <1>4

LEMMA Posted ==
  ASSUME Types, NEW x \in Deliverers, Post(x)
  PROVE  /\ UNCHANGED <<row, message, tries, logged, crashes>>
         /\ At(x, "posting") /\ OthersStay(x)
         /\ \E ok \in BOOLEAN :
              /\ job'[x] = Job("saving", job[x].message, job[x].active, job[x].count, ok)
              /\ failed' = (IF ok THEN failed ELSE Count(failed))
              /\ received \subseteq received'
              /\ ok /\ job[x].message \in Messages => job[x].message \in received'
  <1>1. PICK ok \in BOOLEAN, arrived \in BOOLEAN :
          /\ ok => arrived
          /\ received' = IF arrived THEN received \cup ({job[x].message} \cap Messages)
                         ELSE received
          /\ job' = [job EXCEPT ![x] = [@ EXCEPT !.at = "saving", !.ok = ok]]
          /\ failed' = IF ok THEN failed ELSE Count(failed)
    BY DEF Post
  <1>2. job' = [job EXCEPT ![x] = [job[x] EXCEPT !.at = "saving", !.ok = ok]]
    BY <1>1
  <1>3. job'[x] = [job[x] EXCEPT !.at = "saving", !.ok = ok] /\ OthersStay(x)
    BY <1>2, OneMoves
  <1>4. job'[x] = Job("saving", job[x].message, job[x].active, job[x].count, ok)
    BY <1>3, JobIs DEF Job
  <1>5. UNCHANGED <<row, message, tries, logged, crashes>> /\ At(x, "posting")
    BY DEF Post
  <1> QED BY <1>1, <1>3, <1>4, <1>5

NewCount(x) == IF job[x].ok THEN 0 ELSE job[x].count + 1

StaysOn(x) == job[x].active /\ (job[x].ok \/ ~TooMany(NewCount(x)))

LEMMA Saved ==
  ASSUME Types, NEW x \in Deliverers, Save(x)
  PROVE  /\ UNCHANGED <<present, tries, received, logged, failed, crashes>>
         /\ At(x, "saving") /\ OthersStay(x)
         /\ \/ /\ ~present /\ job'[x] = NoJob /\ Close(x, "lost")
               /\ UNCHANGED <<count, active>>
            \/ /\ count' = NewCount(x) /\ message' = message
               /\ active' = (IF job[x].ok THEN active ELSE StaysOn(x))
               /\ job'[x] = Job("logging", job[x].message, StaysOn(x), 0, job[x].ok)
  <1>1. UNCHANGED <<tries, received, logged, failed, crashes>> /\ At(x, "saving")
    BY DEF Save
  <1>2. CASE ~present
    <2>1. Abandon(x) /\ Close(x, "lost") /\ UNCHANGED row
      BY <1>2 DEF Save
    <2>2. job'[x] = NoJob /\ OthersStay(x)
      BY <2>1, OneMoves DEF Abandon
    <2> QED BY <1>1, <1>2, <2>1, <2>2 DEF row
  <1>3. CASE present
    <2>1. /\ count' = NewCount(x) /\ message' = message /\ present' = present
          /\ active' = (IF job[x].ok THEN active ELSE StaysOn(x))
          /\ job' = [job EXCEPT ![x] = [job[x] EXCEPT !.at = "logging", !.active = StaysOn(x),
                                                      !.count = 0]]
      BY <1>3 DEF Save, NewCount, StaysOn
    <2>2. /\ job'[x] = [job[x] EXCEPT !.at = "logging", !.active = StaysOn(x), !.count = 0]
          /\ OthersStay(x)
      BY <2>1, OneMoves
    <2>3. job'[x] = Job("logging", job[x].message, StaysOn(x), 0, job[x].ok)
      BY <2>2, JobIs DEF Job
    <2> QED BY <1>1, <2>1, <2>2, <2>3
  <1> QED BY <1>2, <1>3 DEF Types

LEMMA Logged ==
  ASSUME Types, NEW x \in Deliverers, Log(x)
  PROVE  /\ UNCHANGED <<row, received, failed, crashes>>
         /\ At(x, "logging") /\ OthersStay(x) /\ job'[x] = NoJob
         /\ \/ ~present /\ Close(x, "lost") /\ UNCHANGED <<tries, logged>>
            \/ job[x].message = NoMessage /\ UNCHANGED <<message, tries, logged>>
            \/ /\ job[x].message # NoMessage
               /\ Settle(job[x].message, job[x].ok, job[x].active)
               /\ logged' = [logged EXCEPT ![job[x].message] = Count(@)]
  <1>1. Abandon(x) /\ UNCHANGED <<row, received, failed, crashes>> /\ At(x, "logging")
    BY DEF Log
  <1>2. job'[x] = NoJob /\ OthersStay(x)
    BY <1>1, OneMoves DEF Abandon
  <1> QED BY <1>1, <1>2 DEF Log

LEMMA Crashed ==
  ASSUME Types, NEW w \in Workers, Crash(w)
  PROVE  /\ UNCHANGED <<row, tries, received, logged, failed>>
         /\ crashes' = crashes + 1 /\ Close(w, "lost") /\ job'[w] = NoJob /\ OthersStay(w)
  <1>1. Abandon(w) /\ w \in Deliverers
    BY DEF Crash, Deliverers
  <1>2. job'[w] = NoJob /\ OthersStay(w)
    BY <1>1, OneMoves DEF Abandon
  <1> QED BY <1>2 DEF Crash

LEMMA DeliveredOnce ==
  ASSUME Types, NEW a \in Admins, DeliverOnce(a)
  PROVE  /\ UNCHANGED <<row, message, tries, received, logged, failed, crashes>>
         /\ At(a, "idle") /\ OthersStay(a)
         /\ job'[a] = Job("posting", NoMessage, active, count, FALSE)
  <1>1. job' = [job EXCEPT ![a] = Posting(NoMessage)] /\ a \in Deliverers
    BY DEF DeliverOnce, Deliverers
  <1>2. job'[a] = Posting(NoMessage) /\ OthersStay(a)
    BY <1>1, OneMoves
  <1>3. Posting(NoMessage) = Job("posting", NoMessage, active, count, FALSE)
    BY PostingJob
  <1> QED BY <1>2, <1>3 DEF DeliverOnce

(* What a message is closed with.                                          *)
LEMMA Closed ==
  ASSUME Types, NEW x, NEW end, Close(x, end)
  PROVE  /\ DOMAIN message' = Messages /\ message' = [m \in Messages |-> message'[m]]
         /\ \A m \in Messages : message'[m] = IF m = job[x].message THEN end ELSE message[m]
  BY DEF Close

LEMMA Counting ==
  /\ Enough \in Nat /\ MaxFailures < Enough /\ MaxRetries + 1 < Enough
  /\ MaxFailures \in Nat /\ MaxFailures > 0 /\ MaxRetries \in Nat
  /\ \A n \in 0..Enough :
       /\ Count(n) \in 0..Enough /\ Count(n) >= n
       /\ Count(n) = n + 1 \/ (n = Enough /\ Count(n) = Enough)
  BY DeliveryAssumption DEF Enough, Count

LEMMA Settles ==
  ASSUME Types, NEW m \in Messages, NEW ok \in BOOLEAN, NEW on \in BOOLEAN, Settle(m, ok, on)
  PROVE  /\ message' = [message EXCEPT ![m] = message'[m]] /\ tries' = [tries EXCEPT ![m] = tries'[m]]
         /\ \/ ok /\ message'[m] = "delivered" /\ tries'[m] = tries[m]
            \/ ~ok /\ on /\ message'[m] = "exhausted" /\ tries[m] = MaxRetries /\ tries'[m] = tries[m]
            \/ ~ok /\ ~on /\ message'[m] = "refused" /\ tries'[m] = tries[m]
            \/ ~ok /\ message'[m] = "waiting" /\ tries[m] < MaxRetries /\ tries'[m] = tries[m] + 1
  <1>1. tries[m] \in 0..MaxRetries /\ MaxRetries \in Nat /\ DOMAIN message = Messages /\ DOMAIN tries = Messages
    BY DeliveryAssumption DEF Types
  <1>2. CASE ok \/ ~on \/ tries[m] = MaxRetries
    <2>1. message' = [message EXCEPT ![m] = IF ok THEN "delivered"
                                            ELSE IF on THEN "exhausted" ELSE "refused"]
          /\ tries' = tries
      BY <1>2 DEF Settle
    <2>2. message'[m] = (IF ok THEN "delivered" ELSE IF on THEN "exhausted" ELSE "refused")
      BY <1>1, <2>1
    <2>3. tries' = [tries EXCEPT ![m] = tries'[m]]
      BY <2>1 DEF Types
    <2>4. message' = [message EXCEPT ![m] = message'[m]]
      BY <2>1, <2>2
    <2> QED BY <1>2, <2>1, <2>2, <2>3, <2>4
  <1>3. CASE ~(ok \/ ~on \/ tries[m] = MaxRetries)
    <2>1. message' = [message EXCEPT ![m] = "waiting"] /\ tries' = [tries EXCEPT ![m] = tries[m] + 1]
      BY <1>3 DEF Settle, Retried
    <2>2. message'[m] = "waiting" /\ tries'[m] = tries[m] + 1 /\ tries[m] < MaxRetries
      BY <1>1, <1>3, <2>1
    <2> QED BY <1>3, <2>1, <2>2
  <1> QED BY <1>2, <1>3

-------------------------------------------------------------------------------
(* The invariants, one by one                                              *)

LEMMA TypesStep == Types /\ [Next]_vars => Types'
  <1> SUFFICES ASSUME Types, [Next]_vars PROVE Types'
    OBVIOUS
  <1> USE DEF row
  <1>0. ASSUME NEW x \in Deliverers, OthersStay(x), job'[x] \in Jobs
        PROVE  job' \in [Deliverers -> Jobs]
    BY <1>0 DEF OthersStay, Types
  <1>1. NoJob \in Jobs
    BY DEF NoJob, Jobs
  <1>2. ASSUME NEW x \in Deliverers, NEW end \in Ends, Close(x, end)
        PROVE  message' \in [Messages -> {"none", "queued", "taken", "waiting"} \cup Ends]
    BY <1>2 DEF Close, Types
  <1>3. ASSUME NEW m \in Messages, Queue(m) \/ BecomeDue(m) PROVE Types'
    BY <1>3 DEF Queue, BecomeDue, Types
  <1>4. ASSUME NEW w \in Workers, Take(w) PROVE Types'
    <2>1. PICK m \in Messages :
            \/ /\ message' = [message EXCEPT ![m] = "taken"]
               /\ job'[w] = Job("posting", m, active, count, FALSE)
            \/ message' = [message EXCEPT ![m] = "refused"] /\ job' = job
      BY <1>4, Taken
    <2>2. message' \in [Messages -> {"none", "queued", "taken", "waiting"} \cup Ends]
      BY <2>1 DEF Types, Ends
    <2>3. Job("posting", m, active, count, FALSE) \in Jobs
      BY DEF Job, Jobs, Types
    <2>4. job' \in [Deliverers -> Jobs]
      <3>1. w \in Deliverers /\ OthersStay(w)
        BY <1>4, Taken DEF Deliverers
      <3> QED BY <1>0, <2>1, <2>3, <3>1 DEF Types
    <2> QED BY <1>4, <2>2, <2>4, Taken DEF Types
  <1>5. ASSUME NEW x \in Deliverers, Post(x) PROVE Types'
    <2>1. PICK ok \in BOOLEAN :
            /\ job'[x] = Job("saving", job[x].message, job[x].active, job[x].count, ok)
            /\ failed' = (IF ok THEN failed ELSE Count(failed))
      BY <1>5, Posted
    <2>2. Job("saving", job[x].message, job[x].active, job[x].count, ok) \in Jobs
      BY JobIs DEF Job, Jobs
    <2>3. job' \in [Deliverers -> Jobs]
      BY <1>0, <1>5, <2>1, <2>2, Posted
    <2>4. failed' \in 0..Enough
      BY <2>1, Counting DEF Types
    <2> QED BY <1>5, <2>3, <2>4, Posted DEF Types
  <1>6. ASSUME NEW x \in Deliverers, Save(x) PROVE Types'
    <2>1. /\ UNCHANGED <<present, tries, logged, failed, crashes>> /\ OthersStay(x)
      BY <1>6, Saved
    <2>2. CASE job'[x] = NoJob /\ Close(x, "lost") /\ UNCHANGED <<count, active>>
      BY <1>0, <1>1, <1>2, <2>1, <2>2 DEF Types, Ends
    <2>3. CASE /\ count' = NewCount(x) /\ message' = message
               /\ active' = (IF job[x].ok THEN active ELSE StaysOn(x))
               /\ job'[x] = Job("logging", job[x].message, StaysOn(x), 0, job[x].ok)
      <3>1. StaysOn(x) \in BOOLEAN /\ NewCount(x) \in Nat
        BY JobIs DEF StaysOn, NewCount
      <3>2. Job("logging", job[x].message, StaysOn(x), 0, job[x].ok) \in Jobs
        BY <3>1, JobIs DEF Job, Jobs
      <3>3. job' \in [Deliverers -> Jobs]
        BY <1>0, <2>1, <2>3, <3>2
      <3>4. active' \in BOOLEAN
        BY <2>3, <3>1 DEF Types
      <3> QED BY <2>1, <2>3, <3>1, <3>3, <3>4 DEF Types
    <2> QED BY <1>6, <2>2, <2>3, Saved
  <1>7. ASSUME NEW x \in Deliverers, Log(x) PROVE Types'
    <2>1. /\ UNCHANGED <<row, failed, crashes>> /\ job' \in [Deliverers -> Jobs]
      BY <1>0, <1>1, <1>7, Logged
    <2>2. CASE Close(x, "lost") /\ UNCHANGED <<tries, logged>>
      BY <1>2, <2>1, <2>2 DEF Types, Ends
    <2>3. CASE UNCHANGED <<message, tries, logged>>
      BY <2>1, <2>3 DEF Types
    <2>4. CASE /\ job[x].message # NoMessage
               /\ Settle(job[x].message, job[x].ok, job[x].active)
               /\ logged' = [logged EXCEPT ![job[x].message] = Count(@)]
      <3> DEFINE m == job[x].message
      <3>1. m \in Messages /\ job[x].ok \in BOOLEAN /\ job[x].active \in BOOLEAN
        BY <2>4, JobIs
      <3>2. /\ message' = [message EXCEPT ![m] = message'[m]] /\ tries' = [tries EXCEPT ![m] = tries'[m]]
            /\ message'[m] \in {"waiting"} \cup Ends
            /\ tries'[m] = tries[m] \/ (tries[m] < MaxRetries /\ tries'[m] = tries[m] + 1)
        BY <2>4, <3>1, Settles DEF Ends
      <3>3. tries'[m] \in 0..MaxRetries
        BY <3>1, <3>2, Counting DEF Types
      <3>4. logged' \in [Messages -> Nat]
        BY <2>4, <3>1, DeliveryAssumption DEF Types, Count
      <3> HIDE DEF m
      <3>5. tries' \in [Messages -> 0..MaxRetries]
        BY <3>2, <3>3 DEF Types
      <3>6. message' \in [Messages -> {"none", "queued", "taken", "waiting"} \cup Ends]
        BY <3>2 DEF Types
      <3> QED BY <2>1, <3>4, <3>5, <3>6 DEF Types
    <2> QED BY <1>7, <2>2, <2>3, <2>4, Logged
  <1>8. ASSUME NEW w \in Workers, Crash(w) PROVE Types'
    <2>1. w \in Deliverers
      BY DEF Deliverers
    <2>2. job' \in [Deliverers -> Jobs]
      BY <1>0, <1>1, <1>8, <2>1, Crashed
    <2> QED BY <1>2, <1>8, <2>1, <2>2, Crashed DEF Types, Ends
  <1>9. ASSUME NEW a \in Admins, DeliverOnce(a) PROVE Types'
    <2>1. a \in Deliverers
      BY DEF Deliverers
    <2>2. Job("posting", NoMessage, active, count, FALSE) \in Jobs
      BY DEF Job, Jobs, Types
    <2>3. job' \in [Deliverers -> Jobs]
      BY <1>0, <1>9, <2>1, <2>2, DeliveredOnce
    <2> QED BY <1>9, <2>3, DeliveredOnce DEF Types
  <1>10. CASE Recover \/ Delete
    <2>1. CASE Recover
      BY <2>1 DEF Recover, Types
    <2>2. CASE Delete
      BY <2>2 DEF Delete, Types
    <2> QED BY <1>10, <2>1, <2>2
  <1>11. CASE UNCHANGED vars
    BY <1>11 DEF vars, Types
  <1> QED BY <1>3, <1>4, <1>5, <1>6, <1>7, <1>8, <1>9, <1>10, <1>11 DEF Next, Deliver, Deliverers

(* What happened stays happened.                                           *)
Onward ==
    /\ failed' \in Nat /\ failed' >= failed /\ received \subseteq received'
    /\ (present' => present) /\ (crashes > 0 => crashes' > 0)

LEMMA StepsAreOnward == Types /\ [Next]_vars => Onward
  <1> SUFFICES ASSUME Types, [Next]_vars PROVE Onward
    OBVIOUS
  <1> USE DEF Onward, row
  <1>0. failed \in Nat /\ failed \in 0..Enough /\ crashes \in Nat
    BY Counting DEF Types
  <1>1. ASSUME NEW m \in Messages, Queue(m) \/ BecomeDue(m) PROVE Onward
    BY <1>0, <1>1 DEF Queue, BecomeDue
  <1>2. ASSUME NEW w \in Workers, Take(w) PROVE Onward
    BY <1>0, <1>2 DEF Take
  <1>3. ASSUME NEW w \in Workers, Crash(w) PROVE Onward
    BY <1>0, <1>3 DEF Crash
  <1>4. ASSUME NEW x \in Deliverers, Post(x) PROVE Onward
    <2>1. failed' = failed \/ failed' = Count(failed)
      BY <1>4, Posted
    <2> QED BY <1>0, <1>4, <2>1, Posted, Counting
  <1>5. ASSUME NEW x \in Deliverers, Save(x) PROVE Onward
    BY <1>0, <1>5, Saved
  <1>6. ASSUME NEW x \in Deliverers, Log(x) PROVE Onward
    BY <1>0, <1>6, Logged
  <1>7. CASE Recover \/ Delete \/ \E a \in Admins : DeliverOnce(a)
    BY <1>0, <1>7 DEF Recover, Delete, DeliverOnce
  <1>8. CASE UNCHANGED vars
    BY <1>0, <1>8 DEF vars
  <1> QED BY <1>1, <1>2, <1>3, <1>4, <1>5, <1>6, <1>7, <1>8 DEF Next, Deliver, Deliverers

LEMMA EndpointStep == Types /\ EndpointExplained /\ [Next]_vars => EndpointExplained'
  <1> SUFFICES ASSUME Types, EndpointExplained, [Next]_vars PROVE EndpointExplained'
    OBVIOUS
  <1> USE DEF row
  <1>0. /\ failed' \in Nat /\ failed' >= failed /\ failed \in Nat /\ failed \in 0..Enough
        /\ MaxFailures \in Nat /\ count \in Nat
    BY StepsAreOnward, Counting DEF Types, Onward
  <1>1. ASSUME NEW n \in Nat, Counted(n) PROVE Counted(n)'
    BY <1>0, <1>1 DEF Counted
  <1>2. ASSUME NEW x \in Deliverers, job'[x] = job[x] PROVE Explained(x)'
    <2>1. Explained(x) /\ job[x].count \in Nat /\ job[x].count + 1 \in Nat
      BY JobIs DEF EndpointExplained
    <2> QED BY <1>0, <1>1, <1>2, <2>1 DEF Explained, At
  <1>3. ASSUME NEW x \in Deliverers, job'[x] = NoJob PROVE Explained(x)'
    BY <1>3 DEF Explained, At, NoJob
  <1>4. ASSUME UNCHANGED <<active, count>>, NEW x \in Deliverers, OthersStay(x), Explained(x)'
        PROVE  EndpointExplained'
    <2>1. \A y \in Deliverers : Explained(y)'
      BY <1>2, <1>4 DEF OthersStay
    <2>2. Counted(count)' /\ (~active' => failed' >= MaxFailures)
      BY <1>0, <1>1, <1>4 DEF EndpointExplained
    <2> QED BY <2>1, <2>2 DEF EndpointExplained
  <1>5. ASSUME UNCHANGED job,
               \/ UNCHANGED <<active, count>>
               \/ active' = TRUE /\ count' = 0
        PROVE  EndpointExplained'
    <2>1. \A y \in Deliverers : Explained(y)'
      BY <1>2, <1>5
    <2>2. Counted(count)' /\ (~active' => failed' >= MaxFailures)
      BY <1>0, <1>1, <1>5 DEF EndpointExplained, Counted
    <2> QED BY <2>1, <2>2 DEF EndpointExplained
  (* What is read explains itself.                                         *)
  <1>6. ASSUME NEW x \in Deliverers, NEW m, job'[x] = Job("posting", m, active, count, FALSE)
        PROVE  Explained(x)'
    <2>1. At(x, "posting")' /\ job'[x].active = active /\ job'[x].count = count
      BY <1>6 DEF At, Job
    <2>2. Counted(count) /\ (~active => failed >= MaxFailures)
      BY DEF EndpointExplained
    <2> QED BY <1>0, <1>1, <2>1, <2>2 DEF Explained, At
  <1>7. ASSUME NEW m \in Messages, Queue(m) \/ BecomeDue(m) PROVE EndpointExplained'
    BY <1>5, <1>7 DEF Queue, BecomeDue
  <1>8. ASSUME NEW w \in Workers, Take(w) PROVE EndpointExplained'
    <2>1. /\ UNCHANGED <<active, count>> /\ OthersStay(w) /\ w \in Deliverers
          /\ (\E m : job'[w] = Job("posting", m, active, count, FALSE)) \/ job' = job
      BY <1>8, Taken DEF Deliverers
    <2> QED BY <1>4, <1>5, <1>6, <2>1
  <1>9. ASSUME NEW x \in Deliverers, Post(x) PROVE EndpointExplained'
    <2>1. PICK ok \in BOOLEAN :
            /\ job'[x] = Job("saving", job[x].message, job[x].active, job[x].count, ok)
            /\ failed' = (IF ok THEN failed ELSE Count(failed))
      BY <1>9, Posted
    <2>2. Counted(job[x].count) /\ (~job[x].active => failed >= MaxFailures) /\ job[x].count \in Nat
      BY <1>9, Posted, JobIs DEF EndpointExplained, Explained, At
    <2>3. ASSUME ~ok PROVE job[x].count + 1 <= failed' \/ failed' >= MaxFailures
      <3>1. failed' = failed + 1 \/ failed' = Enough
        BY <1>0, <2>1, <2>3, Counting
      <3>2. job[x].count <= failed \/ failed >= MaxFailures
        BY <2>2 DEF Counted
      <3> QED BY <1>0, <2>2, <3>1, <3>2, Counting
    <2>4. /\ job'[x].at = "saving" /\ job'[x].active = job[x].active
          /\ job'[x].count = job[x].count /\ job'[x].ok = ok
      BY <2>1 DEF Job
    <2>5. Explained(x)'
      BY <1>0, <2>2, <2>3, <2>4 DEF Explained, At, Counted
    <2>6. UNCHANGED <<active, count>> /\ OthersStay(x)
      BY <1>9, Posted
    <2> QED BY <1>4, <2>5, <2>6
  <1>10. ASSUME NEW x \in Deliverers, Save(x) PROVE EndpointExplained'
    <2>1. At(x, "saving") /\ OthersStay(x) /\ failed' = failed
      BY <1>10, Saved
    <2>2. CASE job'[x] = NoJob /\ UNCHANGED <<count, active>>
      BY <1>3, <1>4, <2>1, <2>2
    <2>3. CASE /\ count' = NewCount(x)
               /\ active' = (IF job[x].ok THEN active ELSE StaysOn(x))
               /\ job'[x] = Job("logging", job[x].message, StaysOn(x), 0, job[x].ok)
      <3>1. /\ ~job[x].active => failed >= MaxFailures
            /\ ~job[x].ok => Counted(job[x].count + 1)
            /\ job[x].count \in Nat
        BY <2>1, JobIs DEF EndpointExplained, Explained, At
      <3>2. Counted(NewCount(x)) /\ NewCount(x) \in Nat
        BY <1>0, <3>1 DEF NewCount, Counted
      <3>3. ~StaysOn(x) => failed >= MaxFailures
        BY <1>0, <3>1, <3>2 DEF StaysOn, NewCount, TooMany, Counted
      <3>4. Counted(count)' /\ (~active' => failed' >= MaxFailures)
        <4>1. ~active => failed >= MaxFailures
          BY DEF EndpointExplained
        <4> QED BY <2>1, <2>3, <3>2, <3>3, <4>1 DEF Counted
      <3>5. job'[x].at = "logging" /\ job'[x].active = StaysOn(x)
        BY <2>3 DEF Job
      <3>6. Explained(x)'
        BY <2>1, <3>3, <3>5 DEF Explained, At
      <3>7. \A y \in Deliverers : Explained(y)'
        BY <1>2, <2>1, <3>6 DEF OthersStay
      <3> QED BY <3>4, <3>7 DEF EndpointExplained
    <2> QED BY <1>10, <2>2, <2>3, Saved
  <1>11. ASSUME NEW x \in Deliverers, Log(x) PROVE EndpointExplained'
    BY <1>3, <1>4, <1>11, Logged
  <1>12. ASSUME NEW w \in Workers, Crash(w) PROVE EndpointExplained'
    BY <1>3, <1>4, <1>12, Crashed DEF Deliverers
  <1>13. ASSUME NEW a \in Admins, DeliverOnce(a) PROVE EndpointExplained'
    BY <1>4, <1>6, <1>13, DeliveredOnce DEF Deliverers
  <1>14. CASE Recover \/ Delete
    BY <1>5, <1>14 DEF Recover, Delete
  <1>15. CASE UNCHANGED vars
    BY <1>5, <1>15 DEF vars
  <1> QED BY <1>7, <1>8, <1>9, <1>10, <1>11, <1>12, <1>13, <1>14, <1>15
          DEF Next, Deliver, Deliverers

LEMMA InOneDeliveryStep == Types /\ InOneDelivery /\ [Next]_vars => InOneDelivery'
  <1> SUFFICES ASSUME Types, InOneDelivery, [Next]_vars PROVE InOneDelivery'
    OBVIOUS
  <1> USE DEF row
  <1>0. NoMessage \notin Messages /\ NoJob.message = NoMessage /\ NoJob.at = "idle"
    BY DeliveryAssumption DEF NoJob
  (* Delivering goes on, and no message but one that is in no delivery.    *)
  <1>1. ASSUME \A x \in Deliverers : job'[x].message = job[x].message /\ (job'[x].at = "idle" <=> job[x].at = "idle"),
               \A m \in Messages : message[m] = "taken" => message'[m] = "taken"
        PROVE  InOneDelivery'
    <2>1. \A x \in Deliverers : job[x].message # NoMessage => job[x].message \in Messages
      BY JobIs
    <2> QED BY <1>1, <2>1 DEF InOneDelivery, At
  <1>2. ASSUME NEW x \in Deliverers, OthersStay(x), job'[x] = NoJob,
               \A m \in Messages : m # job[x].message => message'[m] = message[m]
        PROVE  InOneDelivery'
    <2>1. job'[x].message = NoMessage
      BY <1>0, <1>2
    <2>2. \A y \in Deliverers : job'[y].message # NoMessage =>
             y # x /\ job'[y] = job[y] /\ job[y].message \in Messages
      BY <1>2, <2>1, JobIs DEF OthersStay
    <2> QED BY <1>2, <2>1, <2>2 DEF InOneDelivery, At
  <1>3. ASSUME NEW m \in Messages, Queue(m) \/ BecomeDue(m) PROVE InOneDelivery'
    <2>1. message[m] # "taken" /\ message' = [message EXCEPT ![m] = "queued"] /\ job' = job
      BY <1>3 DEF Queue, BecomeDue, Waiting
    <2> QED BY <1>1, <2>1 DEF Types
  <1>4. ASSUME NEW w \in Workers, Take(w) PROVE InOneDelivery'
    <2>1. At(w, "idle") /\ OthersStay(w) /\ w \in Deliverers
      BY <1>4, Taken DEF Deliverers
    <2>2. PICK m \in Messages :
            /\ message[m] = "queued"
            /\ \/ /\ message' = [message EXCEPT ![m] = "taken"]
                  /\ job'[w] = Job("posting", m, active, count, FALSE)
               \/ message' = [message EXCEPT ![m] = "refused"] /\ job' = job
      BY <1>4, Taken
    <2>3. CASE message' = [message EXCEPT ![m] = "refused"] /\ job' = job
      BY <1>1, <2>2, <2>3 DEF Types
    <2>4. CASE /\ message' = [message EXCEPT ![m] = "taken"]
               /\ job'[w] = Job("posting", m, active, count, FALSE)
      <3>1. job'[w].message = m /\ job'[w].at = "posting"
        BY <2>4 DEF Job
      <3>2. \A y \in Deliverers : job[y].message # m
        BY <1>0, <2>2 DEF InOneDelivery
      <3>3. message'[m] = "taken" /\ \A k \in Messages \ {m} : message'[k] = message[k]
        BY <2>4 DEF Types
      <3>4. \A y \in Deliverers : job[y].message # NoMessage => job[y].message \in Messages
        BY JobIs
      <3> QED BY <2>1, <3>1, <3>2, <3>3, <3>4 DEF InOneDelivery, At, OthersStay
    <2> QED BY <2>2, <2>3, <2>4
  <1>5. ASSUME NEW x \in Deliverers, Post(x) PROVE InOneDelivery'
    <2>1. /\ OthersStay(x) /\ At(x, "posting") /\ message' = message
          /\ \E ok : job'[x] = Job("saving", job[x].message, job[x].active, job[x].count, ok)
      BY <1>5, Posted
    <2>2. job'[x].message = job[x].message /\ job'[x].at = "saving"
      BY <2>1 DEF Job
    <2> QED BY <1>1, <2>1, <2>2 DEF OthersStay, At
  <1>6. ASSUME NEW x \in Deliverers, Save(x) PROVE InOneDelivery'
    <2>1. OthersStay(x) /\ At(x, "saving")
      BY <1>6, Saved
    <2>2. CASE job'[x] = NoJob /\ Close(x, "lost")
      <3>1. \A m \in Messages : m # job[x].message => message'[m] = message[m]
        BY <2>2, Closed
      <3> QED BY <1>2, <2>1, <2>2, <3>1
    <2>3. CASE /\ message' = message
               /\ job'[x] = Job("logging", job[x].message, StaysOn(x), 0, job[x].ok)
      <3>1. job'[x].message = job[x].message /\ job'[x].at = "logging"
        BY <2>3 DEF Job
      <3> QED BY <1>1, <2>1, <2>3, <3>1 DEF OthersStay, At
    <2> QED BY <1>6, <2>2, <2>3, Saved
  <1>7. ASSUME NEW x \in Deliverers, Log(x) PROVE InOneDelivery'
    <2>1. OthersStay(x) /\ job'[x] = NoJob
      BY <1>7, Logged
    <2>2. \A m \in Messages : m # job[x].message => message'[m] = message[m]
      <3>1. CASE Close(x, "lost")
        BY <3>1, Closed
      <3>2. CASE message' = message
        BY <3>2
      <3>3. CASE job[x].message # NoMessage /\ Settle(job[x].message, job[x].ok, job[x].active)
        <4>1. job[x].message \in Messages /\ job[x].ok \in BOOLEAN /\ job[x].active \in BOOLEAN
          BY <3>3, JobIs
        <4>2. message' = [message EXCEPT ![job[x].message] = message'[job[x].message]]
          BY <3>3, <4>1, Settles
        <4> QED BY <4>2 DEF Types
      <3> QED BY <1>7, <3>1, <3>2, <3>3, Logged
    <2> QED BY <1>2, <2>1, <2>2
  <1>8. ASSUME NEW w \in Workers, Crash(w) PROVE InOneDelivery'
    <2>1. w \in Deliverers /\ OthersStay(w) /\ job'[w] = NoJob /\ Close(w, "lost")
      BY <1>8, Crashed DEF Deliverers
    <2>2. \A m \in Messages : m # job[w].message => message'[m] = message[m]
      BY <2>1, Closed
    <2> QED BY <1>2, <2>1, <2>2
  <1>9. ASSUME NEW a \in Admins, DeliverOnce(a) PROVE InOneDelivery'
    <2>1. /\ a \in Deliverers /\ OthersStay(a) /\ message' = message
          /\ job'[a] = Job("posting", NoMessage, active, count, FALSE)
      BY <1>9, DeliveredOnce DEF Deliverers
    <2>2. job'[a].message = NoMessage
      BY <2>1 DEF Job
    <2>3. \A y \in Deliverers : job'[y].message # NoMessage => y # a /\ job'[y] = job[y]
      BY <2>1, <2>2 DEF OthersStay
    <2> QED BY <2>1, <2>2, <2>3 DEF InOneDelivery, At
  <1>10. CASE Recover \/ Delete
    BY <1>1, <1>10 DEF Recover, Delete
  <1>11. CASE UNCHANGED vars
    BY <1>1, <1>11 DEF vars
  <1> QED BY <1>3, <1>4, <1>5, <1>6, <1>7, <1>8, <1>9, <1>10, <1>11 DEF Next, Deliver, Deliverers

(* Of a delivery, what PostsAreReal says.                                  *)
Real(x) ==
    (At(x, "saving") \/ At(x, "logging")) /\ job[x].message # NoMessage =>
        IF job[x].ok THEN job[x].message \in received ELSE tries[job[x].message] < failed

LEMMA PostsAreRealStep ==
  Types /\ InOneDelivery /\ PostsAreReal /\ [Next]_vars => PostsAreReal'
  <1> SUFFICES ASSUME Types, InOneDelivery, PostsAreReal, [Next]_vars PROVE PostsAreReal'
    OBVIOUS
  <1> USE DEF row
  <1>0. /\ failed' \in Nat /\ failed' >= failed /\ failed \in Nat /\ failed \in 0..Enough
        /\ received \subseteq received' /\ MaxRetries \in Nat
        /\ \A m \in Messages : tries[m] \in 0..MaxRetries /\ tries[m] \in Nat
    BY StepsAreOnward, Counting DEF Types, Onward
  <1>1. /\ \A m \in Messages : tries[m] <= failed
        /\ \A x \in Deliverers : Real(x)
    BY DEF PostsAreReal, Real
  <1>2. ASSUME NEW x \in Deliverers, job'[x] = job[x],
               job[x].message # NoMessage => tries'[job[x].message] = tries[job[x].message]
        PROVE  Real(x)'
    <2>1. Real(x) /\ job[x].message \in Messages \cup {NoMessage}
      BY <1>1, JobIs
    <2>2. job[x].message # NoMessage => tries[job[x].message] \in Nat
      BY <1>0, <2>1
    <2> QED BY <1>0, <1>2, <2>1, <2>2 DEF Real, At
  <1>3. ASSUME UNCHANGED tries, NEW x \in Deliverers, OthersStay(x), Real(x)'
        PROVE  PostsAreReal'
    <2>1. \A y \in Deliverers : Real(y)'
      BY <1>2, <1>3 DEF OthersStay
    <2>2. \A m \in Messages : tries'[m] <= failed'
      BY <1>0, <1>1, <1>3
    <2> QED BY <2>1, <2>2 DEF PostsAreReal, Real
  <1>4. ASSUME UNCHANGED <<tries, job>> PROVE PostsAreReal'
    <2>1. \A y \in Deliverers : Real(y)'
      BY <1>2, <1>4
    <2>2. \A m \in Messages : tries'[m] <= failed'
      BY <1>0, <1>1, <1>4
    <2> QED BY <2>1, <2>2 DEF PostsAreReal, Real
  <1>5. ASSUME NEW x \in Deliverers, job'[x].at \in {"idle", "posting"} PROVE Real(x)'
    BY <1>5 DEF Real, At
  <1>6. NoJob.at = "idle"
    BY DEF NoJob
  <1>7. ASSUME NEW m \in Messages, Queue(m) \/ BecomeDue(m) PROVE PostsAreReal'
    BY <1>4, <1>7 DEF Queue, BecomeDue
  <1>8. ASSUME NEW w \in Workers, Take(w) PROVE PostsAreReal'
    <2>1. /\ UNCHANGED tries /\ OthersStay(w) /\ w \in Deliverers
          /\ (\E m : job'[w] = Job("posting", m, active, count, FALSE)) \/ job' = job
      BY <1>8, Taken DEF Deliverers
    <2>2. CASE \E m : job'[w] = Job("posting", m, active, count, FALSE)
      <3>1. job'[w].at = "posting"
        BY <2>2 DEF Job
      <3> QED BY <1>3, <1>5, <2>1, <3>1
    <2> QED BY <1>4, <2>1, <2>2
  <1>9. ASSUME NEW x \in Deliverers, Post(x) PROVE PostsAreReal'
    <2>1. PICK ok \in BOOLEAN :
            /\ job'[x] = Job("saving", job[x].message, job[x].active, job[x].count, ok)
            /\ failed' = (IF ok THEN failed ELSE Count(failed))
            /\ ok /\ job[x].message \in Messages => job[x].message \in received'
      BY <1>9, Posted
    <2>2. job'[x].message = job[x].message /\ job'[x].ok = ok
      BY <2>1 DEF Job
    <2>3. job[x].message \in Messages \cup {NoMessage} /\ UNCHANGED tries /\ OthersStay(x)
      BY <1>9, JobIs, Posted
    <2>4. ASSUME ~ok, job[x].message # NoMessage PROVE tries[job[x].message] < failed'
      <3>1. /\ tries[job[x].message] <= failed /\ tries[job[x].message] \in 0..MaxRetries
        BY <1>0, <1>1, <2>3, <2>4
      <3>2. failed' = failed + 1 \/ failed' = Enough
        BY <1>0, <2>1, <2>4, Counting
      <3> QED BY <1>0, <3>1, <3>2, Counting
    <2>5. Real(x)'
      BY <2>1, <2>2, <2>3, <2>4 DEF Real
    <2> QED BY <1>3, <2>3, <2>5
  <1>10. ASSUME NEW x \in Deliverers, Save(x) PROVE PostsAreReal'
    <2>1. OthersStay(x) /\ At(x, "saving") /\ UNCHANGED <<tries, received, failed>>
      BY <1>10, Saved
    <2>2. CASE job'[x] = NoJob
      BY <1>3, <1>5, <1>6, <2>1, <2>2
    <2>3. CASE job'[x] = Job("logging", job[x].message, StaysOn(x), 0, job[x].ok)
      <3>1. job'[x].message = job[x].message /\ job'[x].ok = job[x].ok
        BY <2>3 DEF Job
      <3>2. Real(x)'
        BY <1>1, <2>1, <3>1 DEF Real
      <3> QED BY <1>3, <2>1, <3>2
    <2> QED BY <1>10, <2>2, <2>3, Saved
  <1>11. ASSUME NEW x \in Deliverers, Log(x) PROVE PostsAreReal'
    <2>1. OthersStay(x) /\ job'[x] = NoJob /\ At(x, "logging") /\ UNCHANGED failed
      BY <1>11, Logged
    <2>2. CASE UNCHANGED tries
      BY <1>3, <1>5, <1>6, <2>1, <2>2
    <2>3. CASE job[x].message # NoMessage /\ Settle(job[x].message, job[x].ok, job[x].active)
      <3> DEFINE m == job[x].message
      <3>1. m \in Messages /\ m # NoMessage /\ job[x].ok \in BOOLEAN /\ job[x].active \in BOOLEAN
        BY <2>3, JobIs
      <3>2. tries' = [tries EXCEPT ![m] = tries'[m]]
            /\ (tries'[m] = tries[m] \/ (~job[x].ok /\ tries'[m] = tries[m] + 1))
        BY <2>3, <3>1, Settles
      <3>3. ~job[x].ok => tries[m] < failed
        BY <1>1, <2>1, <3>1 DEF Real
      <3> HIDE DEF m
      <3>4. \A k \in Messages : k # m => tries'[k] = tries[k]
        BY <3>2 DEF Types
      <3>5. tries'[m] <= failed
        BY <1>0, <1>1, <3>1, <3>2, <3>3
      <3>6. \A k \in Messages : tries'[k] <= failed'
        BY <1>1, <2>1, <3>4, <3>5
      <3>7. ASSUME NEW y \in Deliverers, y # x PROVE Real(y)'
        <4>1. job'[y] = job[y] /\ job[y].message \in Messages \cup {NoMessage}
          BY <2>1, <3>7, JobIs DEF OthersStay
        <4>2. job[y].message # NoMessage => job[y].message # m
          BY <3>1, <3>7 DEF InOneDelivery, m
        <4> QED BY <1>2, <3>4, <4>1, <4>2
      <3>8. Real(x)'
        BY <1>5, <1>6, <2>1
      <3>9. \A y \in Deliverers : Real(y)'
        BY <3>7, <3>8
      <3> QED BY <3>6, <3>9 DEF PostsAreReal, Real
    <2> QED BY <1>11, <2>2, <2>3, Logged
  <1>12. ASSUME NEW w \in Workers, Crash(w) PROVE PostsAreReal'
    BY <1>3, <1>5, <1>6, <1>12, Crashed DEF Deliverers
  <1>13. ASSUME NEW a \in Admins, DeliverOnce(a) PROVE PostsAreReal'
    <2>1. /\ a \in Deliverers /\ OthersStay(a) /\ UNCHANGED tries
          /\ job'[a] = Job("posting", NoMessage, active, count, FALSE)
      BY <1>13, DeliveredOnce DEF Deliverers
    <2>2. job'[a].at = "posting"
      BY <2>1 DEF Job
    <2> QED BY <1>3, <1>5, <2>1, <2>2
  <1>14. CASE Recover \/ Delete
    BY <1>4, <1>14 DEF Recover, Delete
  <1>15. CASE UNCHANGED vars
    BY <1>4, <1>15 DEF vars
  <1> QED BY <1>7, <1>8, <1>9, <1>10, <1>11, <1>12, <1>13, <1>14, <1>15
          DEF Next, Deliver, Deliverers

LEMMA AccountedStep ==
  Types /\ EndpointExplained /\ InOneDelivery /\ PostsAreReal /\ Accounted /\ [Next]_vars
    => Accounted'
  <1> SUFFICES ASSUME Types, EndpointExplained, InOneDelivery, PostsAreReal, Accounted, [Next]_vars
               PROVE  Accounted'
    OBVIOUS
  <1> USE DEF row
  <1>0. /\ Onward /\ failed \in Nat /\ MaxRetries \in Nat /\ MaxFailures \in Nat
        /\ NoMessage \notin Messages
    BY StepsAreOnward, Counting, DeliveryAssumption DEF Types
  <1>1. ASSUME NEW m \in Messages, message'[m] = message[m], logged'[m] = logged[m],
               tries'[m] = tries[m]
        PROVE  Settled(m)'
    <2>1. Settled(m)
      BY DEF Accounted
    <2> QED BY <1>0, <1>1, <2>1 DEF Settled, Onward
  (* Not ended before, and not ended now.                                  *)
  <1>2. ASSUME NEW m \in Messages, message[m] \notin Ends, logged'[m] = logged[m],
               tries'[m] = tries[m], message'[m] \in {"queued", "taken"}
        PROVE  Settled(m)'
    BY <1>2 DEF Settled, Accounted, Ends
  <1>3. ASSUME NEW m \in Messages, \/ message'[m] = "lost" /\ (~present' \/ crashes' > 0)
                                   \/ message'[m] = "refused" /\ (~present' \/ failed' >= MaxFailures)
        PROVE  Settled(m)'
    BY <1>3 DEF Settled, Ends
  <1>4. ASSUME UNCHANGED <<message, tries, logged>> PROVE Accounted'
    BY <1>1, <1>4 DEF Accounted
  <1>5. ASSUME NEW x \in Deliverers, Close(x, "lost"), ~present' \/ crashes' > 0,
               UNCHANGED <<tries, logged>>
        PROVE  Accounted'
    <2> SUFFICES ASSUME NEW m \in Messages PROVE Settled(m)'
      BY DEF Accounted
    <2>1. message'[m] = "lost" \/ message'[m] = message[m]
      BY <1>5, Closed
    <2> QED BY <1>1, <1>3, <1>5, <2>1
  <1>6. ASSUME NEW m \in Messages, Queue(m) \/ BecomeDue(m) PROVE Accounted'
    <2>1. message' = [message EXCEPT ![m] = "queued"] /\ message[m] \in {"none", "waiting"}
          /\ UNCHANGED <<tries, logged>>
      BY <1>6 DEF Queue, BecomeDue, Waiting
    <2>2. message'[m] = "queued" /\ message[m] \notin Ends
          /\ \A k \in Messages \ {m} : message'[k] = message[k]
      BY <2>1 DEF Types, Ends
    <2> QED BY <1>1, <1>2, <2>1, <2>2 DEF Accounted
  <1>7. ASSUME NEW w \in Workers, Take(w) PROVE Accounted'
    <2>1. UNCHANGED <<tries, logged, present, failed>>
      BY <1>7, Taken
    <2>2. PICK m \in Messages :
            /\ message[m] = "queued"
            /\ \/ message' = [message EXCEPT ![m] = "taken"]
               \/ ~(present /\ active) /\ message' = [message EXCEPT ![m] = "refused"]
      BY <1>7, Taken
    <2>3. \A k \in Messages \ {m} : message'[k] = message[k]
      BY <2>2 DEF Types
    <2>4. Settled(m)'
      <3>1. CASE message' = [message EXCEPT ![m] = "taken"]
        <4>1. message'[m] = "taken" /\ message[m] \notin Ends
          BY <2>2, <3>1 DEF Types, Ends
        <4> QED BY <1>2, <2>1, <4>1
      <3>2. CASE ~(present /\ active) /\ message' = [message EXCEPT ![m] = "refused"]
        <4>1. message'[m] = "refused"
          BY <3>2 DEF Types
        <4>2. ~present \/ failed >= MaxFailures
          BY <3>2 DEF EndpointExplained
        <4> QED BY <1>3, <2>1, <4>1, <4>2
      <3> QED BY <2>2, <3>1, <3>2
    <2> QED BY <1>1, <2>1, <2>3, <2>4 DEF Accounted
  <1>8. ASSUME NEW x \in Deliverers, Post(x) PROVE Accounted'
    BY <1>4, <1>8, Posted
  <1>9. ASSUME NEW x \in Deliverers, Save(x) PROVE Accounted'
    BY <1>4, <1>5, <1>9, Saved
  <1>10. ASSUME NEW x \in Deliverers, Log(x) PROVE Accounted'
    <2>1. At(x, "logging") /\ UNCHANGED <<row, received, failed>>
      BY <1>10, Logged
    <2>2. CASE ~present /\ Close(x, "lost") /\ UNCHANGED <<tries, logged>>
      BY <1>5, <2>1, <2>2
    <2>3. CASE UNCHANGED <<message, tries, logged>>
      BY <1>4, <2>3
    <2>4. CASE /\ job[x].message # NoMessage
               /\ Settle(job[x].message, job[x].ok, job[x].active)
               /\ logged' = [logged EXCEPT ![job[x].message] = Count(@)]
      <3>0. PICK m \in Messages : m = job[x].message
        BY <2>4, JobIs
      <3>1. m \in Messages /\ job[x].ok \in BOOLEAN /\ job[x].active \in BOOLEAN
        BY JobIs
      <3>2. /\ message' = [message EXCEPT ![m] = message'[m]] /\ tries' = [tries EXCEPT ![m] = tries'[m]]
            /\ logged' = [logged EXCEPT ![m] = Count(logged[m])]
        BY <2>4, <3>0, <3>1, Settles
      <3>3. \/ job[x].ok /\ message'[m] = "delivered" /\ tries'[m] = tries[m]
            \/ ~job[x].ok /\ message'[m] = "exhausted" /\ tries[m] = MaxRetries /\ tries'[m] = tries[m]
            \/ ~job[x].active /\ message'[m] = "refused"
            \/ message'[m] = "waiting" /\ tries'[m] = tries[m] + 1
        BY <2>4, <3>0, <3>1, Settles
      <3>4. job[x].ok => m \in received
        BY <2>1, <2>4, <3>0 DEF PostsAreReal
      <3>5. ~job[x].ok => tries[m] < failed
        BY <2>1, <2>4, <3>0 DEF PostsAreReal
      <3>6. ~job[x].active => failed >= MaxFailures
        BY <2>1 DEF EndpointExplained, Explained, At
      <3>7. message[m] = "taken"
        BY <2>4, <3>0 DEF InOneDelivery
      <3>8. logged[m] = tries[m] /\ tries[m] \in 0..MaxRetries
        BY <3>1, <3>7 DEF Accounted, Settled, Ends, Types
      <3>9. logged'[m] = tries[m] + 1
        <4>1. Count(logged[m]) = tries[m] + 1
          BY <1>0, <3>8, Counting DEF Count
        <4> QED BY <3>1, <3>2, <4>1 DEF Types
      <3>10. /\ \A k \in Messages \ {m} : message'[k] = message[k]
             /\ \A k \in Messages \ {m} : tries'[k] = tries[k] /\ logged'[k] = logged[k]
        BY <3>2 DEF Types
      <3>11. Settled(m)'
        <4>1. CASE job[x].ok /\ message'[m] = "delivered" /\ tries'[m] = tries[m]
          BY <2>1, <3>4, <3>9, <4>1 DEF Settled, Ends
        <4>2. CASE ~job[x].ok /\ message'[m] = "exhausted" /\ tries[m] = MaxRetries
                   /\ tries'[m] = tries[m]
          BY <1>0, <2>1, <3>5, <3>9, <4>2 DEF Settled, Ends
        <4>3. CASE ~job[x].active /\ message'[m] = "refused"
          BY <1>3, <2>1, <3>1, <3>6, <4>3
        <4>4. CASE message'[m] = "waiting" /\ tries'[m] = tries[m] + 1
          BY <3>9, <4>4 DEF Settled, Ends
        <4> QED BY <3>3, <4>1, <4>2, <4>3, <4>4
      <3> QED BY <1>1, <3>10, <3>11 DEF Accounted
    <2> QED BY <1>10, <2>2, <2>3, <2>4, Logged
  <1>11. ASSUME NEW w \in Workers, Crash(w) PROVE Accounted'
    <2>1. w \in Deliverers /\ Close(w, "lost") /\ UNCHANGED <<tries, logged>> /\ crashes' = crashes + 1
      BY <1>11, Crashed DEF Deliverers
    <2>2. crashes' > 0
      BY <2>1 DEF Types
    <2> QED BY <1>5, <2>1, <2>2
  <1>12. ASSUME NEW a \in Admins, DeliverOnce(a) PROVE Accounted'
    BY <1>4, <1>12, DeliveredOnce
  <1>13. CASE Recover \/ Delete
    BY <1>4, <1>13 DEF Recover, Delete
  <1>14. CASE UNCHANGED vars
    BY <1>4, <1>14 DEF vars
  <1> QED BY <1>6, <1>7, <1>8, <1>9, <1>10, <1>11, <1>12, <1>13, <1>14
          DEF Next, Deliver, Deliverers

-------------------------------------------------------------------------------
(* The theorem                                                             *)

(* EndsAreAccounted: an endpoint is disabled only after as many failed     *)
(* posts as the limit (deliver_webhook_sync saves counters it computed     *)
(* from stale reads), and a message ends undelivered only after all its    *)
(* logged attempts failed, for a disabled or deleted endpoint, or with a   *)
(* worker that died.                                                       *)
THEOREM EndsAreExplained == Spec => []EndsAreAccounted
  <1> DEFINE Inv == Types /\ EndpointExplained /\ InOneDelivery /\ PostsAreReal /\ Accounted
  <1>1. ASSUME Init PROVE Inv
    <2>1. /\ present = TRUE /\ active = TRUE /\ count = 0 /\ failed = 0 /\ crashes = 0
          /\ message = [m \in Messages |-> "none"] /\ tries = [m \in Messages |-> 0]
          /\ logged = [m \in Messages |-> 0] /\ job = [x \in Deliverers |-> NoJob]
      BY <1>1 DEF Init, Deliverers
    <2>2. NoJob \in Jobs /\ NoJob.at = "idle" /\ NoJob.message = NoMessage
      BY DEF NoJob, Jobs
    <2>3. Types
      BY <2>1, <2>2, Counting DEF Types
    <2>4. \A x \in Deliverers : job[x].at = "idle" /\ job[x].message = NoMessage
      BY <2>1, <2>2
    <2>5. \A m \in Messages : message[m] = "none" /\ tries[m] = 0 /\ logged[m] = 0
      BY <2>1
    <2>6. EndpointExplained
      BY <2>1, <2>4 DEF EndpointExplained, Explained, Counted, At
    <2>7. InOneDelivery /\ PostsAreReal
      BY <2>1, <2>4, <2>5 DEF InOneDelivery, PostsAreReal, At
    <2>8. Accounted
      BY <2>5 DEF Accounted, Settled
    <2> QED BY <2>3, <2>6, <2>7, <2>8
  <1>2. Inv /\ [Next]_vars => Inv'
    BY TypesStep, EndpointStep, InOneDeliveryStep, PostsAreRealStep, AccountedStep
  <1>3. Inv => EndsAreAccounted
    BY DEF EndpointExplained, Accounted, Settled, EndsAreAccounted
  <1> QED BY <1>1, <1>2, <1>3, PTL DEF Spec

-------------------------------------------------------------------------------
(* Sockets                                                                 *)

(* Events have numbers, wherever they are.                                 *)
IsBroadcast(b) ==
    /\ b = [event |-> b.event, task |-> b.task, left |-> b.left]
    /\ b.event \in Nat

FeedTypes ==
    /\ sent \in Nat
    /\ publisher = [p \in Publishers |-> publisher[p]]
    /\ \A p \in Publishers : IsBroadcast(publisher[p])
    /\ inbox \in [Sockets -> Seq(Nat)]
    /\ seen \in [Sockets -> Seq(Nat)] /\ shown \in [Sockets -> Seq(Nat)]

(* The memory is the end of what the client got, of all if it is not full, *)
(* and no copy came before the window had moved on.                        *)
MemoryOf(memory, past) ==
    /\ Len(memory) <= Len(past) /\ Len(memory) <= Window
    /\ Len(memory) < Window => Len(memory) = Len(past)
    /\ \A i \in 1..Len(memory) : memory[i] = past[Len(past) - Len(memory) + i]

Spaced(past) ==
    \A i, j \in 1..Len(past) : i < j /\ past[i] = past[j] => j - i > Window

LEMMA MemoryTakesIn ==
  ASSUME Window \in Nat \ {0}, NEW memory \in Seq(Nat), NEW past \in Seq(Nat), NEW e \in Nat,
         MemoryOf(memory, past), Spaced(past), \A i \in 1..Len(memory) : memory[i] # e
  PROVE  LET kept == IF Len(memory) = Window THEN Tail(memory) ELSE memory IN
         /\ Append(kept, e) \in Seq(Nat) /\ Append(past, e) \in Seq(Nat)
         /\ MemoryOf(Append(kept, e), Append(past, e)) /\ Spaced(Append(past, e))
  <1> DEFINE kept == IF Len(memory) = Window THEN Tail(memory) ELSE memory
             k == Len(kept)
             n == Len(past)
             m == Len(memory)
  <1>1. m \in Nat /\ n \in Nat /\ m <= n /\ m <= Window /\ (m < Window => m = n)
    BY DEF MemoryOf
  <1>2. /\ kept \in Seq(Nat) /\ k \in Nat /\ k = (IF m = Window THEN m - 1 ELSE m)
        /\ \A i \in 1..k : kept[i] = memory[m - k + i]
    <2>1. CASE m = Window
      <3>1. memory # <<>>
        BY <2>1
      <3>2. /\ Tail(memory) \in Seq(Nat) /\ Len(Tail(memory)) = m - 1
            /\ \A i \in 1..(m - 1) : Tail(memory)[i] = memory[i + 1]
        BY <3>1, HeadTailProperties
      <3> QED BY <1>1, <2>1, <3>2
    <2>2. CASE m # Window
      <3>1. kept = memory
        BY <2>2
      <3> HIDE DEF kept
      <3>2. k = m
        BY <3>1
      <3> HIDE DEF k, m
      <3> QED BY <1>1, <2>2, <3>1, <3>2
    <2> QED BY <2>1, <2>2
  <1>3. /\ Append(past, e) \in Seq(Nat) /\ Len(Append(past, e)) = n + 1
        /\ Append(past, e)[n + 1] = e /\ \A i \in 1..n : Append(past, e)[i] = past[i]
    BY AppendProperties
  <1> HIDE DEF kept, k
  <1>4. /\ Append(kept, e) \in Seq(Nat) /\ Len(Append(kept, e)) = k + 1
        /\ Append(kept, e)[k + 1] = e /\ \A i \in 1..k : Append(kept, e)[i] = kept[i]
    <2>1. kept \in Seq(Nat)
      BY <1>2
    <2> QED BY <2>1, AppendProperties DEF k
  <1>5. \A i \in 1..m : memory[i] = past[n - m + i]
    BY DEF MemoryOf
  <1>6. MemoryOf(Append(kept, e), Append(past, e))
    <2> DEFINE a == Append(kept, e)
               b == Append(past, e)
    <2>1. Len(a) = k + 1 /\ Len(b) = n + 1
      BY <1>3, <1>4
    <2>2. k + 1 <= n + 1 /\ k + 1 <= Window /\ (k + 1 < Window => k + 1 = n + 1)
      BY <1>1, <1>2
    <2>3. ASSUME NEW i \in 1..(k + 1) PROVE a[i] = b[(n + 1) - (k + 1) + i]
      <3>1. CASE i = k + 1
        <4>1. (n + 1) - (k + 1) + i = n + 1
          <5> HIDE DEF k, n, m
          <5> QED BY <1>1, <1>2, <3>1
        <4> QED BY <1>3, <1>4, <3>1, <4>1
      <3>2. CASE i # k + 1
        <4>1. i \in 1..k /\ m - k + i \in 1..m /\ n - k + i \in 1..n
              /\ n - m + (m - k + i) = n - k + i /\ (n + 1) - (k + 1) + i = n - k + i
          <5> HIDE DEF k, n, m
          <5> QED BY <1>1, <1>2, <3>2
        <4>2. a[i] = memory[m - k + i]
          BY <1>2, <1>4, <4>1
        <4>3. memory[m - k + i] = past[n - k + i]
          BY <1>5, <4>1
        <4>4. b[n - k + i] = past[n - k + i]
          BY <1>3, <4>1
        <4> QED BY <4>1, <4>2, <4>3, <4>4
      <3> QED BY <3>1, <3>2
    <2> HIDE DEF a, b
    <2>4. MemoryOf(a, b)
      BY <2>1, <2>2, <2>3 DEF MemoryOf
    <2> QED BY <2>4 DEF a, b
  <1>7. Spaced(Append(past, e))
    <2> DEFINE b == Append(past, e)
    <2> SUFFICES ASSUME NEW i \in 1..(n + 1), NEW j \in 1..(n + 1), i < j, b[i] = b[j]
                 PROVE  j - i > Window
      BY <1>3 DEF Spaced
    <2>1. CASE j = n + 1
      <3>1. i \in 1..n /\ b[i] = e
        BY <1>1, <1>3, <2>1
      <3>2. past[i] = e
        BY <1>3, <3>1
      <3>3. ~(i > n - m)
        <4> SUFFICES ASSUME i > n - m PROVE FALSE
          OBVIOUS
        <4>1. i - (n - m) \in 1..m /\ n - m + (i - (n - m)) = i
          BY <1>1, <3>1
        <4>2. memory[i - (n - m)] = e
          BY <1>5, <3>2, <4>1
        <4> QED BY <4>1, <4>2
      <3>4. m = Window
        BY <1>1, <3>1, <3>3
      <3> QED BY <1>1, <2>1, <3>1, <3>3, <3>4
    <2>2. CASE j # n + 1
      <3>1. i \in 1..n /\ j \in 1..n
        <4> HIDE DEF n, m, b
        <4> QED BY <1>1, <2>2
      <3>2. past[i] = past[j]
        BY <1>3, <3>1
      <3> QED BY <3>1, <3>2 DEF Spaced
    <2> QED BY <2>1, <2>2
  <1> QED BY <1>3, <1>4, <1>6, <1>7 DEF kept

Remembered ==
    /\ FeedTypes
    /\ \A s \in Sockets : MemoryOf(seen[s], shown[s]) /\ Spaced(shown[s])

LEMMA RememberedInit == ASSUME Window \in Nat \ {0} PROVE SocketsInit => Remembered
  <1> SUFFICES ASSUME SocketsInit PROVE Remembered
    OBVIOUS
  <1>1. <<>> \in Seq(Nat) /\ Len(<<>>) = 0
    OBVIOUS
  <1>2. /\ sent = 0 /\ publisher = [p \in Publishers |-> Quiet]
        /\ inbox = [s \in Sockets |-> <<>>] /\ seen = [s \in Sockets |-> <<>>]
        /\ shown = [s \in Sockets |-> <<>>]
    BY DEF SocketsInit
  <1>3. IsBroadcast(Quiet)
    BY DEF IsBroadcast, Quiet
  <1>4. FeedTypes
    BY <1>1, <1>2, <1>3 DEF FeedTypes
  <1>5. MemoryOf(<<>>, <<>>) /\ Spaced(<<>>)
    BY <1>1 DEF MemoryOf, Spaced
  <1> QED BY <1>2, <1>4, <1>5 DEF Remembered

(* Broadcasts, on their way into the channels.                             *)
LEMMA BroadcastsRemember ==
  ASSUME Remembered, NEW p \in Publishers, Publish(p) \/ Send(p) \/ GiveUp(p)
  PROVE  Remembered'
  <1>1. UNCHANGED <<seen, shown>>
    BY DEF Publish, Send, GiveUp, consumers
  <1>2. IsBroadcast(Quiet)
    BY DEF IsBroadcast, Quiet
  <1>3. ASSUME NEW b, IsBroadcast(b), publisher' = [publisher EXCEPT ![p] = b]
        PROVE  /\ publisher' = [q \in Publishers |-> publisher'[q]]
               /\ \A q \in Publishers : IsBroadcast(publisher'[q])
    BY <1>3 DEF Remembered, FeedTypes
  <1>4. CASE Publish(p)
    <2>1. PICK t : publisher' = [publisher EXCEPT ![p] = Broadcast(sent + 1, t)]
      BY <1>4 DEF Publish
    <2>2. sent' = sent + 1 /\ UNCHANGED inbox /\ sent \in Nat
      BY <1>4 DEF Publish, Remembered, FeedTypes
    <2>3. IsBroadcast(Broadcast(sent + 1, t))
      BY <2>2 DEF IsBroadcast, Broadcast
    <2>4. FeedTypes'
      BY <1>1, <1>3, <2>1, <2>2, <2>3 DEF Remembered, FeedTypes
    <2> QED BY <1>1, <2>4 DEF Remembered
  <1>5. CASE Send(p)
    <2> DEFINE b == publisher[p]
               receivers == groups[Head(b.left)]
    <2>1. /\ b = [event |-> b.event, task |-> b.task, left |-> b.left] /\ b.event \in Nat
          /\ UNCHANGED sent
          /\ inbox' = [s \in Sockets |-> IF s \in receivers /\ ~Full(s)
                                         THEN Append(inbox[s], b.event) ELSE inbox[s]]
          /\ publisher' = [publisher EXCEPT ![p] = After(p)]
      BY <1>5 DEF Send, broadcasts, Remembered, FeedTypes, IsBroadcast
    <2>2. IsBroadcast(After(p))
      <3> DEFINE r == [event |-> b.event, task |-> b.task, left |-> Tail(b.left)]
      <3>1. [b EXCEPT !.left = Tail(@)] = r
        <4> HIDE DEF b
        <4>1. PICK n, t, left : b = [event |-> n, task |-> t, left |-> left]
          BY <2>1
        <4>2. b.event = n /\ b.task = t /\ b.left = left
          BY <4>1
        <4>3. \A rest : [b EXCEPT !.left = rest] = [event |-> n, task |-> t, left |-> rest]
          BY <4>1
        <4> QED BY <4>2, <4>3, Zenon
      <3>2. IsBroadcast(r)
        BY <2>1 DEF IsBroadcast
      <3> HIDE DEF r
      <3> QED BY <1>2, <3>1, <3>2 DEF After
    <2>3. inbox' \in [Sockets -> Seq(Nat)]
      BY <2>1 DEF Remembered, FeedTypes
    <2>4. FeedTypes'
      BY <1>1, <1>3, <2>1, <2>2, <2>3 DEF Remembered, FeedTypes
    <2> QED BY <1>1, <2>4 DEF Remembered
  <1>6. CASE GiveUp(p)
    <2>1. publisher' = [publisher EXCEPT ![p] = Quiet] /\ UNCHANGED <<sent, inbox>>
      BY <1>6 DEF GiveUp
    <2>2. FeedTypes'
      BY <1>1, <1>2, <1>3, <2>1 DEF Remembered, FeedTypes
    <2> QED BY <1>1, <2>2 DEF Remembered
  <1> QED BY <1>4, <1>5, <1>6

(* A consumer takes an event from its channel.                             *)
LEMMA ReceivingRemembers ==
  ASSUME Window \in Nat \ {0}, Remembered, NEW s \in Sockets, Receive(s)
  PROVE  Remembered'
  <1> DEFINE e == Head(inbox[s])
             memory == seen[s]
             past == shown[s]
             kept == IF Len(memory) = Window THEN Tail(memory) ELSE memory
  <1>1. /\ inbox[s] # <<>> /\ inbox' = [inbox EXCEPT ![s] = Tail(@)] /\ UNCHANGED <<sent, publisher>>
        /\ inbox[s] \in Seq(Nat) /\ memory \in Seq(Nat) /\ past \in Seq(Nat)
        /\ MemoryOf(memory, past) /\ Spaced(past)
    BY DEF Receive, broadcasts, Remembered, FeedTypes
  <1>2. e \in Nat /\ Tail(inbox[s]) \in Seq(Nat)
    BY <1>1
  <1>3. inbox' \in [Sockets -> Seq(Nat)]
    BY <1>1, <1>2 DEF Remembered, FeedTypes
  <1>4. CASE IsNew(s, e)
    <2>1. \A i \in 1..Len(memory) : memory[i] # e
      BY <1>4 DEF IsNew, Contains
    <2>2. seen' = [seen EXCEPT ![s] = Append(kept, e)] /\ shown' = [shown EXCEPT ![s] = Append(past, e)]
      BY <1>4 DEF Receive, Remember
    <2> HIDE DEF e, memory, past
    <2>3. /\ Append(kept, e) \in Seq(Nat) /\ Append(past, e) \in Seq(Nat)
          /\ MemoryOf(Append(kept, e), Append(past, e)) /\ Spaced(Append(past, e))
      BY <1>1, <1>2, <2>1, MemoryTakesIn
    <2> HIDE DEF kept
    <2>4. seen' \in [Sockets -> Seq(Nat)] /\ shown' \in [Sockets -> Seq(Nat)]
      BY <2>2, <2>3 DEF Remembered, FeedTypes
    <2>5. /\ seen'[s] = Append(kept, e) /\ shown'[s] = Append(past, e)
          /\ \A z \in Sockets \ {s} : seen'[z] = seen[z] /\ shown'[z] = shown[z]
      BY <2>2 DEF Remembered, FeedTypes
    <2>6. \A z \in Sockets : MemoryOf(seen'[z], shown'[z]) /\ Spaced(shown'[z])
      BY <2>3, <2>5 DEF Remembered
    <2> QED BY <1>1, <1>3, <2>4, <2>6 DEF Remembered, FeedTypes
  <1>5. CASE ~IsNew(s, e)
    <2>1. UNCHANGED <<seen, shown>>
      BY <1>5 DEF Receive
    <2> QED BY <1>1, <1>3, <2>1 DEF Remembered, FeedTypes
  <1> QED BY <1>4, <1>5

LEMMA RememberedNext ==
  ASSUME Window \in Nat \ {0}
  PROVE  Remembered /\ [SocketsNext]_(socketVars) => Remembered'
  <1> SUFFICES ASSUME Remembered, [SocketsNext]_(socketVars) PROVE Remembered'
    OBVIOUS
  <1>1. ASSUME UNCHANGED <<sent, publisher, inbox, seen, shown>> PROVE Remembered'
    BY <1>1 DEF Remembered, FeedTypes
  <1>2. ASSUME NEW s \in Sockets, CloseSocket(s) PROVE Remembered'
    <2>1. inbox' = [inbox EXCEPT ![s] = <<>>] /\ UNCHANGED <<sent, publisher, seen, shown>>
      BY <1>2 DEF CloseSocket, broadcasts
    <2>2. <<>> \in Seq(Nat)
      OBVIOUS
    <2>3. inbox' \in [Sockets -> Seq(Nat)]
      BY <2>1, <2>2 DEF Remembered, FeedTypes
    <2> QED BY <2>1, <2>3 DEF Remembered, FeedTypes
  <1>3. ASSUME NEW s \in Sockets,
               \/ Connect(s) \/ JoinOrg(s) \/ JoinUser(s) \/ JoinTask(s)
               \/ AskTask(s) \/ LeaveTask(s) \/ Disconnect(s) \/ LeaveNext(s)
               \/ Die(s)
        PROVE  Remembered'
    <2>1. UNCHANGED <<sent, publisher, inbox, seen, shown>>
      BY <1>3 DEF Connect, JoinOrg, JoinUser, JoinTask, AskTask,
                  LeaveTask, Disconnect, LeaveNext, Die,
                  consumers, broadcasts
    <2> QED BY <1>1, <2>1
  <1>4. CASE UNCHANGED socketVars
    BY <1>1, <1>4 DEF socketVars
  <1> QED BY <1>2, <1>3, <1>4, BroadcastsRemember, ReceivingRemembers DEF SocketsNext, Serve

(* ShownOnce: whatever groups a socket joins and leaves, however many      *)
(* threads broadcast and whatever the layer loses, a client gets an event  *)
(* a second time only when as many others as the consumer remembers came   *)
(* between.                                                                *)
THEOREM EventsAreShownOnce ==
  ASSUME Window \in Nat \ {0}
  PROVE  SocketsSpec => []ShownOnce
  <1>1. SocketsInit => Remembered
    BY RememberedInit
  <1>2. Remembered /\ [SocketsNext]_(socketVars) => Remembered'
    BY RememberedNext
  <1>3. Remembered => ShownOnce
    <2> SUFFICES ASSUME Remembered, NEW s \in Sockets,
                        NEW i \in DOMAIN shown[s], NEW j \in DOMAIN shown[s],
                        i < j, shown[s][i] = shown[s][j]
                 PROVE  j - i > Window
      BY DEF ShownOnce
    <2>1. DOMAIN shown[s] = 1..Len(shown[s])
      BY DEF Remembered, FeedTypes
    <2> QED BY <2>1 DEF Remembered, Spaced
  <1> QED BY <1>1, <1>2, <1>3, PTL DEF SocketsSpec
===============================================================================
