-------------------------- MODULE OutboxRelay_proofs --------------------------
(***************************************************************************)
(* Proofs about OutboxRelay for any number of events, workers, endpoints,  *)
(* administrators, crashes and replays.                                    *)
(*                                                                         *)
(* Settled needs no assumption on time.  Exclusion, and with it the        *)
(* contract, needs that a drain ends before its claim does and that one    *)
(* administrator replays at a time.                                        *)
(***************************************************************************)
EXTENDS OutboxRelay, WellFoundedInduction, TLAPS

(* A drain works off its events by created_at: there is an earliest one.   *)
LEMMA EarliestExists ==
  ASSUME NEW events, events \subseteq Events, events # {}
  PROVE  Earliest(events) \in events
<1>1. events \subseteq Nat
  BY RelayAssumption
<1>2. PICK e \in events : \A f \in events : <<f, e>> \notin OpToRel(<, Nat)
  BY <1>1, NatLessThanWellFounded, WFMin
<1>3. ASSUME NEW f \in events PROVE e <= f
  <2>1. <<f, e>> \in Nat \X Nat
    BY <1>1
  <2>2. f < e => <<f, e>> \in OpToRel(<, Nat)
    BY <2>1 DEF OpToRel
  <2>3. ~(f < e)
    BY <1>2, <2>2, Zenon
  <2>4. e \in Nat /\ f \in Nat
    BY <1>1
  <2> QED BY <2>3, <2>4
<1> QED BY <1>3 DEF Earliest

-------------------------------------------------------------------------------
(* Types                                                                   *)

LEMMA NoJobType == NoJob \in Job
  BY DEF NoJob, Job

(* Init of the relay is well typed.                                        *)
LEMMA RelayTypeInit == Init => TypeOK
  BY NoJobType DEF Init, TypeOK, NoJob

(* A drain that is started (Start) has a well-formed job.                  *)
LEMMA StartType ==
  ASSUME TypeOK, NEW w \in Workers, NEW want \in SUBSET Events, Start(w, want)
  PROVE  TypeOK'
<1>1. [NoJob EXCEPT !.phase = "claim", !.want = want] \in Job
  BY DEF NoJob, Job
<1>2. /\ [NoJob EXCEPT !.phase = "claim", !.want = want].phase = "claim"
      /\ [NoJob EXCEPT !.phase = "claim", !.want = want].todo = {}
  BY DEF NoJob
<1>3. status' \in [Events -> RowStatuses \cup {"absent", "pruned"}]
  BY DEF Start, TypeOK, RowStatuses
<1> QED BY <1>1, <1>2, <1>3 DEF Start, TypeOK

(* The remembered job's fields.                                            *)
LEMMA JobFields ==
  ASSUME TypeOK, NEW w \in Workers
  PROVE  /\ job[w] \in Job
         /\ job[w].todo \subseteq Events /\ job[w].want \subseteq Events
         /\ job[w].attempt \in [Events -> Nat] /\ job[w].ok \in BOOLEAN
  BY DEF TypeOK, Job

(* Lock locks a part of the events that the drain wants.                   *)
LEMMA LockType ==
  ASSUME TypeOK, NEW w \in Workers, Lock(w)
  PROVE  TypeOK'
<1> DEFINE claimed == Batch(Candidates(w), BatchSize)
           next == IF claimed = {} THEN NoJob
                   ELSE [job[w] EXCEPT !.phase = "locked", !.todo = claimed,
                                       !.attempt = [e \in Events |-> attempts[e] + 1]]
<1>1. claimed \subseteq Events
  BY JobFields DEF Batch, Candidates
<1>2. [e \in Events |-> attempts[e] + 1] \in [Events -> Nat]
  BY DEF TypeOK
<1>3. next \in Job /\ (next.phase \in {"locked", "dispatch", "record"} <=> next.todo # {})
  <2>1. CASE claimed = {}
    BY <2>1, NoJobType DEF NoJob
  <2>2. CASE claimed # {}
    <3> HIDE DEF claimed
    <3> QED BY <2>2, <1>1, <1>2, JobFields DEF Job
  <2> QED BY <2>1, <2>2
<1>4. job' = [job EXCEPT ![w] = next]
  BY DEF Lock
<1> HIDE DEF next
<1> QED BY <1>3, <1>4 DEF Lock, TypeOK, rows

(* Every step of the relay keeps the types.                                *)
LEMMA RelayTypeNext == TypeOK /\ [Next]_vars => TypeOK'
<1> SUFFICES ASSUME TypeOK, [Next]_vars PROVE TypeOK'
  OBVIOUS
<1>1. ASSUME NEW e \in Events, Commit(e) \/ BecomeDue(e) \/ Prune(e) PROVE TypeOK'
  BY <1>1 DEF Commit, BecomeDue, Prune, TypeOK, RowStatuses
<1>2. ASSUME NEW w \in Workers, Sweep(w) \/ Trigger(w) PROVE TypeOK'
  BY <1>2, StartType DEF Sweep, Trigger
<1>3. ASSUME NEW w \in Workers, Lock(w) PROVE TypeOK'
  BY <1>3, LockType
<1>4. ASSUME NEW w \in Workers, Claim(w) PROVE TypeOK'
  <2>1. [job[w] EXCEPT !.phase = "dispatch"] \in Job
    BY JobFields DEF Job
  <2>2. /\ [job[w] EXCEPT !.phase = "dispatch"].phase = "dispatch"
        /\ [job[w] EXCEPT !.phase = "dispatch"].todo = job[w].todo
    BY JobFields DEF Job
  <2>3. status' \in [Events -> RowStatuses \cup {"absent", "pruned"}]
    BY <1>4 DEF Claim, TypeOK, RowStatuses
  <2>4. attempts' \in [Events -> Nat] /\ due' \in [Events -> BOOLEAN]
    BY <1>4 DEF Claim, TypeOK
  <2>5. job[w].todo # {}
    BY <1>4 DEF Claim, TypeOK
  <2> QED BY <1>4, <2>1, <2>2, <2>3, <2>4, <2>5 DEF Claim, TypeOK
<1>5. ASSUME NEW w \in Workers, Dispatch(w) PROVE TypeOK'
  <2>1. PICK outcome \in Outcomes :
          /\ sent' = [sent EXCEPT ![Earliest(job[w].todo)] = @ \cup outcome[1]]
          /\ job' = [job EXCEPT ![w] = [job[w] EXCEPT !.phase = "record", !.ok = outcome[2]]]
    BY <1>5 DEF Dispatch
  <2>2. outcome[1] \subseteq Endpoints /\ outcome[2] \in BOOLEAN
    <3>1. outcome = <<Endpoints, TRUE>> \/ outcome \in (SUBSET Endpoints) \X {FALSE}
      BY DEF Outcomes
    <3>2. CASE outcome = <<Endpoints, TRUE>>
      BY <3>2
    <3>3. CASE outcome \in (SUBSET Endpoints) \X {FALSE}
      BY <3>3
    <3> QED BY <3>1, <3>2, <3>3
  <2> DEFINE next == [job[w] EXCEPT !.phase = "record", !.ok = outcome[2]]
  <2>3. next \in Job /\ next.phase = "record" /\ next.todo = job[w].todo
    BY <2>2, JobFields DEF Job
  <2>4. job[w].todo # {}
    BY <1>5 DEF Dispatch, TypeOK
  <2>5. sent' \in [Events -> SUBSET Endpoints]
    BY <2>1, <2>2 DEF TypeOK
  <2> HIDE DEF next
  <2>6. job' = [job EXCEPT ![w] = next]
    BY <2>1 DEF next
  <2> QED BY <1>5, <2>3, <2>4, <2>5, <2>6 DEF Dispatch, TypeOK
<1>6. ASSUME NEW w \in Workers, Record(w) PROVE TypeOK'
  <2> DEFINE e == Earliest(job[w].todo)
             rest == job[w].todo \ {e}
             next == IF rest = {} THEN NoJob
                     ELSE [job[w] EXCEPT !.phase = "dispatch", !.todo = rest]
  <2>1. /\ job' = [job EXCEPT ![w] = next]
        /\ due' = [due EXCEPT ![e] = @ /\ Result(job[w].ok, job[w].attempt[e]) # "pending"]
        /\ status' = [status EXCEPT ![e] =
              IF @ = "pruned" THEN @ ELSE Result(job[w].ok, job[w].attempt[e])]
        /\ UNCHANGED <<attempts, sent, replaying, crashes, replays>>
    BY <1>6 DEF Record
  <2>2. next \in Job /\ (next.phase \in {"locked", "dispatch", "record"} <=> next.todo # {})
    <3>1. CASE rest = {}
      BY <3>1, NoJobType DEF NoJob
    <3>2. CASE rest # {}
      <4>1. rest \subseteq Events
        BY JobFields
      <4> HIDE DEF rest
      <4> QED BY <3>2, <4>1, JobFields DEF Job
    <3> QED BY <3>1, <3>2
  <2> HIDE DEF e, next
  <2>3. status' \in [Events -> RowStatuses \cup {"absent", "pruned"}]
    BY <2>1 DEF TypeOK, Result, RowStatuses
  <2>4. due' \in [Events -> BOOLEAN]
    BY <2>1 DEF TypeOK
  <2> QED BY <2>1, <2>2, <2>3, <2>4 DEF TypeOK
<1>7. ASSUME NEW w \in Workers, Crash(w) PROVE TypeOK'
  BY <1>7, NoJobType DEF Crash, TypeOK, NoJob
<1>8. ASSUME NEW a \in Admins, ReplayRead(a) PROVE TypeOK'
  BY <1>8 DEF ReplayRead, TypeOK, rows
<1>9. ASSUME NEW a \in Admins, ReplayCommit(a) PROVE TypeOK'
  <2>1. /\ UNCHANGED <<sent, job, crashes, replays>>
        /\ replaying' \in [Admins -> Events \cup {NoEvent}]
    BY <1>9 DEF ReplayCommit, TypeOK
  <2>2. CASE UNCHANGED rows
    BY <2>1, <2>2 DEF TypeOK, rows
  <2>3. CASE ~UNCHANGED rows
    <3>1. PICK e : /\ status' = [status EXCEPT ![e] = "pending"]
                   /\ attempts' = [attempts EXCEPT ![e] = 0]
                   /\ due' = [due EXCEPT ![e] = TRUE]
      BY <1>9, <2>3 DEF ReplayCommit
    <3> QED BY <2>1, <3>1 DEF TypeOK, RowStatuses
  <2> QED BY <2>2, <2>3
<1>10. CASE UNCHANGED vars
  BY <1>10 DEF vars, TypeOK
<1> QED BY <1>1, <1>2, <1>3, <1>4, <1>5, <1>6, <1>7, <1>8, <1>9, <1>10 DEF Next, Drain

(* The relay's state is well typed (drain_outbox_batch and its callers).   *)
THEOREM RelayTypeCorrect == Spec => []TypeOK
  BY RelayTypeInit, RelayTypeNext, PTL DEF Spec

-------------------------------------------------------------------------------
(* Settled                                                                 *)

(* SettledIsSent, and what a worker knows between a dispatch without error *)
(* and the update that records it.                                         *)
Settled ==
    /\ TypeOK
    /\ SettledIsSent
    /\ \A w \in Workers :
         job[w].phase = "record" /\ job[w].ok => sent[Earliest(job[w].todo)] = Endpoints

(* No row becomes dispatched, no worker learns of a success, and no        *)
(* message is unsent in the steps other than Dispatch and Record.          *)
LEMMA SettledFrame ==
  ASSUME Settled, TypeOK', sent' = sent,
         \A e \in Events : status'[e] \in {"dispatched", "pruned"} =>
                             status[e] \in {"dispatched", "pruned"},
         \A w \in Workers : job'[w].phase = "record" => job'[w] = job[w]
  PROVE  Settled'
  BY DEF Settled, SettledIsSent

(* Every step keeps what has been sent before it is recorded.              *)
LEMMA SettledNext == Settled /\ [Next]_vars => Settled'
<1> SUFFICES ASSUME Settled, [Next]_vars PROVE Settled'
  OBVIOUS
<1>1. TypeOK /\ TypeOK'
  BY RelayTypeNext DEF Settled
<1>2. ASSUME NEW e \in Events, Commit(e) \/ BecomeDue(e) \/ Prune(e) PROVE Settled'
  BY <1>1, <1>2, SettledFrame DEF Commit, BecomeDue, Prune, TypeOK
<1>3. ASSUME NEW w \in Workers, Sweep(w) \/ Trigger(w) PROVE Settled'
  <2>1. PICK want : Start(w, want)
    BY <1>3 DEF Sweep, Trigger
  <2> QED BY <1>1, <2>1, SettledFrame DEF Start, TypeOK, NoJob
<1>4. ASSUME NEW w \in Workers, Lock(w) PROVE Settled'
  <2>1. job'[w].phase # "record" /\ \A v \in Workers \ {w} : job'[v] = job[v]
    <3>1. PICK todo, attempt :
            job' = [job EXCEPT ![w] = IF todo = {} THEN NoJob
                                      ELSE [job[w] EXCEPT !.phase = "locked", !.todo = todo,
                                                          !.attempt = attempt]]
      BY <1>4 DEF Lock
    <3> QED BY <1>1, <3>1, JobFields DEF TypeOK, NoJob, Job
  <2> QED BY <1>1, <1>4, <2>1, SettledFrame DEF Lock, rows
<1>5. ASSUME NEW w \in Workers, Claim(w) PROVE Settled'
  <2>1. job'[w].phase # "record" /\ \A v \in Workers \ {w} : job'[v] = job[v]
    BY <1>1, <1>5, JobFields DEF Claim, TypeOK, Job
  <2>2. \A e \in Events : status'[e] \in {"dispatched", "pruned"} => status'[e] = status[e]
    BY <1>5 DEF Claim
  <2>3. sent' = sent
    BY <1>5 DEF Claim
  <2> QED BY <1>1, <2>1, <2>2, <2>3, SettledFrame
<1>6. ASSUME NEW w \in Workers, Dispatch(w) PROVE Settled'
  <2> DEFINE e == Earliest(job[w].todo)
  <2>1. e \in Events
    BY <1>1, <1>6, JobFields, EarliestExists DEF Dispatch, TypeOK
  <2>2. PICK outcome \in Outcomes :
          /\ sent' = [sent EXCEPT ![e] = @ \cup outcome[1]]
          /\ job' = [job EXCEPT ![w] = [job[w] EXCEPT !.phase = "record", !.ok = outcome[2]]]
          /\ status' = status
    BY <1>6 DEF Dispatch
  <2>3. outcome[1] \subseteq Endpoints /\ (outcome[2] => outcome[1] = Endpoints)
    <3>1. outcome = <<Endpoints, TRUE>> \/ outcome \in (SUBSET Endpoints) \X {FALSE}
      BY DEF Outcomes
    <3>2. CASE outcome = <<Endpoints, TRUE>>
      BY <3>2
    <3>3. CASE outcome \in (SUBSET Endpoints) \X {FALSE}
      BY <3>3
    <3> QED BY <3>1, <3>2, <3>3
  <2>4. /\ job'[w].todo = job[w].todo /\ job'[w].ok = outcome[2]
        /\ \A v \in Workers \ {w} : job'[v] = job[v]
    BY <1>1, <2>2, JobFields DEF TypeOK, Job
  <2>5. sent[e] \subseteq Endpoints /\ sent'[e] = sent[e] \cup outcome[1]
    BY <1>1, <2>1, <2>2 DEF TypeOK
  <2> HIDE DEF e
  <2>6. \A f \in Events : sent[f] = Endpoints => sent'[f] = Endpoints
    <3> TAKE f \in Events
    <3>1. CASE f = e
      BY <2>3, <2>5, <3>1
    <3>2. CASE f # e
      BY <1>1, <2>2, <3>2 DEF TypeOK
    <3> QED BY <3>1, <3>2
  <2>7. SettledIsSent'
    BY <2>2, <2>6 DEF Settled, SettledIsSent
  <2>8. ASSUME NEW v \in Workers, job'[v].phase = "record", job'[v].ok
        PROVE  sent'[Earliest(job'[v].todo)] = Endpoints
    <3>1. CASE v = w
      BY <2>3, <2>4, <2>5, <2>8, <3>1 DEF e
    <3>2. CASE v # w
      <4>1. sent[Earliest(job[v].todo)] = Endpoints /\ job'[v] = job[v]
        BY <2>4, <2>8, <3>2 DEF Settled
      <4>2. Earliest(job[v].todo) \in Events
        BY <1>1, <2>8, <4>1, JobFields, EarliestExists DEF TypeOK
      <4> QED BY <2>6, <4>1, <4>2
    <3> QED BY <3>1, <3>2
  <2> QED BY <1>1, <2>7, <2>8 DEF Settled
<1>7. ASSUME NEW w \in Workers, Record(w) PROVE Settled'
  <2> DEFINE e == Earliest(job[w].todo)
  <2>1. /\ job[w].phase = "record" /\ sent' = sent
        /\ status' = [status EXCEPT ![e] =
              IF @ = "pruned" THEN @ ELSE Result(job[w].ok, job[w].attempt[e])]
    BY <1>7 DEF Record
  <2>2. job'[w].phase # "record" /\ \A v \in Workers \ {w} : job'[v] = job[v]
    BY <1>1, <1>7, JobFields DEF Record, TypeOK, NoJob, Job
  <2>3. e \in Events
    BY <1>1, <2>1, JobFields, EarliestExists DEF TypeOK
  <2>4. ASSUME NEW f \in Events, status'[f] \in {"dispatched", "pruned"}
        PROVE  sent[f] = Endpoints
    <3>1. CASE status'[f] = status[f]
      BY <2>4, <3>1 DEF Settled, SettledIsSent
    <3>2. CASE status'[f] # status[f]
      <4>1. f = e /\ status'[f] = Result(job[w].ok, job[w].attempt[e])
        BY <1>1, <2>1, <3>2 DEF TypeOK
      <4>2. job[w].ok
        BY <2>4, <4>1 DEF Result
      <4> QED BY <2>1, <4>1, <4>2 DEF Settled
    <3> QED BY <3>1, <3>2
  <2> QED BY <1>1, <2>1, <2>2, <2>4 DEF Settled, SettledIsSent
<1>8. ASSUME NEW w \in Workers, Crash(w) PROVE Settled'
  <2>1. job'[w].phase # "record" /\ \A v \in Workers \ {w} : job'[v] = job[v]
    BY <1>1, <1>8 DEF Crash, TypeOK, NoJob
  <2> QED BY <1>1, <1>8, <2>1, SettledFrame DEF Crash
<1>9. ASSUME NEW a \in Admins, ReplayRead(a) \/ ReplayCommit(a) PROVE Settled'
  <2>1. \/ UNCHANGED status
        \/ \E e : status' = [status EXCEPT ![e] = "pending"]
    BY <1>9 DEF ReplayRead, ReplayCommit, rows
  <2>2. sent' = sent /\ job' = job
    BY <1>9 DEF ReplayRead, ReplayCommit
  <2>3. \A e \in Events : status'[e] \in {"dispatched", "pruned"} => status'[e] = status[e]
    BY <1>1, <2>1 DEF TypeOK
  <2> QED BY <1>1, <2>2, <2>3, SettledFrame
<1>10. CASE UNCHANGED vars
  BY <1>1, <1>10, SettledFrame DEF vars
<1> QED BY <1>2, <1>3, <1>4, <1>5, <1>6, <1>7, <1>8, <1>9, <1>10 DEF Next, Drain

LEMMA SettledInit == Init => Settled
<1> SUFFICES ASSUME Init PROVE Settled
  OBVIOUS
<1>1. \A e \in Events : status[e] = "absent"
  BY DEF Init
<1>2. \A w \in Workers : job[w].phase = "idle"
  BY DEF Init, NoJob
<1> QED BY <1>1, <1>2, RelayTypeInit DEF Settled, SettledIsSent

(* At least once, as far as the relay goes: whatever is recorded as        *)
(* dispatched was queued for every endpoint, for any number of workers,    *)
(* also when drains outlive their claims and replays race                  *)
(* (drain_outbox_batch).                                                   *)
THEOREM DispatchedWasSent == Spec => []SettledIsSent
<1>1. Settled => SettledIsSent
  BY DEF Settled
<1> QED BY <1>1, SettledInit, SettledNext, PTL DEF Spec

-------------------------------------------------------------------------------
(* The relay keeps its contract (safety), under the two conditions that    *)
(* the deployment provides and the code does not enforce: Celery kills a   *)
(* drain before its claim runs out, and replays do not overlap.            *)

Orderly == ~Overrun /\ \A a, b \in Admins : a = b

(* ClaimsAreExclusive strengthened: it holds for rows that are only locked *)
(* too, what a drain holds cannot be reclaimed, and the event that an      *)
(* administrator is about to replay is still failed.                       *)
Exclusion ==
    /\ Settled
    /\ \A w \in Workers : \A e \in job[w].todo :
         /\ job[w].phase = "locked" => status[e] = "pending"
         /\ job[w].phase # "locked" => status[e] = "processing" /\ ~due[e]
         /\ \A v \in Workers \ {w} : e \notin job[v].todo
    /\ \A a \in Admins : replaying[a] # NoEvent => status[replaying[a]] = "failed"

(* A step that works on no claimed event.                                  *)
LEMMA ExclusionFrame ==
  ASSUME Exclusion, Settled',
         \A w \in Workers : job'[w].todo = {} \/ job'[w] = job[w],
         \A w \in Workers : \A e \in job[w].todo :
            status'[e] = status[e] /\ (due'[e] => due[e]),
         \A a \in Admins : replaying'[a] # NoEvent => status'[replaying'[a]] = "failed"
  PROVE  Exclusion'
  BY DEF Exclusion

(* Exclusion is inductive.                                                 *)
LEMMA ExclusionNext == ASSUME Orderly PROVE Exclusion /\ [Next]_vars => Exclusion'
<1> SUFFICES ASSUME Exclusion, [Next]_vars PROVE Exclusion'
  OBVIOUS
<1>1. TypeOK /\ TypeOK' /\ Settled /\ Settled'
  BY SettledNext DEF Exclusion, Settled
<1>2. ASSUME NEW e \in Events, Commit(e) \/ BecomeDue(e) \/ Prune(e) PROVE Exclusion'
  <2>1. job' = job /\ replaying' = replaying
    BY <1>2 DEF Commit, BecomeDue, Prune
  <2>2. ASSUME NEW w \in Workers, NEW f \in job[w].todo
        PROVE  status'[f] = status[f] /\ (due'[f] => due[f] \/ job[w].phase = "locked")
    <3>1. status[f] \in {"pending", "processing"} /\ f \in Events
      BY <1>1, <2>2, JobFields DEF Exclusion
    <3>2. job[w].phase = "locked" \/ Holds(w, f)
      BY <1>1, <2>2 DEF Holds, TypeOK
    <3> QED BY <1>1, <1>2, <3>1, <3>2 DEF Commit, BecomeDue, Prune, TypeOK, Orderly
  <2>3. \A a \in Admins : replaying[a] # NoEvent => status'[replaying[a]] = "failed"
    BY <1>1, <1>2 DEF Commit, BecomeDue, Prune, Exclusion, TypeOK
  <2> QED BY <1>1, <2>1, <2>2, <2>3 DEF Exclusion
<1>3. ASSUME NEW w \in Workers, Sweep(w) \/ Trigger(w) PROVE Exclusion'
  <2>1. PICK want : Start(w, want)
    BY <1>3 DEF Sweep, Trigger
  <2>2. \A v \in Workers : job'[v].todo = {} \/ job'[v] = job[v]
    BY <1>1, <2>1 DEF Start, NoJob, TypeOK
  <2>3. \A v \in Workers : \A e \in job[v].todo : e \in Events
    BY <1>1, JobFields
  <2>4. \A v \in Workers : \A e \in job[v].todo :
          status'[e] = status[e] /\ (due'[e] => due[e])
    BY <2>1, <2>3 DEF Start, Reclaimable, Exclusion
  <2>5. \A a \in Admins : replaying'[a] # NoEvent => status'[replaying'[a]] = "failed"
    BY <1>1, <2>1 DEF Start, Reclaimable, Exclusion, TypeOK
  <2> QED BY <1>1, <2>2, <2>4, <2>5, ExclusionFrame
<1>4. ASSUME NEW w \in Workers, Lock(w) PROVE Exclusion'
  <2> DEFINE claimed == Batch(Candidates(w), BatchSize)
  <2>1. \A e \in claimed : e \in Events /\ status[e] = "pending" /\ Unlocked(e)
    BY <1>1, JobFields DEF Batch, Candidates
  <2>2. \A e \in claimed : \A v \in Workers : e \notin job[v].todo
    BY <2>1 DEF Unlocked, Locked, Exclusion
  <2>3. UNCHANGED <<status, due, replaying>>
    BY <1>4 DEF Lock, rows
  <2> HIDE DEF claimed
  <2>4. PICK attempt :
          job' = [job EXCEPT ![w] = IF claimed = {} THEN NoJob
                                    ELSE [job[w] EXCEPT !.phase = "locked", !.todo = claimed,
                                                        !.attempt = attempt]]
    BY <1>4 DEF Lock, claimed
  <2>5. \A v \in Workers : job'[v] = job[v] \/ job'[v].todo = {}
                            \/ (v = w /\ job'[v].phase = "locked" /\ job'[v].todo = claimed)
    BY <1>1, <2>4, JobFields DEF TypeOK, NoJob, Job
  <2>6. ASSUME NEW v \in Workers, NEW e \in job'[v].todo
        PROVE  /\ job'[v].phase = "locked" => status'[e] = "pending"
               /\ job'[v].phase # "locked" => status'[e] = "processing" /\ ~due'[e]
               /\ \A u \in Workers \ {v} : e \notin job'[u].todo
    <3>1. CASE v = w /\ job'[v].phase = "locked" /\ job'[v].todo = claimed
      BY <2>1, <2>2, <2>3, <2>5, <2>6, <3>1
    <3>2. CASE job'[v] = job[v]
      BY <2>2, <2>3, <2>5, <2>6, <3>2 DEF Exclusion
    <3> QED BY <2>5, <2>6, <3>1, <3>2
  <2> QED BY <1>1, <2>3, <2>6 DEF Exclusion
<1>5. ASSUME NEW w \in Workers, Claim(w) PROVE Exclusion'
  <2>1. /\ job[w].phase = "locked" /\ replaying' = replaying
        /\ status' = [e \in Events |-> IF e \in job[w].todo THEN "processing" ELSE status[e]]
        /\ due' = [e \in Events |-> due[e] /\ e \notin job[w].todo]
    BY <1>5 DEF Claim
  <2>2. /\ job'[w].phase = "dispatch" /\ job'[w].todo = job[w].todo
        /\ \A v \in Workers \ {w} : job'[v] = job[v]
    BY <1>1, <1>5, JobFields DEF Claim, TypeOK, Job
  <2>3. ASSUME NEW v \in Workers, NEW e \in job'[v].todo
        PROVE  /\ job'[v].phase = "locked" => status'[e] = "pending"
               /\ job'[v].phase # "locked" => status'[e] = "processing" /\ ~due'[e]
               /\ \A u \in Workers \ {v} : e \notin job'[u].todo
    <3>1. e \in job[v].todo /\ e \in Events
      BY <1>1, <2>2, <2>3, JobFields
    <3>2. \A u \in Workers \ {v} : e \notin job'[u].todo
      BY <2>2, <3>1 DEF Exclusion
    <3>3. CASE v = w
      BY <2>1, <2>2, <3>1, <3>2, <3>3
    <3>4. CASE v # w
      <4>1. job'[v] = job[v] /\ e \notin job[w].todo
        BY <2>2, <3>1, <3>4 DEF Exclusion
      <4>2. /\ job[v].phase = "locked" => status[e] = "pending"
            /\ job[v].phase # "locked" => status[e] = "processing" /\ ~due[e]
        BY <3>1 DEF Exclusion
      <4>3. status'[e] = status[e] /\ due'[e] = due[e]
        BY <1>1, <2>1, <3>1, <4>1 DEF TypeOK
      <4> QED BY <3>2, <4>1, <4>2, <4>3
    <3> QED BY <3>3, <3>4
  <2>4. \A a \in Admins : replaying'[a] # NoEvent => status'[replaying'[a]] = "failed"
    <3>1. \A e \in job[w].todo : status[e] = "pending"
      BY <2>1 DEF Exclusion
    <3> SUFFICES ASSUME NEW a \in Admins, replaying[a] # NoEvent
                 PROVE  status'[replaying[a]] = "failed"
      BY <2>1
    <3>2. replaying[a] \in Events /\ status[replaying[a]] = "failed"
      BY <1>1 DEF Exclusion, TypeOK
    <3>3. replaying[a] \notin job[w].todo
      BY <3>1, <3>2
    <3> QED BY <2>1, <3>2, <3>3
  <2> QED BY <1>1, <2>3, <2>4 DEF Exclusion
<1>6. ASSUME NEW w \in Workers, Dispatch(w) PROVE Exclusion'
  <2>1. PICK ok : /\ job[w].phase = "dispatch"
                  /\ job' = [job EXCEPT ![w] = [job[w] EXCEPT !.phase = "record", !.ok = ok]]
                  /\ UNCHANGED <<status, due, replaying>>
    BY <1>6 DEF Dispatch
  <2>2. /\ job'[w].phase = "record" /\ job'[w].todo = job[w].todo
        /\ \A v \in Workers \ {w} : job'[v] = job[v]
    BY <1>1, <2>1, JobFields DEF TypeOK, Job
  <2> QED BY <1>1, <2>1, <2>2 DEF Exclusion
<1>7. ASSUME NEW w \in Workers, Record(w) PROVE Exclusion'
  <2> DEFINE e == Earliest(job[w].todo)
             rest == job[w].todo \ {e}
  <2>1. /\ job[w].phase = "record" /\ replaying' = replaying
        /\ \E d : due' = [due EXCEPT ![e] = d]
        /\ \E s : status' = [status EXCEPT ![e] = s]
        /\ job' = [job EXCEPT ![w] = IF rest = {} THEN NoJob
                                     ELSE [job[w] EXCEPT !.phase = "dispatch", !.todo = rest]]
    BY <1>7 DEF Record
  <2>2. e \in job[w].todo /\ e \in Events
    BY <1>1, <2>1, JobFields, EarliestExists DEF TypeOK
  <2> HIDE DEF e
  <2>3. /\ job'[w].todo = rest /\ job'[w].phase # "locked"
        /\ \A v \in Workers \ {w} : job'[v] = job[v]
    <3>1. CASE rest = {}
      BY <1>1, <2>1, <3>1 DEF TypeOK, NoJob
    <3>2. CASE rest # {}
      BY <1>1, <2>1, <3>2, JobFields DEF TypeOK, Job
    <3> QED BY <3>1, <3>2
  <2>4. status[e] = "processing" /\ \A v \in Workers \ {w} : e \notin job[v].todo
    BY <2>1, <2>2 DEF Exclusion
  <2>5. ASSUME NEW v \in Workers, NEW f \in job'[v].todo
        PROVE  /\ job'[v].phase = "locked" => status'[f] = "pending"
               /\ job'[v].phase # "locked" => status'[f] = "processing" /\ ~due'[f]
               /\ \A u \in Workers \ {v} : f \notin job'[u].todo
    <3>1. f \in job[v].todo /\ f # e /\ f \in Events
      BY <1>1, <2>3, <2>4, <2>5, JobFields
    <3>2. status'[f] = status[f] /\ due'[f] = due[f]
      BY <1>1, <2>1, <3>1 DEF TypeOK
    <3>3. \A u \in Workers \ {v} : f \notin job'[u].todo
      BY <2>3, <3>1 DEF Exclusion
    <3>4. job'[v].phase = "locked" <=> job[v].phase = "locked"
      BY <2>1, <2>3
    <3> QED BY <3>1, <3>2, <3>3, <3>4 DEF Exclusion
  <2>6. \A a \in Admins : replaying'[a] # NoEvent => status'[replaying'[a]] = "failed"
    BY <1>1, <2>1, <2>4 DEF Exclusion, TypeOK
  <2> QED BY <1>1, <2>5, <2>6 DEF Exclusion
<1>8. ASSUME NEW w \in Workers, Crash(w) PROVE Exclusion'
  <2>1. \A v \in Workers : job'[v].todo = {} \/ job'[v] = job[v]
    BY <1>1, <1>8 DEF Crash, TypeOK, NoJob
  <2> QED BY <1>1, <1>8, <2>1, ExclusionFrame DEF Crash, Exclusion
<1>9. ASSUME NEW a \in Admins, ReplayRead(a) PROVE Exclusion'
  <2>1. \A b \in Admins : replaying'[b] = replaying[b] \/ status[replaying'[b]] = "failed"
    BY <1>1, <1>9 DEF ReplayRead, Replayable, TypeOK
  <2>2. UNCHANGED <<status, due, job>>
    BY <1>9 DEF ReplayRead, rows
  <2> QED BY <1>1, <2>1, <2>2, ExclusionFrame DEF Exclusion
<1>10. ASSUME NEW a \in Admins, ReplayCommit(a) PROVE Exclusion'
  <2> DEFINE e == replaying[a]
  <2>1. status[e] = "failed"
    BY <1>10 DEF ReplayCommit, Exclusion
  <2>2. job' = job /\ \A b \in Admins : replaying'[b] = NoEvent
    BY <1>1, <1>10 DEF ReplayCommit, TypeOK, Orderly
  <2>3. /\ status' = [status EXCEPT ![e] = "pending"]
        /\ due' = [due EXCEPT ![e] = TRUE]
    BY <1>10, <2>1 DEF ReplayCommit
  <2> HIDE DEF e
  <2>4. \A w \in Workers : \A f \in job[w].todo : f \in Events /\ f # e
    BY <1>1, <2>1, JobFields DEF Exclusion
  <2>5. \A w \in Workers : \A f \in job[w].todo :
          status'[f] = status[f] /\ (due'[f] => due[f])
    BY <1>1, <2>3, <2>4 DEF TypeOK
  <2> QED BY <1>1, <2>2, <2>5, ExclusionFrame
<1>11. CASE UNCHANGED vars
  BY <1>1, <1>11, ExclusionFrame DEF vars, Exclusion
<1> QED
  BY <1>2, <1>3, <1>4, <1>5, <1>6, <1>7, <1>8, <1>9, <1>10, <1>11 DEF Next, Drain

LEMMA ExclusionInit == Init => Exclusion
<1> SUFFICES ASSUME Init PROVE Exclusion
  OBVIOUS
<1>1. \A w \in Workers : job[w].todo = {}
  BY DEF Init, NoJob
<1>2. \A a \in Admins : replaying[a] = NoEvent
  BY DEF Init
<1> QED BY <1>1, <1>2, SettledInit DEF Exclusion

(* FOR UPDATE SKIP LOCKED keeps drains apart (drain_outbox_batch).         *)
THEOREM ClaimsExclude == ASSUME Orderly PROVE Spec => []ClaimsAreExclusive
<1>1. Exclusion => ClaimsAreExclusive
  BY DEF Exclusion, ClaimsAreExclusive, Holds
<1> QED BY <1>1, ExclusionInit, ExclusionNext, PTL DEF Spec

-------------------------------------------------------------------------------
(* The contract                                                            *)

(* What Life makes of the statuses.                                        *)
LEMMA LifeOf ==
  /\ Life("absent") = "none" /\ Life("failed") = "dead"
  /\ Life("pending") = "owed" /\ Life("processing") = "owed"
  /\ Life("dispatched") = "met" /\ Life("pruned") = "met"
  BY DEF Life

(* A step that changes at most one status, and sends nothing.              *)
LEMMA LifeStep ==
  ASSUME TypeOK, NEW e \in Events, NEW s, status' = [status EXCEPT ![e] = s], sent' = sent,
         \/ Life(s) = Life(status[e])
         \/ status[e] = "absent" /\ Life(s) = "owed"
         \/ Life(status[e]) = "owed" /\ Life(s) = "met" /\ sent[e] = Endpoints
         \/ Life(status[e]) = "owed" /\ Life(s) = "dead"
         \/ status[e] = "failed" /\ Life(s) = "owed"
  PROVE  [Contract!Next]_(Contract!vars)
<1> DEFINE life == [f \in Events |-> Life(status[f])]
           life2 == [f \in Events |-> Life(status'[f])]
<1>1. life2 = [life EXCEPT ![e] = Life(s)] /\ life[e] = Life(status[e])
  BY DEF TypeOK
<1> HIDE DEF life, life2
<1>2. CASE Life(s) = Life(status[e])
  <2>1. life2 = life
    BY <1>1, <1>2 DEF life
  <2> QED BY <2>1 DEF Contract!vars, life, life2
<1>3. CASE status[e] = "absent" /\ Life(s) = "owed"
  <2>1. Contract!Accept(e)
    BY <1>1, <1>3, LifeOf DEF Contract!Accept, Contract!Become, life, life2
  <2> QED BY <2>1 DEF Contract!Next
<1>4. CASE Life(status[e]) = "owed" /\ Life(s) = "met" /\ sent[e] = Endpoints
  <2>1. Contract!Meet(e)
    BY <1>1, <1>4 DEF Contract!Meet, Contract!Become, life, life2
  <2> QED BY <2>1 DEF Contract!Next
<1>5. CASE Life(status[e]) = "owed" /\ Life(s) = "dead"
  <2>1. Contract!GiveUp(e)
    BY <1>1, <1>5 DEF Contract!GiveUp, Contract!Become, life, life2
  <2> QED BY <2>1 DEF Contract!Next
<1>6. CASE status[e] = "failed" /\ Life(s) = "owed"
  <2>1. Contract!Replay(e)
    BY <1>1, <1>6, LifeOf DEF Contract!Replay, Contract!Become, life, life2
  <2> QED BY <2>1 DEF Contract!Next
<1> QED BY <1>2, <1>3, <1>4, <1>5, <1>6

(* A step that leaves every event's life alone, and sends nothing.         *)
LEMMA LifeStutter ==
  ASSUME sent' = sent, \A e \in Events : Life(status'[e]) = Life(status[e])
  PROVE  [Contract!Next]_(Contract!vars)
  BY DEF Contract!vars

(* Every step of the relay is a step of the contract or none.              *)
LEMMA ContractStep ==
  ASSUME Orderly PROVE Exclusion /\ [Next]_vars => [Contract!Next]_(Contract!vars)
<1> SUFFICES ASSUME Exclusion, [Next]_vars PROVE [Contract!Next]_(Contract!vars)
  OBVIOUS
<1>1. TypeOK /\ Settled
  BY DEF Exclusion, Settled
<1>2. ASSUME NEW e \in Events, Commit(e) PROVE [Contract!Next]_(Contract!vars)
  BY <1>1, <1>2, LifeStep, LifeOf DEF Commit
<1>3. ASSUME NEW e \in Events, BecomeDue(e) PROVE [Contract!Next]_(Contract!vars)
  BY <1>3, LifeStutter DEF BecomeDue
<1>4. ASSUME NEW e \in Events, Prune(e) PROVE [Contract!Next]_(Contract!vars)
  <2>1. /\ status' = [status EXCEPT ![e] = "pruned"] /\ sent' = sent
        /\ Life("pruned") = Life(status[e])
    BY <1>4, LifeOf DEF Prune
  <2> QED BY <1>1, <2>1, LifeStep
<1>5. ASSUME NEW w \in Workers, Sweep(w) \/ Trigger(w) PROVE [Contract!Next]_(Contract!vars)
  <2>1. /\ status' = [e \in Events |-> IF Reclaimable(e) THEN "pending" ELSE status[e]]
        /\ sent' = sent
    BY <1>5 DEF Sweep, Trigger, Start
  <2> QED BY <2>1, LifeStutter, LifeOf DEF Reclaimable
<1>6. ASSUME NEW w \in Workers, Lock(w) PROVE [Contract!Next]_(Contract!vars)
  BY <1>6, LifeStutter DEF Lock, rows
<1>7. ASSUME NEW w \in Workers, Claim(w) PROVE [Contract!Next]_(Contract!vars)
  <2>1. \A e \in job[w].todo : status[e] = "pending"
    BY <1>7 DEF Claim, Exclusion
  <2>2. /\ status' = [e \in Events |-> IF e \in job[w].todo THEN "processing" ELSE status[e]]
        /\ sent' = sent
    BY <1>7 DEF Claim
  <2> QED BY <2>1, <2>2, LifeStutter, LifeOf
<1>8. ASSUME NEW w \in Workers, Dispatch(w) PROVE [Contract!Next]_(Contract!vars)
  <2> DEFINE e == Earliest(job[w].todo)
  <2>1. e \in job[w].todo /\ e \in Events
    BY <1>1, <1>8, JobFields, EarliestExists DEF Dispatch, TypeOK
  <2>2. Life(status[e]) = "owed"
    BY <1>8, <2>1, LifeOf DEF Dispatch, Exclusion
  <2>3. PICK outcome \in Outcomes : sent' = [sent EXCEPT ![e] = @ \cup outcome[1]]
    BY <1>8 DEF Dispatch
  <2>4. outcome[1] \in SUBSET Endpoints
    <3>1. outcome = <<Endpoints, TRUE>> \/ outcome \in (SUBSET Endpoints) \X {FALSE}
      BY DEF Outcomes
    <3>2. CASE outcome = <<Endpoints, TRUE>>
      BY <3>2
    <3>3. CASE outcome \in (SUBSET Endpoints) \X {FALSE}
      BY <3>3
    <3> QED BY <3>1, <3>2, <3>3
  <2>5. status' = status
    BY <1>8 DEF Dispatch
  <2> HIDE DEF e
  <2>6. Contract!Send(e)
    BY <2>1, <2>2, <2>3, <2>4, <2>5 DEF Contract!Send
  <2> QED BY <2>1, <2>6 DEF Contract!Next
<1>9. ASSUME NEW w \in Workers, Record(w) PROVE [Contract!Next]_(Contract!vars)
  <2> DEFINE e == Earliest(job[w].todo)
             s == Result(job[w].ok, job[w].attempt[e])
  <2>1. e \in job[w].todo /\ e \in Events
    BY <1>1, <1>9, JobFields, EarliestExists DEF Record, TypeOK
  <2>2. status[e] = "processing"
    BY <1>9, <2>1 DEF Record, Exclusion
  <2>3. status' = [status EXCEPT ![e] = s] /\ sent' = sent
    BY <1>9, <2>2 DEF Record
  <2>4. job[w].ok => sent[e] = Endpoints
    BY <1>1, <1>9 DEF Record, Settled
  <2>5. \/ s = "dispatched" /\ job[w].ok
        \/ s = "failed"
        \/ s = "pending"
    BY DEF Result
  <2> HIDE DEF e, s
  <2> QED BY <1>1, <2>1, <2>2, <2>3, <2>4, <2>5, LifeStep, LifeOf
<1>10. ASSUME NEW w \in Workers, Crash(w) PROVE [Contract!Next]_(Contract!vars)
  BY <1>10, LifeStutter DEF Crash
<1>11. ASSUME NEW a \in Admins, ReplayRead(a) PROVE [Contract!Next]_(Contract!vars)
  BY <1>11, LifeStutter DEF ReplayRead, rows
<1>12. ASSUME NEW a \in Admins, ReplayCommit(a) PROVE [Contract!Next]_(Contract!vars)
  <2> DEFINE e == replaying[a]
  <2>1. e \in Events /\ status[e] = "failed"
    BY <1>1, <1>12 DEF ReplayCommit, Exclusion, TypeOK
  <2>2. status' = [status EXCEPT ![e] = "pending"] /\ sent' = sent
    BY <1>12, <2>1 DEF ReplayCommit
  <2> HIDE DEF e
  <2> QED BY <1>1, <2>1, <2>2, LifeStep, LifeOf
<1>13. CASE UNCHANGED vars
  BY <1>13, LifeStutter DEF vars
<1> QED
  BY <1>2, <1>3, <1>4, <1>5, <1>6, <1>7, <1>8, <1>9, <1>10, <1>11, <1>12, <1>13
  DEF Next, Drain

(* The relay implements the contract's safety: what drains, crashes and    *)
(* replays do to the rows is a life none, owed, met or dead of each event, *)
(* in the order the contract allows (drain_outbox_batch,                   *)
(* replay_dead_letter_outbox_event, prune_outbox_and_webhook_history).     *)
THEOREM RelayKeepsContract ==
  ASSUME Orderly
  PROVE  Spec => Contract!Init /\ [][Contract!Next]_(Contract!vars)
<1>1. Init => Contract!Init
  BY LifeOf DEF Init, Contract!Init
<1> QED BY <1>1, ExclusionInit, ExclusionNext, ContractStep, PTL DEF Spec

(* A dispatched event is not touched again but by the prune                *)
(* (drain_outbox_batch).                                                   *)
THEOREM DispatchedStays == ASSUME Orderly PROVE Spec => DispatchedIsFinal
<1>1. Exclusion /\ [Next]_vars =>
        [\A e \in Events :
           status[e] = "dispatched" => /\ status'[e] \in {"dispatched", "pruned"}
                                       /\ attempts'[e] = attempts[e]]_vars
  <2> SUFFICES ASSUME Exclusion, Next, NEW e \in Events, status[e] = "dispatched"
               PROVE  status'[e] \in {"dispatched", "pruned"} /\ attempts'[e] = attempts[e]
    OBVIOUS
  <2>1. TypeOK
    BY DEF Exclusion, Settled
  <2>2. \A w \in Workers : e \notin job[w].todo
    BY DEF Exclusion
  <2>3. \A a \in Admins : replaying[a] # NoEvent => replaying[a] # e
    BY DEF Exclusion
  <2>4. ASSUME NEW f \in Events, Commit(f) \/ BecomeDue(f) \/ Prune(f)
        PROVE  status'[e] \in {"dispatched", "pruned"} /\ attempts'[e] = attempts[e]
    BY <2>1, <2>4 DEF Commit, BecomeDue, Prune, TypeOK
  <2>5. ASSUME NEW w \in Workers, Sweep(w) \/ Trigger(w)
        PROVE  status'[e] = status[e] /\ attempts'[e] = attempts[e]
    BY <2>5 DEF Sweep, Trigger, Start, Reclaimable
  <2>6. ASSUME NEW w \in Workers, Lock(w) \/ Claim(w) \/ Dispatch(w) \/ Crash(w)
        PROVE  status'[e] = status[e] /\ attempts'[e] = attempts[e]
    BY <2>2, <2>6 DEF Lock, Claim, Dispatch, Crash, rows
  <2>7. ASSUME NEW w \in Workers, Record(w)
        PROVE  status'[e] = status[e] /\ attempts'[e] = attempts[e]
    <3>1. Earliest(job[w].todo) # e
      BY <2>1, <2>2, <2>7, JobFields, EarliestExists DEF Record, TypeOK
    <3> QED BY <2>1, <2>7, <3>1 DEF Record, TypeOK
  <2>8. ASSUME NEW a \in Admins, ReplayRead(a) \/ ReplayCommit(a)
        PROVE  status'[e] = status[e] /\ attempts'[e] = attempts[e]
    BY <2>1, <2>3, <2>8 DEF ReplayRead, ReplayCommit, rows, TypeOK
  <2> QED BY <2>4, <2>5, <2>6, <2>7, <2>8 DEF Next, Drain
<1> QED BY <1>1, ExclusionInit, ExclusionNext, PTL DEF Spec, DispatchedIsFinal
===============================================================================
