-------------------------- MODULE TaskWorkflow_proofs --------------------------
(***************************************************************************)
(* Proofs about TaskWorkflow for any set of tasks, annotators, workers,    *)
(* weights and edits.  Type correctness first; then the two invariants     *)
(* about stale copies, each strengthened by what a copy in flight may say; *)
(* then what overlapping requests could break: one annotation per          *)
(* annotator and task, counters that agree with the gold annotations, and  *)
(* no live lease handed from one annotator to another while nobody saves   *)
(* whole rows.                                                             *)
(*                                                                         *)
(* Then the rules the workflow decides by, for inputs of any size: the     *)
(* consensus over any number of annotators, the weights and thresholds     *)
(* that calibration arrives at, and the pairs of the dataset export.       *)
(***************************************************************************)
EXTENDS TaskWorkflow, Algorithms, FiniteSetTheorems, WellFoundedInduction, TLAPS

USE DEF Undecided

-------------------------------------------------------------------------------
(* Types                                                                   *)

(* A verdict is a preference or no decision (evaluate_task_consensus).     *)
LEMMA VerdictType ==
  ASSUME NEW ballots, NEW weight, NEW required
  PROVE  Verdict(ballots, weight, required) \in Preferences \cup {Undecided}
  <1>1. CASE \E choice \in Preferences : Wins(choice, ballots, weight)
    BY <1>1 DEF Verdict
  <1>2. CASE ~ \E choice \in Preferences : Wins(choice, ballots, weight)
    BY <1>2 DEF Verdict
  <1> QED BY <1>1, <1>2

(* A fresh task and the idle request are well formed.                      *)
LEMMA NewRowType == NewRow \in Row
  BY DEF NewRow, Row, Statuses

LEMMA IdleType == Idle \in Request
  BY NewRowType DEF Idle, Request, Ops

(* The columns that operations write one at a time.                        *)
LEMMA RowUpdateType ==
  ASSUME NEW r \in Row
  PROVE  /\ Released(r) \in Row
         /\ \A b \in BOOLEAN : [r EXCEPT !.active = b] \in Row
         /\ \A b \in BOOLEAN : [r EXCEPT !.escalated = b] \in Row
         /\ \A s \in Statuses : [r EXCEPT !.status = s] \in Row
  BY DEF Released, Row

(* Begin keeps the types when the request it starts has them.              *)
LEMMA BeginType ==
  ASSUME TypeOK, NEW w \in Workers, NEW op \in Ops, NEW t \in Tasks,
         NEW request \in Request, Begin(w, op, t, request),
         op \in {"claim", "annotate", "vote"} => request.user \in Users
  PROVE  TypeOK'
  <1> DEFINE q == [request EXCEPT !.op = op, !.task = t]
  <1>1. q \in Request /\ Addressed(q)
    BY DEF Request, Addressed
  <1>2. req' = [req EXCEPT ![w] = q]
    BY DEF Begin
  <1> HIDE DEF q
  <1>3. req' \in [Workers -> Request] /\ \A v \in Workers : Addressed(req'[v])
    BY <1>1, <1>2 DEF TypeOK
  <1> QED BY <1>3 DEF Begin, TypeOK, Addressed

(* Finish makes a worker idle.                                             *)
LEMMA FinishType ==
  ASSUME TypeOK, NEW w \in Workers, Finish(w)
  PROVE  /\ req' \in [Workers -> Request]
         /\ \A v \in Workers : Addressed(req'[v])
  <1>1. Addressed(Idle)
    BY DEF Addressed, Idle
  <1> QED BY <1>1, IdleType DEF Finish, TypeOK

(* A transaction that writes a well-formed row and the events of its task. *)
LEMMA CommitType ==
  ASSUME TypeOK, NEW w \in Workers, Finish(w), NEW r \in Row,
         req[w].op # "idle", row' = [row EXCEPT ![req[w].task] = r],
         outbox' \subseteq Event, UNCHANGED <<clock, annotations, evaluated, correct>>
  PROVE  TypeOK'
  <1>1. row' \in [Tasks -> Row]
    BY DEF TypeOK
  <1> QED BY <1>1, FinishType DEF TypeOK, Addressed

(* What a transaction knows about its request.                             *)
LEMMA RequestType ==
  ASSUME TypeOK, NEW w \in Workers, req[w].op # "idle"
  PROVE  /\ req[w] \in Request
         /\ req[w].task \in Tasks
         /\ req[w].op \in {"claim", "annotate", "vote"} => req[w].user \in Users
         /\ req[w].snap \in Row
         /\ row[req[w].task] \in Row
         /\ annotations[req[w].task] \subseteq Ballots
  BY DEF TypeOK, Addressed, Request

(* The first step of an operation remembers the stored row or none, and    *)
(* the time of its query or none.                                          *)
LEMMA ReadBegins ==
  ASSUME TypeOK, NEW w \in Workers,
         ClaimSelect(w) \/ AnnotateRead(w) \/ AdjudicateRead(w)
           \/ TriageRead(w) \/ UpdateRead(w) \/ TranslateRead(w)
  PROVE  \E op \in Ops \ {"vote"}, t \in Tasks, request \in Request :
           /\ Begin(w, op, t, request)
           /\ request.snap \in {NewRow, row[t]}
           /\ request.asOf \in {0, clock}
  <1>1. Idle.snap = NewRow /\ Idle.asOf = 0 /\ Idle \in Request
    BY IdleType DEF Idle
  <1>2. CASE ClaimSelect(w)
    <2>1. PICK u \in Users, t \in Tasks :
            Begin(w, "claim", t, [Idle EXCEPT !.user = u, !.asOf = clock])
      BY <1>2 DEF ClaimSelect
    <2>2. [Idle EXCEPT !.user = u, !.asOf = clock] \in Request
      BY <1>1 DEF Request, TypeOK
    <2> QED BY <1>1, <2>1, <2>2 DEF Ops, Idle
  <1>3. CASE AnnotateRead(w)
    <2>1. PICK u \in Users, t \in Tasks :
            Begin(w, "annotate", t, [Idle EXCEPT !.user = u, !.snap = row[t]])
      BY <1>3 DEF AnnotateRead
    <2>2. [Idle EXCEPT !.user = u, !.snap = row[t]] \in Request
      BY <1>1 DEF Request, TypeOK
    <2> QED BY <1>1, <2>1, <2>2 DEF Ops, Idle
  <1>4. CASE AdjudicateRead(w)
    BY <1>1, <1>4 DEF AdjudicateRead, Ops
  <1>5. CASE TriageRead(w) \/ UpdateRead(w) \/ TranslateRead(w)
    <2>1. PICK t \in Tasks, op \in {"triage", "update", "translate"} :
            Begin(w, op, t, [Idle EXCEPT !.snap = row[t]])
      BY <1>5 DEF TriageRead, UpdateRead, TranslateRead
    <2>2. [Idle EXCEPT !.snap = row[t]] \in Request
      BY <1>1 DEF Request, TypeOK
    <2> QED BY <2>1, <2>2 DEF Ops, Idle
  <1> QED BY <1>2, <1>3, <1>4, <1>5

(* Announcements about a task are events.                                  *)
LEMMA EventType ==
  ASSUME NEW type \in EventTypes, NEW t \in Tasks,
         NEW choice \in Preferences \cup {Undecided}, NEW by \in Origins
  PROVE  Announce(type, t, choice, by) \in Event
  BY DEF Announce, Event

(* The row and the events of evaluate_task_consensus.                      *)
LEMMA ConsensusRowType ==
  ASSUME NEW r \in Row, NEW q \in Request
  PROVE  ConsensusRow(r, q) \in Row
  <1>1. (q.snap.escalated \/ SplitVote(q)) \in BOOLEAN
    OBVIOUS
  <1>2. (IF q.verdict # Undecided THEN "completed"
         ELSE IF q.snap.status = "pending" THEN "in_progress"
         ELSE q.snap.status) \in Statuses
    BY DEF Request, Row, Statuses
  <1>3. Released(r) \in Row
    BY RowUpdateType
  <1>4. q.verdict \in Preferences \cup {Undecided}
    BY DEF Request
  <1> QED BY <1>1, <1>2, <1>3, <1>4 DEF ConsensusRow, Row

LEMMA ConsensusEventsType ==
  ASSUME NEW q \in Request, q.task \in Tasks
  PROVE  ConsensusEvents(q) \subseteq Event
  <1>1. q.verdict \in Preferences \cup {Undecided}
    BY DEF Request
  <1>2. Announce("task.uncertainty_escalated", q.task, Undecided, "consensus") \in Event
    BY EventType DEF EventTypes, Origins
  <1>3. \A type \in {"task.consensus_reached", "task.completed"} :
          Announce(type, q.task, q.verdict, "consensus") \in Event
    BY <1>1, EventType DEF EventTypes, Origins
  <1> QED BY <1>2, <1>3 DEF ConsensusEvents

(* Fresh tasks and idle workers are well typed.                            *)
LEMMA TypeInit == Init => TypeOK
<1> SUFFICES ASSUME Init PROVE TypeOK
  OBVIOUS
<1>1. Addressed(Idle)
  BY DEF Addressed, Idle
<1>2. req \in [Workers -> Request] /\ \A w \in Workers : Addressed(req[w])
  BY <1>1, IdleType DEF Init
<1>3. row \in [Tasks -> Row] /\ annotations \in [Tasks -> SUBSET Ballots]
  BY NewRowType DEF Init
<1> QED BY <1>2, <1>3 DEF Init, TypeOK

(* Every action keeps the types.                                           *)
LEMMA TypeStep == TypeOK /\ [Next]_vars => TypeOK'
<1> SUFFICES ASSUME TypeOK, [Next]_vars PROVE TypeOK'
  OBVIOUS
<1>1. CASE Tick
  BY <1>1 DEF Tick, TypeOK, Addressed
<1>2. ASSUME NEW t \in Tasks, Destroy(t) \/ Restore(t) PROVE TypeOK'
  <2>1. row[t] \in Row
    BY DEF TypeOK
  <2>2. PICK b \in BOOLEAN : row' = [row EXCEPT ![t] = [row[t] EXCEPT !.active = b]]
    BY <1>2 DEF Destroy, Restore
  <2> QED BY <1>2, <2>1, <2>2, RowUpdateType DEF Destroy, Restore, TypeOK, Addressed
<1>3. ASSUME NEW w \in Workers, ClaimSelect(w) PROVE TypeOK'
  <2>1. PICK u \in Users, t \in Tasks :
          Begin(w, "claim", t, [Idle EXCEPT !.user = u, !.asOf = clock])
    BY <1>3 DEF ClaimSelect
  <2> DEFINE q == [Idle EXCEPT !.user = u, !.asOf = clock]
  <2>2. q \in Request /\ q.user \in Users
    BY IdleType DEF Request, TypeOK
  <2> HIDE DEF q
  <2> QED BY <2>1, <2>2, BeginType DEF Ops, q
<1>4. ASSUME NEW w \in Workers, ClaimLock(w) PROVE TypeOK'
  <2>1. req[w].op # "idle" /\ Finish(w)
    BY <1>4 DEF ClaimLock
  <2> DEFINE t == req[w].task
             r == [row[t] EXCEPT !.holder = req[w].user,
                                 !.until = req[w].asOf + LeaseTime,
                                 !.status = IF @ = "pending" THEN "in_progress" ELSE @]
  <2>2. r \in Row
    <3>1. row[t] \in Row /\ req[w].user \in Users
      BY <1>4, <2>1, RequestType DEF ClaimLock
    <3>2. req[w].asOf + LeaseTime \in Nat
      <4>1. req[w].asOf \in Nat
        BY <2>1, RequestType DEF Request
      <4>2. LeaseTime \in Nat
        BY ConstantsAssumption
      <4> QED BY <4>1, <4>2
    <3>3. (IF row[t].status = "pending" THEN "in_progress" ELSE row[t].status) \in Statuses
      BY <3>1 DEF Row, Statuses
    <3> HIDE DEF t
    <3> QED BY <3>1, <3>2, <3>3 DEF Row
  <2>3. row' = [row EXCEPT ![t] = r]
    BY <1>4 DEF ClaimLock
  <2> HIDE DEF r
  <2> QED BY <1>4, <2>1, <2>2, <2>3, CommitType DEF ClaimLock, TypeOK
<1>5. ASSUME NEW w \in Workers, ClaimNothing(w) \/ AnnotateConflict(w) \/ Abandon(w)
      PROVE TypeOK'
  BY <1>5, FinishType DEF ClaimNothing, AnnotateConflict, Abandon, TypeOK, Addressed
<1>6. ASSUME NEW w \in Workers, AnnotateRead(w) PROVE TypeOK'
  <2>1. PICK u \in Users, t \in Tasks :
          Begin(w, "annotate", t, [Idle EXCEPT !.user = u, !.snap = row[t]])
    BY <1>6 DEF AnnotateRead
  <2> DEFINE q == [Idle EXCEPT !.user = u, !.snap = row[t]]
  <2>2. q \in Request /\ q.user \in Users
    BY IdleType DEF Request, TypeOK
  <2> HIDE DEF q
  <2> QED BY <2>1, <2>2, BeginType DEF Ops, q
<1>7. ASSUME NEW w \in Workers, AnnotateInsert(w) PROVE TypeOK'
  <2>1. req[w].op = "annotate" /\ req[w].user \in Users
    BY <1>7, RequestType DEF AnnotateInsert
  <2>2. PICK p \in Preferences, v \in Preferences \cup {Undecided} :
          req' = [req EXCEPT ![w].op = "vote",
                             ![w].ballots = annotations[req[w].task] \cup {<<req[w].user, p>>},
                             ![w].verdict = v]
    BY <1>7, VerdictType, ConstantsAssumption DEF AnnotateInsert
  <2> DEFINE b == annotations[req[w].task] \cup {<<req[w].user, p>>}
             q == [req[w] EXCEPT !.op = "vote", !.ballots = b, !.verdict = v]
  <2>3. b \subseteq Ballots
    <3>1. annotations[req[w].task] \subseteq Ballots
      BY <2>1, RequestType
    <3>2. <<req[w].user, p>> \in Ballots
      BY <2>1 DEF Ballots
    <3> QED BY <3>1, <3>2
  <2>4. q \in Request /\ Addressed(q)
    BY <2>1, <2>3, RequestType DEF Request, Ops, Addressed
  <2>5. req' = [req EXCEPT ![w] = q]
    BY <2>2
  <2> HIDE DEF q
  <2> QED BY <1>7, <2>4, <2>5 DEF AnnotateInsert, TypeOK, Addressed
<1>8. ASSUME NEW w \in Workers, AnnotateCommit(w) PROVE TypeOK'
  <2>1. req[w].op = "vote" /\ Finish(w)
    BY <1>8 DEF AnnotateCommit
  <2>2. ConsensusRow(row[req[w].task], req[w]) \in Row
    BY <2>1, RequestType, ConsensusRowType
  <2>3. row' \in [Tasks -> Row]
    BY <1>8, <2>2 DEF AnnotateCommit, TypeOK
  <2>4. ConsensusEvents(req[w]) \subseteq Event
    BY <2>1, RequestType, ConsensusEventsType
  <2>5. annotations' \in [Tasks -> SUBSET Ballots]
    BY <1>8, <2>1, RequestType DEF AnnotateCommit, TypeOK, Request
  <2> QED BY <1>8, <2>1, <2>3, <2>4, <2>5, FinishType DEF AnnotateCommit, TypeOK, Addressed
<1>9. ASSUME NEW w \in Workers, AnnotateGoldCommit(w) PROVE TypeOK'
  <2>1. req[w].op = "vote" /\ Finish(w)
    BY <1>9 DEF AnnotateGoldCommit
  <2>2. [Released(row[req[w].task]) EXCEPT !.status = "pending"] \in Row
    BY <2>1, RequestType DEF Released, Row, Statuses
  <2>3. row' \in [Tasks -> Row]
    BY <1>9, <2>2 DEF AnnotateGoldCommit, TypeOK
  <2>4. annotations' \in [Tasks -> SUBSET Ballots]
    BY <1>9, <2>1, RequestType DEF AnnotateGoldCommit, TypeOK, Request
  <2>5. evaluated' \in [Users -> Nat] /\ correct' \in [Users -> Nat]
    <3>1. req[w].user \in Users
      BY <2>1, RequestType
    <3>2. evaluated' = [evaluated EXCEPT ![req[w].user] = @ + 1]
      BY <1>9 DEF AnnotateGoldCommit, BumpEvaluated
    <3>3. correct' = correct \/ correct' = [correct EXCEPT ![req[w].user] = @ + 1]
      BY <1>9 DEF AnnotateGoldCommit
    <3> QED BY <3>1, <3>2, <3>3 DEF TypeOK
  <2>6. outbox' \subseteq Event
    <3>1. Announce("annotator.calibrated", req[w].task, Undecided, "gold") \in Event
      BY <2>1, RequestType, EventType DEF EventTypes, Origins
    <3> QED BY <1>9, <3>1 DEF AnnotateGoldCommit, TypeOK
  <2> QED BY <1>9, <2>1, <2>3, <2>4, <2>5, <2>6, FinishType DEF AnnotateGoldCommit, TypeOK, Addressed
<1>10. ASSUME NEW w \in Workers, AdjudicateRead(w) PROVE TypeOK'
  BY <1>10, IdleType, BeginType DEF AdjudicateRead, Ops
<1>11. ASSUME NEW w \in Workers, TriageRead(w) \/ UpdateRead(w) \/ TranslateRead(w)
       PROVE TypeOK'
  <2>1. PICK t \in Tasks, op \in {"triage", "update", "translate"} :
          Begin(w, op, t, [Idle EXCEPT !.snap = row[t]])
    BY <1>11 DEF TriageRead, UpdateRead, TranslateRead
  <2>2. [Idle EXCEPT !.snap = row[t]] \in Request
    BY IdleType DEF Request, TypeOK
  <2> QED BY <2>1, <2>2, BeginType DEF Ops
<1>12. ASSUME NEW w \in Workers, AdjudicateCommit(w) PROVE TypeOK'
  <2>1. req[w].op # "idle" /\ Finish(w)
    BY <1>12 DEF AdjudicateCommit
  <2> DEFINE t == req[w].task
  <2>2. PICK choice \in Preferences :
          /\ row' = [row EXCEPT ![t] = [Released(row[t]) EXCEPT !.choice = choice,
                                                               !.status = "completed"]]
          /\ outbox' = outbox \cup {Announce(type, t, choice, "adjudicator") :
                                      type \in {"task.consensus_reached", "task.completed"}}
    BY <1>12, ConstantsAssumption DEF AdjudicateCommit
  <2>3. [Released(row[t]) EXCEPT !.choice = choice, !.status = "completed"] \in Row
    BY <2>1, RequestType DEF Released, Row, Statuses
  <2>4. outbox' \subseteq Event
    BY <2>1, <2>2, RequestType, EventType DEF TypeOK, EventTypes, Origins
  <2> QED BY <1>12, <2>1, <2>2, <2>3, <2>4, CommitType DEF AdjudicateCommit
<1>13. ASSUME NEW w \in Workers, TriageCommit(w) PROVE TypeOK'
  <2>1. req[w].op # "idle" /\ Finish(w)
    BY <1>13 DEF TriageCommit
  <2> DEFINE t == req[w].task
  <2>2. PICK b \in BOOLEAN : row' = [row EXCEPT ![t] = [row[t] EXCEPT !.escalated = b]]
    BY <1>13, <2>1, RequestType DEF TriageCommit, Row
  <2>3. outbox' \subseteq Event
    <3>1. Announce("task.uncertainty_escalated", t, Undecided, "judge") \in Event
      BY <2>1, RequestType, EventType DEF EventTypes, Origins
    <3>2. \/ outbox' = outbox
          \/ outbox' = outbox \cup {Announce("task.uncertainty_escalated", t,
                                             Undecided, "judge")}
      BY <1>13 DEF TriageCommit
    <3> QED BY <3>1, <3>2 DEF TypeOK
  <2>4. [row[t] EXCEPT !.escalated = b] \in Row
    BY <2>1, RequestType, RowUpdateType
  <2> QED BY <1>13, <2>1, <2>2, <2>3, <2>4, CommitType DEF TriageCommit
<1>14. ASSUME NEW w \in Workers, UpdateCommit(w) PROVE TypeOK'
  <2>1. req[w].op # "idle" /\ Finish(w)
    BY <1>14 DEF UpdateCommit
  <2>2. PICK edit \in Statuses \X BOOLEAN :
          /\ row' = [row EXCEPT ![req[w].task] =
                        [req[w].snap EXCEPT !.status = edit[1], !.active = edit[2]]]
          /\ outbox' = outbox \cup UpdateEvents(req[w], edit[1])
    <3>1. <<req[w].snap.status, req[w].snap.active>> \in Statuses \X BOOLEAN
      BY <2>1, RequestType DEF Row
    <3> QED BY <1>14, <3>1, EditsAssumption DEF UpdateCommit
  <2>3. [req[w].snap EXCEPT !.status = edit[1], !.active = edit[2]] \in Row
    BY <2>1, RequestType, EditsAssumption DEF Row
  <2>4. outbox' \subseteq Event
    BY <2>1, <2>2, RequestType, EventType DEF TypeOK, UpdateEvents, EventTypes, Origins
  <2> QED BY <1>14, <2>1, <2>2, <2>3, <2>4, CommitType DEF UpdateCommit
<1>15. ASSUME NEW w \in Workers, TranslateCommit(w) PROVE TypeOK'
  <2>1. req[w].op # "idle" /\ Finish(w)
    BY <1>15 DEF TranslateCommit
  <2>2. outbox' \subseteq Event
    <3>1. Announce("task.translated", req[w].task, Undecided, "translator") \in Event
      BY <2>1, RequestType, EventType DEF EventTypes, Origins
    <3> QED BY <1>15, <3>1 DEF TranslateCommit, TypeOK
  <2> QED BY <1>15, <2>1, <2>2, RequestType, CommitType DEF TranslateCommit
<1>16. CASE UNCHANGED vars
  BY <1>16 DEF vars, TypeOK, Addressed
<1> QED
  BY <1>1, <1>2, <1>3, <1>4, <1>5, <1>6, <1>7, <1>8, <1>9, <1>10, <1>11, <1>12,
     <1>13, <1>14, <1>15, <1>16 DEF Next

(* Every operation keeps the types of the tables, of the outbox and of the *)
(* requests.                                                               *)
THEOREM TypeCorrect == Spec => []TypeOK
  BY TypeInit, TypeStep, PTL DEF Spec
-------------------------------------------------------------------------------
(* Decisions and announcements                                             *)

(* What the annotations and the events committed so far must say for a row *)
(* of task t, stored or remembered.                                        *)
Backed(r, t, ballots, events) ==
  /\ r.choice # Undecided =>
       /\ \/ Announce("task.completed", t, r.choice, "adjudicator") \in events
          \/ WonBy(r.choice, ballots)
       /\ \E by \in {"consensus", "adjudicator"} :
            /\ Announce("task.consensus_reached", t, r.choice, by) \in events
            /\ Announce("task.completed", t, r.choice, by) \in events
  /\ r.status = "completed" =>
       \E e \in events : e.task = t /\ e.type = "task.completed"
  /\ r.escalated =>
       \E e \in events : e.task = t /\ e.type = "task.uncertainty_escalated"

EventBacked(e, given) ==
  e.by = "consensus" /\ e.choice # Undecided => WonBy(e.choice, given[e.task])

(* A request's copy of the row is as well backed as the row, because the   *)
(* annotations and the events only grow; an open vote's verdict is won by  *)
(* the ballots it read.                                                    *)
RequestBacked(q, given, events) ==
  /\ q.op # "idle" => Backed(q.snap, q.task, given[q.task], events)
  /\ q.op = "vote" /\ q.verdict # Undecided => WonBy(q.verdict, q.ballots)

Backing ==
  /\ TypeOK
  /\ \A t \in Tasks : Backed(row[t], t, annotations[t], outbox)
  /\ \A w \in Workers : RequestBacked(req[w], annotations, outbox)
  /\ \A e \in outbox : EventBacked(e, annotations)

(* More ballots and more events back no less.                              *)
LEMMA WonByMonotone ==
  ASSUME NEW choice, NEW few, NEW many, few \subseteq many, WonBy(choice, few)
  PROVE  WonBy(choice, many)
  BY DEF WonBy

LEMMA BackedMonotone ==
  ASSUME NEW r, NEW t, NEW few, NEW many, few \subseteq many,
         NEW old, NEW new, old \subseteq new, Backed(r, t, few, old)
  PROVE  Backed(r, t, many, new)
  BY WonByMonotone DEF Backed

(* Only three columns of a row need backing.                               *)
LEMMA BackedColumns ==
  ASSUME NEW r, NEW s, NEW t, NEW ballots, NEW events, Backed(r, t, ballots, events),
         s.choice = r.choice, s.escalated = r.escalated,
         s.status = r.status \/ s.status # "completed"
  PROVE  Backed(s, t, ballots, events)
  BY DEF Backed

LEMMA RequestBackedMonotone ==
  ASSUME NEW q, NEW few, NEW many, q.op # "idle" => few[q.task] \subseteq many[q.task],
         NEW old, NEW new, old \subseteq new, RequestBacked(q, few, old)
  PROVE  RequestBacked(q, many, new)
  BY BackedMonotone DEF RequestBacked

LEMMA IdleBacked ==
  ASSUME NEW given, NEW events
  PROVE  RequestBacked(Idle, given, events)
  BY DEF RequestBacked, Idle

(* An announcement is backed unless it is a consensus decision nobody won. *)
LEMMA AnnounceBacked ==
  ASSUME NEW type, NEW t, NEW choice, NEW by, NEW given,
         by # "consensus" \/ choice = Undecided \/ WonBy(choice, given[t])
  PROVE  EventBacked(Announce(type, t, choice, by), given)
  <1> DEFINE e == Announce(type, t, choice, by)
  <1>1. e.task = t /\ e.choice = choice /\ e.by = by
    BY DEF Announce
  <1> HIDE DEF e
  <1>2. EventBacked(e, given)
    BY <1>1 DEF EventBacked
  <1> QED BY <1>2 DEF e

LEMMA NewRowBacked ==
  ASSUME NEW t, NEW ballots, NEW events
  PROVE  Backed(NewRow, t, ballots, events)
  BY DEF Backed, NewRow

(* A verdict of evaluate_task_consensus is won by the ballots it counted.  *)
LEMMA VerdictWon ==
  ASSUME NEW ballots, NEW weight \in [Users -> CalibratedWeights \cup {NeutralWeight}],
         Verdict(ballots, weight, Required) # Undecided
  PROVE  WonBy(Verdict(ballots, weight, Required), ballots)
  <1> DEFINE v == Verdict(ballots, weight, Required)
  <1>1. Cardinality(ballots) >= Required /\ \E choice \in Preferences : Wins(choice, ballots, weight)
    BY DEF Verdict
  <1>2. Wins(v, ballots, weight)
    BY <1>1 DEF Verdict
  <1> HIDE DEF v
  <1> QED BY <1>1, <1>2 DEF WonBy, v

(* A step that only adds annotations and events, and whose new rows, new   *)
(* requests and new events are backed, keeps the invariant.                *)
LEMMA BackingStep ==
  ASSUME Backing, TypeOK',
         outbox \subseteq outbox',
         \A t \in Tasks : annotations[t] \subseteq annotations'[t],
         \A t \in Tasks : row'[t] = row[t] \/ Backed(row'[t], t, annotations'[t], outbox'),
         \A w \in Workers : req'[w] = Idle \/ req'[w] = req[w] \/ RequestBacked(req'[w], annotations', outbox'),
         \A e \in outbox' : e \in outbox \/ EventBacked(e, annotations')
  PROVE  Backing'
  <1>1. ASSUME NEW t \in Tasks PROVE Backed(row'[t], t, annotations'[t], outbox')
    BY BackedMonotone DEF Backing
  <1>2. ASSUME NEW w \in Workers PROVE RequestBacked(req'[w], annotations', outbox')
    <2>1. CASE req'[w] = Idle
      BY <2>1, IdleBacked
    <2>2. CASE req'[w] = req[w]
      <3>1. RequestBacked(req[w], annotations, outbox)
        BY DEF Backing
      <3>2. req[w].op # "idle" => annotations[req[w].task] \subseteq annotations'[req[w].task]
        BY DEF Backing, TypeOK, Addressed
      <3> QED BY <2>2, <3>1, <3>2, RequestBackedMonotone
    <2> QED BY <2>1, <2>2
  <1>3. ASSUME NEW e \in outbox' PROVE EventBacked(e, annotations')
    <2>1. CASE e \in outbox
      <3>1. e.task \in Tasks
        BY <2>1 DEF Backing, TypeOK, Event
      <3> QED BY <2>1, <3>1, WonByMonotone DEF Backing, EventBacked
    <2> QED BY <2>1
  <1> QED BY <1>1, <1>2, <1>3 DEF Backing

(* A transaction that leaves the annotations alone and backs its row and   *)
(* its events.                                                             *)
LEMMA BackingCommit ==
  ASSUME Backing, TypeOK', NEW w \in Workers, Finish(w), req[w].task \in Tasks,
         NEW r, row' = [row EXCEPT ![req[w].task] = r],
         UNCHANGED annotations, outbox \subseteq outbox',
         \A e \in outbox' : e \in outbox \/ EventBacked(e, annotations),
         Backed(r, req[w].task, annotations[req[w].task], outbox')
  PROVE  Backing'
  <1>1. \A t \in Tasks : row'[t] = row[t] \/ Backed(row'[t], t, annotations'[t], outbox')
    BY DEF Backing, TypeOK
  <1>2. \A v \in Workers : req'[v] = Idle \/ req'[v] = req[v]
    BY DEF Finish, Backing, TypeOK
  <1>3. \A t \in Tasks : annotations[t] \subseteq annotations'[t]
    OBVIOUS
  <1>4. \A e \in outbox' : e \in outbox \/ EventBacked(e, annotations')
    OBVIOUS
  <1> QED BY <1>1, <1>2, <1>3, <1>4, BackingStep

(* Taking up a request copies a backed row or none.                        *)
LEMMA BackingBegin ==
  ASSUME Backing, TypeOK', NEW w \in Workers, NEW op \in Ops \ {"vote"}, NEW t \in Tasks,
         NEW request \in Request, Begin(w, op, t, request),
         request.snap \in {NewRow, row[t]}
  PROVE  Backing'
  <1> DEFINE q == [request EXCEPT !.op = op, !.task = t]
  <1>1. q.op = op /\ q.task = t /\ q.snap = request.snap
    BY DEF Request
  <1>2. Backed(request.snap, t, annotations[t], outbox)
    BY NewRowBacked DEF Backing
  <1>3. RequestBacked(q, annotations, outbox)
    <2> HIDE DEF q
    <2> QED BY <1>1, <1>2 DEF RequestBacked
  <1>4. req' = [req EXCEPT ![w] = q]
    BY DEF Begin
  <1> HIDE DEF q
  <1>5. \A v \in Workers : req'[v] = req[v] \/ req'[v] = q
    BY <1>4 DEF Backing, TypeOK
  <1>6. UNCHANGED <<row, annotations, outbox>>
    BY DEF Begin
  <1>7. \A v \in Workers :
          req'[v] = Idle \/ req'[v] = req[v] \/ RequestBacked(req'[v], annotations', outbox')
    BY <1>3, <1>5, <1>6
  <1> QED BY <1>6, <1>7, BackingStep

(* Every operation keeps every row and every copy backed.                  *)
LEMMA BackingNext == Backing /\ [Next]_vars => Backing'
<1> SUFFICES ASSUME Backing, [Next]_vars PROVE Backing'
  OBVIOUS
<1> TypeOK /\ TypeOK'
  BY TypeStep DEF Backing
<1>1. CASE Tick
  BY <1>1, BackingStep DEF Tick
<1>2. ASSUME NEW t \in Tasks, Destroy(t) \/ Restore(t) PROVE Backing'
  <2>1. PICK b \in BOOLEAN : row' = [row EXCEPT ![t].active = b]
    BY <1>2 DEF Destroy, Restore
  <2>2. row[t] \in Row /\ Backed(row[t], t, annotations[t], outbox)
    BY DEF Backing, TypeOK
  <2> DEFINE r == [row[t] EXCEPT !.active = b]
  <2>3. Backed(r, t, annotations[t], outbox)
    <3>1. r.choice = row[t].choice /\ r.escalated = row[t].escalated /\ r.status = row[t].status
      BY <2>2 DEF Row
    <3> HIDE DEF r
    <3> QED BY <2>2, <3>1, BackedColumns
  <2>4. UNCHANGED <<annotations, outbox, req>>
    BY <1>2 DEF Destroy, Restore
  <2>5. \A s \in Tasks : row'[s] = row[s] \/ Backed(row'[s], s, annotations'[s], outbox')
    BY <2>1, <2>3, <2>4 DEF TypeOK
  <2> QED BY <2>4, <2>5, BackingStep
<1>3. ASSUME NEW w \in Workers,
             ClaimSelect(w) \/ AnnotateRead(w) \/ AdjudicateRead(w)
               \/ TriageRead(w) \/ UpdateRead(w) \/ TranslateRead(w)
      PROVE  Backing'
  BY <1>3, ReadBegins, BackingBegin
<1>4. ASSUME NEW w \in Workers, ClaimNothing(w) \/ AnnotateConflict(w) \/ Abandon(w)
      PROVE  Backing'
  <2>1. \A v \in Workers : req'[v] = Idle \/ req'[v] = req[v]
    BY <1>4 DEF ClaimNothing, AnnotateConflict, Abandon, Finish, TypeOK
  <2>2. UNCHANGED <<row, annotations, outbox>>
    BY <1>4 DEF ClaimNothing, AnnotateConflict, Abandon
  <2> QED BY <2>1, <2>2, BackingStep
<1>5. ASSUME NEW w \in Workers, ClaimLock(w) PROVE Backing'
  <2> DEFINE t == req[w].task
             r == [row[t] EXCEPT !.holder = req[w].user,
                                 !.until = req[w].asOf + LeaseTime,
                                 !.status = IF @ = "pending" THEN "in_progress" ELSE @]
  <2>1. row[t] \in Row /\ t \in Tasks /\ Backed(row[t], t, annotations[t], outbox)
    BY <1>5, RequestType DEF ClaimLock, Backing
  <2>2. Backed(r, t, annotations[t], outbox)
    <3>1. r.choice = row[t].choice /\ r.escalated = row[t].escalated
      BY <2>1 DEF Row
    <3>2. r.status = row[t].status \/ r.status # "completed"
      BY <2>1 DEF Row
    <3> HIDE DEF r
    <3> QED BY <2>1, <3>1, <3>2, BackedColumns
  <2>3. row' = [row EXCEPT ![t] = r] /\ Finish(w) /\ UNCHANGED <<annotations, outbox>>
    BY <1>5 DEF ClaimLock
  <2> HIDE DEF r
  <2> QED BY <2>1, <2>2, <2>3, BackingCommit
<1>6. ASSUME NEW w \in Workers, AnnotateInsert(w) PROVE Backing'
  <2> DEFINE t == req[w].task
  <2>1. req[w] \in Request /\ req[w].op = "annotate" /\ t \in Tasks
    BY <1>6, RequestType DEF AnnotateInsert
  <2>2. PICK b, v : /\ req' = [req EXCEPT ![w].op = "vote", ![w].ballots = b, ![w].verdict = v]
                    /\ v # Undecided => WonBy(v, b)
    <3>1. PICK p \in Votes, weight \in EffectiveWeights :
            req' = [req EXCEPT ![w].op = "vote",
                      ![w].ballots = annotations[t] \cup {<<req[w].user, p>>},
                      ![w].verdict = IF t \in Gold THEN Undecided
                                     ELSE Verdict(annotations[t] \cup {<<req[w].user, p>>},
                                                  weight, Required)]
      BY <1>6 DEF AnnotateInsert
    <3>2. weight \in [Users -> CalibratedWeights \cup {NeutralWeight}]
      BY DEF EffectiveWeights
    <3> DEFINE b == annotations[t] \cup {<<req[w].user, p>>}
    <3>3. Verdict(b, weight, Required) # Undecided => WonBy(Verdict(b, weight, Required), b)
      BY <3>2, VerdictWon
    <3> QED BY <3>1, <3>3
  <2> DEFINE q == [req[w] EXCEPT !.op = "vote", !.ballots = b, !.verdict = v]
  <2>3. /\ q.op = "vote" /\ q.ballots = b /\ q.verdict = v
        /\ q.task = t /\ q.snap = req[w].snap
    BY <2>1 DEF Request
  <2>4. Backed(req[w].snap, t, annotations[t], outbox)
    BY <2>1 DEF Backing, RequestBacked
  <2> HIDE DEF q
  <2>5. RequestBacked(q, annotations, outbox)
    BY <2>2, <2>3, <2>4 DEF RequestBacked
  <2>6. \A x \in Workers : req'[x] = req[x] \/ req'[x] = q
    BY <2>2 DEF TypeOK, q
  <2>7. UNCHANGED <<row, annotations, outbox>>
    BY <1>6 DEF AnnotateInsert
  <2>8. \A x \in Workers :
          req'[x] = Idle \/ req'[x] = req[x] \/ RequestBacked(req'[x], annotations', outbox')
    BY <2>5, <2>6, <2>7
  <2> QED BY <2>7, <2>8, BackingStep
<1>7. ASSUME NEW w \in Workers, AnnotateCommit(w) PROVE Backing'
  <2> DEFINE q == req[w]
             t == q.task
             r == ConsensusRow(row[t], q)
  <2>1. /\ q.op = "vote" /\ Finish(w) /\ outbox' = outbox \cup ConsensusEvents(q)
        /\ annotations' = [annotations EXCEPT ![t] = annotations[t] \cup q.ballots]
        /\ row' = [row EXCEPT ![t] = r]
    BY <1>7 DEF AnnotateCommit
  <2>2. /\ q \in Request /\ t \in Tasks /\ row[t] \in Row /\ q.snap \in Row
        /\ Backed(q.snap, t, annotations[t], outbox)
        /\ q.verdict # Undecided => WonBy(q.verdict, q.ballots)
    BY <2>1, RequestType DEF Backing, RequestBacked
  <2>3. /\ \A s \in Tasks : annotations[s] \subseteq annotations'[s]
        /\ q.ballots \subseteq annotations'[t]
    BY <2>1, <2>2 DEF TypeOK
  <2>4. q.verdict # Undecided => WonBy(q.verdict, annotations'[t])
    BY <2>2, <2>3, WonByMonotone
  <2>5. /\ r.choice = q.verdict
        /\ r.status = IF q.verdict # Undecided THEN "completed"
                      ELSE IF q.snap.status = "pending" THEN "in_progress" ELSE q.snap.status
        /\ r.escalated = (q.snap.escalated \/ SplitVote(q))
    <3>1. Released(row[t]) \in Row
      BY <2>2, RowUpdateType
    <3> QED BY <3>1 DEF ConsensusRow, Row
  <2>6. Backed(r, t, annotations'[t], outbox')
    <3>1. q.verdict # Undecided =>
            /\ Announce("task.consensus_reached", t, q.verdict, "consensus") \in outbox'
            /\ Announce("task.completed", t, q.verdict, "consensus") \in outbox'
      BY <2>1 DEF ConsensusEvents
    <3>2. SplitVote(q) /\ ~q.snap.escalated =>
            Announce("task.uncertainty_escalated", t, Undecided, "consensus") \in outbox'
      BY <2>1 DEF ConsensusEvents
    <3>3. outbox \subseteq outbox'
      BY <2>1
    <3>4. r.status = "completed" =>
            \E e \in outbox' : e.task = t /\ e.type = "task.completed"
      <4>1. q.snap.status = "completed" =>
              \E e \in outbox : e.task = t /\ e.type = "task.completed"
        BY <2>2 DEF Backed
      <4>2. CASE q.verdict # Undecided
        BY <3>1, <4>2 DEF Announce
      <4>3. CASE q.verdict = Undecided
        BY <2>5, <3>3, <4>1, <4>3
      <4> QED BY <4>2, <4>3
    <3>5. r.escalated =>
            \E e \in outbox' : e.task = t /\ e.type = "task.uncertainty_escalated"
      <4>1. q.snap.escalated =>
              \E e \in outbox : e.task = t /\ e.type = "task.uncertainty_escalated"
        BY <2>2 DEF Backed
      <4>2. CASE q.snap.escalated
        BY <3>3, <4>1, <4>2
      <4>3. CASE ~q.snap.escalated
        BY <2>5, <3>2, <4>3 DEF Announce
      <4> QED BY <4>2, <4>3
    <3> HIDE DEF r, t, q
    <3> QED BY <2>4, <2>5, <3>1, <3>4, <3>5 DEF Backed
  <2>7. \A e \in ConsensusEvents(q) : EventBacked(e, annotations')
    <3>1. EventBacked(Announce("task.uncertainty_escalated", t, Undecided, "consensus"),
                      annotations')
      BY AnnounceBacked
    <3>2. \A type : q.verdict # Undecided =>
            EventBacked(Announce(type, t, q.verdict, "consensus"), annotations')
      BY <2>4, AnnounceBacked
    <3> QED BY <3>1, <3>2 DEF ConsensusEvents
  <2>8. \A v \in Workers : req'[v] = Idle \/ req'[v] = req[v]
    BY <2>1 DEF Finish, TypeOK
  <2>9. \A s \in Tasks : row'[s] = row[s] \/ Backed(row'[s], s, annotations'[s], outbox')
    BY <2>1, <2>2, <2>6 DEF TypeOK
  <2> HIDE DEF q, t, r
  <2> QED BY <2>1, <2>3, <2>7, <2>8, <2>9, BackingStep
<1>8. ASSUME NEW w \in Workers, AnnotateGoldCommit(w) PROVE Backing'
  <2> DEFINE q == req[w]
             t == q.task
             r == [Released(row[t]) EXCEPT !.status = "pending"]
             e == Announce("annotator.calibrated", t, Undecided, "gold")
  <2>1. /\ q.op = "vote" /\ Finish(w) /\ outbox' = outbox \cup {e}
        /\ annotations' = [annotations EXCEPT ![t] = annotations[t] \cup q.ballots]
        /\ row' = [row EXCEPT ![t] = r]
    BY <1>8 DEF AnnotateGoldCommit
  <2>2. t \in Tasks /\ row[t] \in Row /\ Backed(row[t], t, annotations[t], outbox)
    BY <2>1, RequestType DEF Backing
  <2>3. \A s \in Tasks : annotations[s] \subseteq annotations'[s]
    BY <2>1, <2>2 DEF TypeOK
  <2>4. r.choice = row[t].choice /\ r.escalated = row[t].escalated /\ r.status = "pending"
    BY <2>2 DEF Released, Row
  <2> HIDE DEF r
  <2>5. Backed(r, t, annotations'[t], outbox')
    <3>1. Backed(r, t, annotations[t], outbox)
      BY <2>2, <2>4, BackedColumns
    <3>2. outbox \subseteq outbox' /\ annotations[t] \subseteq annotations'[t]
      BY <2>1, <2>2, <2>3
    <3> HIDE DEF t, q
    <3> QED BY <3>1, <3>2, BackedMonotone
  <2>6. EventBacked(e, annotations')
    BY AnnounceBacked
  <2>7. \A v \in Workers : req'[v] = Idle \/ req'[v] = req[v]
    BY <2>1 DEF Finish, TypeOK
  <2>8. \A s \in Tasks : row'[s] = row[s] \/ Backed(row'[s], s, annotations'[s], outbox')
    BY <2>1, <2>2, <2>5 DEF TypeOK
  <2> HIDE DEF q, t, e
  <2> QED BY <2>1, <2>3, <2>7, <2>8, <2>6, BackingStep
<1>9. ASSUME NEW w \in Workers, AdjudicateCommit(w) PROVE Backing'
  <2> DEFINE t == req[w].task
  <2>1. PICK choice \in Votes :
          /\ row' = [row EXCEPT ![t] = [Released(row[t]) EXCEPT !.choice = choice,
                                                               !.status = "completed"]]
          /\ outbox' = outbox \cup {Announce(type, t, choice, "adjudicator") :
                                      type \in {"task.consensus_reached", "task.completed"}}
    BY <1>9 DEF AdjudicateCommit
  <2> DEFINE r == [Released(row[t]) EXCEPT !.choice = choice, !.status = "completed"]
  <2>2. Finish(w) /\ UNCHANGED annotations /\ outbox \subseteq outbox'
    BY <1>9, <2>1 DEF AdjudicateCommit
  <2>3. t \in Tasks /\ row[t] \in Row /\ Backed(row[t], t, annotations[t], outbox)
    BY <1>9, RequestType DEF AdjudicateCommit, Backing
  <2>4. r.choice = choice /\ r.status = "completed" /\ r.escalated = row[t].escalated
    BY <2>3 DEF Released, Row
  <2>5. \A e \in outbox' : e \in outbox \/ EventBacked(e, annotations)
    <3>1. ASSUME NEW type
          PROVE  EventBacked(Announce(type, t, choice, "adjudicator"), annotations)
      <4>1. "adjudicator" # "consensus"
        OBVIOUS
      <4> HIDE DEF t
      <4> QED BY <4>1, AnnounceBacked
    <3>2. \A e \in outbox' :
            e \in outbox \/ \E type : e = Announce(type, t, choice, "adjudicator")
      BY <2>1
    <3> HIDE DEF t
    <3> QED BY <3>1, <3>2
  <2>6. /\ Announce("task.consensus_reached", t, choice, "adjudicator") \in outbox'
        /\ Announce("task.completed", t, choice, "adjudicator") \in outbox'
    BY <2>1
  <2>7. \E e \in outbox' : e.task = t /\ e.type = "task.completed"
    BY <2>6 DEF Announce
  <2>8. r.escalated => \E e \in outbox' : e.task = t /\ e.type = "task.uncertainty_escalated"
    BY <2>2, <2>3, <2>4 DEF Backed
  <2> HIDE DEF r, t
  <2>9. Backed(r, t, annotations[t], outbox')
    BY <2>4, <2>6, <2>7, <2>8 DEF Backed
  <2>10. row' = [row EXCEPT ![t] = r]
    BY <2>1 DEF r
  <2> QED BY <2>2, <2>3, <2>5, <2>9, <2>10, BackingCommit DEF t
<1>10. ASSUME NEW w \in Workers, TriageCommit(w) PROVE Backing'
  <2> DEFINE t == req[w].task
             e == Announce("task.uncertainty_escalated", t, Undecided, "judge")
  <2>1. PICK escalate \in BOOLEAN :
          /\ row' = [row EXCEPT ![t].escalated =
                         IF escalate /\ ~req[w].snap.escalated THEN TRUE ELSE @]
          /\ outbox' = IF escalate THEN outbox \cup {e} ELSE outbox
    BY <1>10 DEF TriageCommit
  <2> DEFINE r == [row[t] EXCEPT !.escalated =
                      IF escalate /\ ~req[w].snap.escalated THEN TRUE ELSE row[t].escalated]
  <2>2. Finish(w) /\ UNCHANGED annotations /\ outbox \subseteq outbox'
    BY <1>10, <2>1 DEF TriageCommit
  <2>3. t \in Tasks /\ row[t] \in Row /\ Backed(row[t], t, annotations[t], outbox)
    BY <1>10, RequestType DEF TriageCommit, Backing
  <2>4. EventBacked(e, annotations) /\ e.task = t /\ e.type = "task.uncertainty_escalated"
    BY DEF EventBacked, Announce
  <2>5. \A x \in outbox' : x \in outbox \/ EventBacked(x, annotations)
    BY <2>1, <2>4
  <2>6. Backed(row[t], t, annotations[t], outbox')
    BY <2>2, <2>3, BackedMonotone
  <2>7. r.choice = row[t].choice /\ r.status = row[t].status
    BY <2>3 DEF Row
  <2>8. r.escalated => row[t].escalated \/ escalate
    BY <2>3 DEF Row
  <2>9. escalate => e \in outbox'
    BY <2>1
  <2>10. row' = [row EXCEPT ![t] = r]
    BY <2>1
  <2> HIDE DEF r, t, e
  <2>11. Backed(r, t, annotations[t], outbox')
    BY <2>4, <2>6, <2>7, <2>8, <2>9 DEF Backed
  <2> QED BY <2>2, <2>3, <2>5, <2>10, <2>11, BackingCommit DEF t
<1>11. ASSUME NEW w \in Workers, UpdateCommit(w) PROVE Backing'
  <2> DEFINE q == req[w]
             t == q.task
  <2>1. PICK edit :
          /\ row' = [row EXCEPT ![t] = [q.snap EXCEPT !.status = edit[1], !.active = edit[2]]]
          /\ outbox' = outbox \cup UpdateEvents(q, edit[1])
    BY <1>11 DEF UpdateCommit
  <2> DEFINE r == [q.snap EXCEPT !.status = edit[1], !.active = edit[2]]
  <2>2. Finish(w) /\ UNCHANGED annotations /\ outbox \subseteq outbox'
    BY <1>11, <2>1 DEF UpdateCommit
  <2>3. t \in Tasks /\ q.snap \in Row /\ Backed(q.snap, t, annotations[t], outbox)
    BY <1>11, RequestType DEF UpdateCommit, Backing, RequestBacked
  <2>4. \A e \in outbox' : e \in outbox \/ EventBacked(e, annotations)
    <3>1. EventBacked(Announce("task.completed", t, Undecided, "editor"), annotations)
      BY AnnounceBacked
    <3> QED BY <2>1, <3>1 DEF UpdateEvents
  <2>5. Backed(q.snap, t, annotations[t], outbox')
    BY <2>2, <2>3, BackedMonotone
  <2>6. r.choice = q.snap.choice /\ r.escalated = q.snap.escalated /\ r.status = edit[1]
    BY <2>3 DEF Row
  <2>7. q.snap.status # "completed" /\ edit[1] = "completed" =>
          \E e \in outbox' : e.task = t /\ e.type = "task.completed"
    <3>1. ASSUME q.snap.status # "completed", edit[1] = "completed"
          PROVE  Announce("task.completed", t, Undecided, "editor") \in outbox'
      BY <2>1, <3>1 DEF UpdateEvents
    <3> QED BY <3>1 DEF Announce
  <2>8. row' = [row EXCEPT ![t] = r]
    BY <2>1
  <2> HIDE DEF r, t, q
  <2>9. Backed(r, t, annotations[t], outbox')
    BY <2>5, <2>6, <2>7 DEF Backed
  <2> QED BY <2>2, <2>3, <2>4, <2>8, <2>9, BackingCommit DEF t, q
<1>12. ASSUME NEW w \in Workers, TranslateCommit(w) PROVE Backing'
  <2> DEFINE t == req[w].task
             e == Announce("task.translated", t, Undecided, "translator")
  <2>1. /\ t \in Tasks
        /\ Backed(req[w].snap, t, annotations[t], outbox)
    BY <1>12, RequestType DEF TranslateCommit, Backing, RequestBacked
  <2>2. /\ Finish(w) /\ UNCHANGED annotations
        /\ row' = [row EXCEPT ![t] = req[w].snap]
        /\ outbox' = outbox \cup {e}
    BY <1>12 DEF TranslateCommit
  <2>3. EventBacked(e, annotations)
    BY AnnounceBacked
  <2> HIDE DEF t, e
  <2>4. Backed(req[w].snap, t, annotations[t], outbox')
    BY <2>1, <2>2, BackedMonotone
  <2> QED BY <2>1, <2>2, <2>3, <2>4, BackingCommit DEF t
<1>13. CASE UNCHANGED vars
  BY <1>13, BackingStep DEF vars
<1> QED
  BY <1>1, <1>2, <1>3, <1>4, <1>5, <1>6, <1>7, <1>8, <1>9, <1>10, <1>11, <1>12, <1>13
  DEF Next

(* Nothing is decided and nobody remembers anything at the start.          *)
LEMMA BackingInit == Init => Backing
<1> SUFFICES ASSUME Init PROVE Backing
  OBVIOUS
<1>1. \A t \in Tasks : Backed(row[t], t, annotations[t], outbox)
  BY NewRowBacked DEF Init
<1>2. \A w \in Workers : RequestBacked(req[w], annotations, outbox)
  BY IdleBacked DEF Init
<1>3. outbox = {}
  BY DEF Init
<1> QED BY <1>1, <1>2, <1>3, TypeInit DEF Backing

(* Stored decisions and published consensus decisions have their votes or  *)
(* their adjudicator, for any number of overlapping requests               *)
(* (evaluate_task_consensus, adjudicate, perform_update).                  *)
THEOREM DecisionsSupported == Spec => []DecisionsAreSupported
<1>1. Backing => DecisionsAreSupported
  BY DEF Backing, Backed, EventBacked, DecisionsAreSupported, Adjudicated, Announced
<1> QED BY <1>1, BackingInit, BackingNext, PTL DEF Spec

(* Every decision, completion and escalation a row shows was published in  *)
(* the outbox (the publish_event calls of the task handlers).              *)
THEOREM TransitionsAnnounced == Spec => []TransitionsAreAnnounced
<1>1. Backing => TransitionsAreAnnounced
  BY DEF Backing, Backed, TransitionsAreAnnounced, Announced
<1> QED BY <1>1, BackingInit, BackingNext, PTL DEF Spec

-------------------------------------------------------------------------------
(* One ballot per annotator                                                *)

(* An open vote adds one ballot of its annotator to those committed, and   *)
(* the unique index keeps every other vote of that annotator waiting.      *)
VoteIsNew(w) ==
  req[w].op = "vote" =>
    /\ req[w].user \notin Voters(annotations[req[w].task])
    /\ \E p :
         /\ <<req[w].user, p>> \in req[w].ballots
         /\ req[w].ballots \subseteq annotations[req[w].task] \cup {<<req[w].user, p>>}

VotesDiffer(v, w) ==
  req[v].op = "vote" /\ req[w].op = "vote" /\ req[v].task = req[w].task
    => req[v].user # req[w].user

Balloting ==
  /\ TypeOK
  /\ OneBallotPerAnnotator
  /\ \A w \in Workers : VoteIsNew(w)
  /\ \A v, w \in Workers : v # w => VotesDiffer(v, w)

(* Adding a ballot of a new voter.                                         *)
LEMMA OneMoreBallot ==
  ASSUME NEW few, NEW many, NEW u, NEW p,
         \A a, b \in few : a[1] = b[1] => a = b, u \notin Voters(few),
         few \subseteq many, many \subseteq few \cup {<<u, p>>}
  PROVE  /\ \A a, b \in many : a[1] = b[1] => a = b
         /\ \A x : x \in Voters(many) => x \in Voters(few) \/ x = u
  BY DEF Voters

(* A step that leaves the annotations alone and opens no vote.             *)
LEMMA BallotingStutter ==
  ASSUME Balloting, TypeOK', UNCHANGED annotations,
         \A w \in Workers : req'[w] = req[w] \/ req'[w].op # "vote"
  PROVE  Balloting'
  <1>1. OneBallotPerAnnotator'
    BY DEF Balloting, OneBallotPerAnnotator
  <1>2. ASSUME NEW w \in Workers PROVE VoteIsNew(w)'
    BY DEF Balloting, VoteIsNew
  <1>3. ASSUME NEW v \in Workers, NEW w \in Workers, v # w PROVE VotesDiffer(v, w)'
    BY <1>3 DEF Balloting, VotesDiffer
  <1> QED BY <1>1, <1>2, <1>3 DEF Balloting

(* The commit of a vote, on an ordinary task or on a gold one.             *)
LEMMA BallotingCommit ==
  ASSUME Balloting, TypeOK', NEW w \in Workers, req[w].op = "vote", Finish(w),
         annotations' = [annotations EXCEPT ![req[w].task] = @ \cup req[w].ballots]
  PROVE  Balloting'
  <1> DEFINE t == req[w].task
             u == req[w].user
  <1>1. t \in Tasks /\ TypeOK
    BY RequestType DEF Balloting
  <1>2. PICK p : req[w].ballots \subseteq annotations[t] \cup {<<u, p>>}
    BY DEF Balloting, VoteIsNew
  <1>3. /\ annotations[t] \subseteq annotations'[t]
        /\ annotations'[t] \subseteq annotations[t] \cup {<<u, p>>}
        /\ \A s \in Tasks \ {t} : annotations'[s] = annotations[s]
    BY <1>1, <1>2 DEF TypeOK
  <1>4. u \notin Voters(annotations[t])
    BY DEF Balloting, VoteIsNew
  <1>5. \A a, b \in annotations[t] : a[1] = b[1] => a = b
    BY <1>1 DEF Balloting, OneBallotPerAnnotator
  <1> HIDE DEF t, u
  <1>6. /\ \A a, b \in annotations'[t] : a[1] = b[1] => a = b
        /\ \A x : x \in Voters(annotations'[t]) => x \in Voters(annotations[t]) \/ x = u
    BY <1>3, <1>4, <1>5, OneMoreBallot
  <1>7. OneBallotPerAnnotator'
    BY <1>3, <1>6 DEF Balloting, OneBallotPerAnnotator
  <1>8. /\ req'[w] = Idle
        /\ \A v \in Workers \ {w} : req'[v] = req[v]
    BY <1>1 DEF Finish, TypeOK
  <1>9. Idle.op # "vote"
    BY DEF Idle
  <1>10. ASSUME NEW v \in Workers PROVE VoteIsNew(v)'
    <2>1. CASE v = w
      BY <1>8, <1>9, <2>1 DEF VoteIsNew
    <2>2. CASE v # w /\ req[v].op = "vote" /\ req[v].task = t
      <3>1. req[v].user # u
        BY <2>2 DEF Balloting, VotesDiffer, t, u
      <3>2. req[v].user \notin Voters(annotations'[t])
        BY <1>6, <2>2, <3>1 DEF Balloting, VoteIsNew
      <3>3. \E p1 : /\ <<req[v].user, p1>> \in req[v].ballots
                    /\ req[v].ballots \subseteq annotations'[t] \cup {<<req[v].user, p1>>}
        BY <1>3, <2>2 DEF Balloting, VoteIsNew
      <3> QED BY <1>8, <2>2, <3>2, <3>3 DEF VoteIsNew
    <2>3. CASE v # w /\ req[v].op = "vote" /\ req[v].task # t
      <3>1. req[v].task \in Tasks
        BY <1>1, <2>3, RequestType
      <3>2. annotations'[req[v].task] = annotations[req[v].task]
        BY <1>3, <2>3, <3>1
      <3> QED BY <1>8, <2>3, <3>2 DEF Balloting, VoteIsNew
    <2>4. CASE v # w /\ req[v].op # "vote"
      BY <1>8, <2>4 DEF VoteIsNew
    <2> QED BY <2>1, <2>2, <2>3, <2>4
  <1>11. ASSUME NEW v1 \in Workers, NEW v2 \in Workers, v1 # v2 PROVE VotesDiffer(v1, v2)'
    BY <1>8, <1>9, <1>11 DEF Balloting, VotesDiffer
  <1> QED BY <1>7, <1>10, <1>11 DEF Balloting

(* Opening a vote: the insert meets neither a committed nor an open ballot *)
(* of the same annotator.                                                  *)
LEMMA BallotingInsert ==
  ASSUME Balloting, TypeOK', NEW w \in Workers, AnnotateInsert(w)
  PROVE  Balloting'
  <1> DEFINE t == req[w].task
             u == req[w].user
  <1>1. /\ req[w].op = "annotate" /\ t \in Tasks /\ TypeOK
        /\ req[w] \in Request
    BY RequestType DEF AnnotateInsert, Balloting
  <1>2. u \notin Voters(annotations[t]) /\ InsertProceeds(w) /\ UNCHANGED annotations
    BY DEF AnnotateInsert
  <1>3. PICK p, v : req' = [req EXCEPT ![w].op = "vote",
                                       ![w].ballots = annotations[t] \cup {<<u, p>>},
                                       ![w].verdict = v]
    BY DEF AnnotateInsert
  <1>4. /\ req'[w].op = "vote" /\ req'[w].task = t /\ req'[w].user = u
        /\ req'[w].ballots = annotations[t] \cup {<<u, p>>}
        /\ \A x \in Workers \ {w} : req'[x] = req[x]
    BY <1>1, <1>3 DEF TypeOK, Request
  <1>5. \A x \in Workers \ {w} : ~(req[x].op = "vote" /\ req[x].task = t /\ req[x].user = u)
    BY <1>2 DEF InsertProceeds
  <1> HIDE DEF t, u
  <1>6. ASSUME NEW x \in Workers PROVE VoteIsNew(x)'
    BY <1>2, <1>4 DEF Balloting, VoteIsNew
  <1>7. ASSUME NEW x \in Workers, NEW y \in Workers, x # y PROVE VotesDiffer(x, y)'
    BY <1>4, <1>5, <1>7 DEF Balloting, VotesDiffer
  <1>8. OneBallotPerAnnotator'
    BY <1>2 DEF Balloting, OneBallotPerAnnotator
  <1> QED BY <1>6, <1>7, <1>8 DEF Balloting

(* What the actions other than an insert and a commit of a vote share.     *)
LEMMA NoOtherVotes ==
  ASSUME TypeOK, [Next]_vars,
         \A w \in Workers : ~(AnnotateInsert(w) \/ AnnotateCommit(w) \/ AnnotateGoldCommit(w))
  PROVE  /\ UNCHANGED <<annotations, evaluated, correct>>
         /\ \A w \in Workers : req'[w] = req[w] \/ req'[w].op # "vote"
  <1>1. CASE Tick
    BY <1>1 DEF Tick
  <1>2. ASSUME NEW t \in Tasks, Destroy(t) \/ Restore(t)
        PROVE  UNCHANGED <<annotations, evaluated, correct, req>>
    BY <1>2 DEF Destroy, Restore
  <1>3. ASSUME NEW w \in Workers,
               ClaimSelect(w) \/ AnnotateRead(w) \/ AdjudicateRead(w)
                 \/ TriageRead(w) \/ UpdateRead(w) \/ TranslateRead(w)
        PROVE  /\ UNCHANGED <<annotations, evaluated, correct>>
               /\ \A v \in Workers : req'[v] = req[v] \/ req'[v].op # "vote"
    <2>1. PICK op \in Ops \ {"vote"}, t \in Tasks, q \in Request : Begin(w, op, t, q)
      BY <1>3, ReadBegins
    <2>2. [q EXCEPT !.op = op, !.task = t].op # "vote"
      BY <2>1 DEF Request
    <2> QED BY <2>1, <2>2 DEF Begin, TypeOK
  <1>4. ASSUME NEW w \in Workers, Finish(w)
        PROVE  \A v \in Workers : req'[v] = req[v] \/ req'[v].op # "vote"
    <2>1. Idle.op # "vote"
      BY DEF Idle
    <2> QED BY <1>4, <2>1 DEF Finish, TypeOK
  <1>5. ASSUME NEW w \in Workers,
               ClaimLock(w) \/ ClaimNothing(w) \/ AnnotateConflict(w) \/ AdjudicateCommit(w)
                 \/ TriageCommit(w) \/ UpdateCommit(w) \/ TranslateCommit(w) \/ Abandon(w)
        PROVE  Finish(w) /\ UNCHANGED <<annotations, evaluated, correct>>
    BY <1>5 DEF ClaimLock, ClaimNothing, AnnotateConflict, AdjudicateCommit,
                TriageCommit, UpdateCommit, TranslateCommit, Abandon
  <1>6. CASE UNCHANGED vars
    BY <1>6 DEF vars
  <1> QED BY <1>1, <1>2, <1>3, <1>4, <1>5, <1>6 DEF Next

(* Nothing is annotated at first, and a step opens a vote, commits one or  *)
(* leaves the annotations alone.                                           *)
LEMMA BallotingInit == Init => Balloting
  <1> SUFFICES ASSUME Init PROVE Balloting
    OBVIOUS
  <1>1. Idle.op # "vote"
    BY DEF Idle
  <1>2. TypeOK /\ OneBallotPerAnnotator
    BY TypeInit DEF Init, OneBallotPerAnnotator
  <1> QED BY <1>1, <1>2 DEF Init, Balloting, VoteIsNew, VotesDiffer

LEMMA BallotingNext == Balloting /\ [Next]_vars => Balloting'
  <1> SUFFICES ASSUME Balloting, [Next]_vars PROVE Balloting'
    OBVIOUS
  <1>1. TypeOK /\ TypeOK'
    BY TypeStep DEF Balloting
  <1>2. CASE \E w \in Workers : AnnotateInsert(w)
    BY <1>1, <1>2, BallotingInsert
  <1>3. ASSUME NEW w \in Workers, AnnotateCommit(w) \/ AnnotateGoldCommit(w)
        PROVE  Balloting'
    BY <1>1, <1>3, BallotingCommit DEF AnnotateCommit, AnnotateGoldCommit
  <1>4. CASE \A w \in Workers :
               ~(AnnotateInsert(w) \/ AnnotateCommit(w) \/ AnnotateGoldCommit(w))
    BY <1>1, <1>4, NoOtherVotes, BallotingStutter
  <1> QED BY <1>2, <1>3, <1>4

(* A double submission leaves one annotation, whatever overlaps            *)
(* (unique_together of TaskAnnotation behind the 409 check of annotations).*)
THEOREM OneBallot == Spec => []OneBallotPerAnnotator
<1>1. Balloting => OneBallotPerAnnotator
  BY DEF Balloting
<1> QED BY <1>1, BallotingInit, BallotingNext, PTL DEF Spec

-------------------------------------------------------------------------------
(* The calibration counters                                                *)

(* The gold tasks an annotator has annotated, and those answered rightly.  *)
JudgedBy(u) == {t \in Gold : u \in Voters(annotations[t])}

Right(u) == {t \in Gold : <<u, GoldChoice>> \in annotations[t]}

(* There may be gold tasks without end, of which some were annotated.      *)
Counting ==
  /\ \A u \in Users : IsFiniteSet(JudgedBy(u)) /\ IsFiniteSet(Right(u))
  /\ CalibrationCountsGoldBallots

(* A step that changes no gold annotation and no counter.                  *)
LEMMA CountingStutter ==
  ASSUME Counting, UNCHANGED <<evaluated, correct>>,
         \A t \in Gold : annotations'[t] = annotations[t]
  PROVE  Counting'
  <1>1. \A u \in Users : JudgedBy(u)' = JudgedBy(u) /\ Right(u)' = Right(u)
    BY DEF JudgedBy, Right
  <1> QED BY <1>1 DEF Counting, CalibrationCountsGoldBallots, JudgedBy, Right

(* A counter that is raised for one more task.                             *)
LEMMA OneMoreTask ==
  ASSUME NEW S, NEW t, IsFiniteSet(S), t \notin S, NEW count \in Nat, count = Cardinality(S)
  PROVE  IsFiniteSet(S \cup {t}) /\ Cardinality(S \cup {t}) = count + 1
  BY FS_AddElement

(* A gold vote adds its task to those its annotator has judged, once, and  *)
(* to those answered rightly if the ballot is the gold choice.             *)
LEMMA CountingCommit ==
  ASSUME Balloting, Counting, NEW w \in Workers, AnnotateGoldCommit(w)
  PROVE  Counting'
  <1> DEFINE q == req[w]
  <1>0. PICK t \in Gold, u \in Users : t = q.task /\ u = q.user
    BY RequestType DEF AnnotateGoldCommit, Balloting
  <1> DEFINE isCorrect == <<u, GoldChoice>> \in q.ballots
  <1>1. /\ q.op = "vote" /\ q.task = t /\ q.user = u /\ t \in Tasks /\ TypeOK
        /\ annotations' = [annotations EXCEPT ![t] = @ \cup q.ballots]
        /\ evaluated' = [evaluated EXCEPT ![u] = @ + 1]
        /\ correct' = IF isCorrect THEN [correct EXCEPT ![u] = @ + 1] ELSE correct
    BY <1>0, ConstantsAssumption DEF AnnotateGoldCommit, BumpEvaluated, Balloting
  <1>2. u \notin Voters(annotations[t])
    BY <1>1 DEF Balloting, VoteIsNew
  <1>3. PICK p : <<u, p>> \in q.ballots /\ q.ballots \subseteq annotations[t] \cup {<<u, p>>}
    BY <1>1 DEF Balloting, VoteIsNew
  <1>4. /\ annotations'[t] = annotations[t] \cup q.ballots
        /\ \A s \in Tasks \ {t} : annotations'[s] = annotations[s]
    BY <1>1 DEF TypeOK
  <1>5. /\ evaluated'[u] = evaluated[u] + 1
        /\ correct'[u] = IF isCorrect THEN correct[u] + 1 ELSE correct[u]
        /\ \A x \in Users \ {u} : evaluated'[x] = evaluated[x] /\ correct'[x] = correct[x]
        /\ \A x \in Users : evaluated[x] \in Nat /\ correct[x] \in Nat
    BY <1>1 DEF TypeOK
  <1>6. Gold \subseteq Tasks
    BY ConstantsAssumption
  <1> HIDE DEF q, isCorrect
  <1>7. ASSUME NEW x \in Users, x # u PROVE JudgedBy(x)' = JudgedBy(x) /\ Right(x)' = Right(x)
    <2>1. \A c : <<x, c>> \in annotations'[t] <=> <<x, c>> \in annotations[t]
      BY <1>3, <1>4, <1>7
    <2>2. x \in Voters(annotations'[t]) <=> x \in Voters(annotations[t])
      <3>1. \A b \in q.ballots : b \in annotations[t] \/ b[1] = u
        BY <1>3
      <3> QED BY <1>4, <1>7, <3>1 DEF Voters
    <2> QED BY <1>4, <1>6, <2>1, <2>2 DEF JudgedBy, Right
  <1>8. JudgedBy(u)' = JudgedBy(u) \cup {t} /\ t \notin JudgedBy(u)
    <2>1. u \in Voters(annotations'[t])
      BY <1>3, <1>4 DEF Voters
    <2> QED BY <1>1, <1>2, <1>4, <1>6, <2>1 DEF JudgedBy
  <1>9. /\ t \notin Right(u)
        /\ Right(u)' = IF isCorrect THEN Right(u) \cup {t} ELSE Right(u)
    <2>1. <<u, GoldChoice>> \notin annotations[t]
      BY <1>2 DEF Voters
    <2>2. <<u, GoldChoice>> \in annotations'[t] <=> isCorrect
      BY <1>4, <2>1 DEF isCorrect
    <2> QED BY <1>1, <1>4, <1>6, <2>1, <2>2 DEF Right
  <1>10. /\ IsFiniteSet(JudgedBy(u)) /\ IsFiniteSet(Right(u))
         /\ evaluated[u] = Cardinality(JudgedBy(u)) /\ correct[u] = Cardinality(Right(u))
    BY DEF Counting, CalibrationCountsGoldBallots, JudgedBy, Right
  <1>11. IsFiniteSet(JudgedBy(u)') /\ evaluated'[u] = Cardinality(JudgedBy(u)')
    <2>1. evaluated[u] \in Nat
      BY <1>5
    <2>2. /\ IsFiniteSet(JudgedBy(u) \cup {t})
          /\ Cardinality(JudgedBy(u) \cup {t}) = evaluated[u] + 1
      BY <1>8, <1>10, <2>1, OneMoreTask, Zenon
    <2> QED BY <1>5, <1>8, <2>2
  <1>12. IsFiniteSet(Right(u)') /\ correct'[u] = Cardinality(Right(u)')
    <2>1. CASE isCorrect
      <3>1. correct[u] \in Nat
        BY <1>5
      <3>2. /\ IsFiniteSet(Right(u) \cup {t})
            /\ Cardinality(Right(u) \cup {t}) = correct[u] + 1
        BY <1>9, <1>10, <3>1, OneMoreTask, Zenon
      <3> QED BY <1>5, <1>9, <2>1, <3>2
    <2>2. CASE ~isCorrect
      BY <1>5, <1>9, <1>10, <2>2
    <2> QED BY <2>1, <2>2
  <1>13. ASSUME NEW x \in Users
         PROVE  /\ IsFiniteSet(JudgedBy(x)') /\ evaluated'[x] = Cardinality(JudgedBy(x)')
                /\ IsFiniteSet(Right(x)') /\ correct'[x] = Cardinality(Right(x)')
    <2>1. CASE x = u
      BY <1>11, <1>12, <2>1
    <2>2. CASE x # u
      <3>1. /\ IsFiniteSet(JudgedBy(x)) /\ evaluated[x] = Cardinality(JudgedBy(x))
            /\ IsFiniteSet(Right(x)) /\ correct[x] = Cardinality(Right(x))
        BY DEF Counting, CalibrationCountsGoldBallots, JudgedBy, Right
      <3> QED BY <1>5, <1>7, <2>2, <3>1
    <2> QED BY <2>1, <2>2
  <1> QED BY <1>13 DEF Counting, CalibrationCountsGoldBallots, JudgedBy, Right

LEMMA CountingNext == Balloting /\ Counting /\ [Next]_vars => Counting'
  <1> SUFFICES ASSUME Balloting, Counting, [Next]_vars PROVE Counting'
    OBVIOUS
  <1>1. TypeOK
    BY DEF Balloting
  <1>2. ASSUME NEW w \in Workers, AnnotateInsert(w) PROVE Counting'
    BY <1>2, CountingStutter DEF AnnotateInsert
  <1>3. ASSUME NEW w \in Workers, AnnotateCommit(w) PROVE Counting'
    <2>1. req[w].task \notin Gold /\ UNCHANGED <<evaluated, correct>>
      BY <1>3 DEF AnnotateCommit
    <2>2. \A t \in Gold : annotations'[t] = annotations[t]
      BY <1>1, <1>3, <2>1, ConstantsAssumption DEF AnnotateCommit, TypeOK
    <2> QED BY <2>1, <2>2, CountingStutter
  <1>4. ASSUME NEW w \in Workers, AnnotateGoldCommit(w) PROVE Counting'
    BY <1>4, CountingCommit
  <1>5. CASE \A w \in Workers :
               ~(AnnotateInsert(w) \/ AnnotateCommit(w) \/ AnnotateGoldCommit(w))
    BY <1>1, <1>5, NoOtherVotes, CountingStutter
  <1> QED BY <1>2, <1>3, <1>4, <1>5

LEMMA CountingInit == Init => Counting
  <1> SUFFICES ASSUME Init PROVE Counting
    OBVIOUS
  <1>1. \A u \in Users : JudgedBy(u) = {} /\ Right(u) = {}
    BY ConstantsAssumption DEF Init, JudgedBy, Right, Voters
  <1>2. \A u \in Users : evaluated[u] = 0 /\ correct[u] = 0
    BY DEF Init
  <1> QED BY <1>1, <1>2, FS_EmptySet DEF Counting, CalibrationCountsGoldBallots, JudgedBy, Right

(* CalibrationCountsGoldBallots: evaluate_gold_annotation neither loses    *)
(* nor repeats an increment, whatever overlaps, rolls back or is submitted *)
(* twice.                                                                  *)
THEOREM CountersAreExact == Spec => []CalibrationCountsGoldBallots
<1>1. Counting => CalibrationCountsGoldBallots
  BY DEF Counting
<1> QED BY <1>1, BallotingInit, BallotingNext, CountingInit, CountingNext, PTL DEF Spec

-------------------------------------------------------------------------------
(* No handover of a live lease                                             *)

(* Only operations of this instance are in flight, and a claim judges      *)
(* leases by a time that has passed.                                       *)
Timely ==
  /\ TypeOK
  /\ \A w \in Workers :
       /\ req[w].op \in Operations \cup {"idle", "vote"}
       /\ req[w].asOf <= clock

(* An idle worker is timely.                                               *)
LEMMA FinishTimely ==
  ASSUME Timely, TypeOK', NEW w \in Workers, Finish(w), UNCHANGED clock
  PROVE  Timely'
  <1>1. Idle.op = "idle" /\ Idle.asOf = 0
    BY DEF Idle
  <1>2. \A v \in Workers : req'[v] = req[v] \/ req'[v] = Idle
    BY DEF Finish, Timely, TypeOK
  <1> QED BY <1>1, <1>2 DEF Timely, TypeOK

LEMMA TimelyNext == Timely /\ [Next]_vars => Timely'
<1> SUFFICES ASSUME Timely, [Next]_vars PROVE Timely'
  OBVIOUS
<1>1. TypeOK /\ TypeOK'
  BY TypeStep DEF Timely
<1>2. \A w \in Workers : req[w].asOf \in Nat
  BY <1>1 DEF TypeOK, Request
<1>3. CASE Tick
  BY <1>1, <1>2, <1>3 DEF Tick, Timely, TypeOK
<1>4. ASSUME NEW t \in Tasks, Destroy(t) \/ Restore(t) PROVE Timely'
  BY <1>1, <1>4 DEF Destroy, Restore, Timely
<1>5. ASSUME NEW w \in Workers,
             ClaimSelect(w) \/ AnnotateRead(w) \/ AdjudicateRead(w)
               \/ TriageRead(w) \/ UpdateRead(w) \/ TranslateRead(w)
      PROVE  Timely'
  <2>1. PICK op \in Ops \ {"vote"}, t \in Tasks, request \in Request :
          Begin(w, op, t, request) /\ request.asOf \in {0, clock}
    BY <1>1, <1>5, ReadBegins
  <2> DEFINE q == [request EXCEPT !.op = op, !.task = t]
  <2>2. q.op = op /\ q.asOf = request.asOf
    BY DEF Request
  <2>3. op \in Operations /\ req' = [req EXCEPT ![w] = q] /\ UNCHANGED clock
    BY <2>1 DEF Begin
  <2> HIDE DEF q
  <2>4. \A v \in Workers : req'[v] = req[v] \/ req'[v] = q
    BY <1>1, <2>3 DEF TypeOK
  <2>5. 0 <= clock /\ clock <= clock
    BY <1>1 DEF TypeOK
  <2> QED BY <1>1, <2>1, <2>2, <2>3, <2>4, <2>5 DEF Timely
<1>6. ASSUME NEW w \in Workers, AnnotateInsert(w) PROVE Timely'
  <2>1. PICK b, v : req' = [req EXCEPT ![w].op = "vote", ![w].ballots = b, ![w].verdict = v]
    BY <1>6 DEF AnnotateInsert
  <2>2. /\ req'[w].op = "vote" /\ req'[w].asOf = req[w].asOf
        /\ \A v1 \in Workers \ {w} : req'[v1] = req[v1]
    BY <1>1, <2>1 DEF TypeOK, Request
  <2>3. UNCHANGED clock
    BY <1>6 DEF AnnotateInsert
  <2> QED BY <1>1, <2>2, <2>3 DEF Timely
<1>7. ASSUME NEW w \in Workers,
             ClaimLock(w) \/ ClaimNothing(w) \/ AnnotateConflict(w) \/ AnnotateCommit(w)
               \/ AnnotateGoldCommit(w) \/ AdjudicateCommit(w) \/ TriageCommit(w)
               \/ UpdateCommit(w) \/ TranslateCommit(w) \/ Abandon(w)
      PROVE  Timely'
  <2>1. Finish(w) /\ UNCHANGED clock
    BY <1>7 DEF ClaimLock, ClaimNothing, AnnotateConflict, AnnotateCommit,
                AnnotateGoldCommit, AdjudicateCommit, TriageCommit, UpdateCommit,
                TranslateCommit, Abandon
  <2> QED BY <1>1, <2>1, FinishTimely
<1>8. CASE UNCHANGED vars
  BY <1>1, <1>8 DEF vars, Timely
<1> QED BY <1>3, <1>4, <1>5, <1>6, <1>7, <1>8 DEF Next

(* Every write of the holder of a live lease, by an operation that saves   *)
(* chosen columns, keeps the holder or frees the task.                     *)
LEMMA LeaseStep ==
  ASSUME "update" \notin Operations, "translate" \notin Operations,
         Timely, [Next]_vars, NEW t \in Tasks, Leased(row[t], clock)
  PROVE  row'[t].holder \in {row[t].holder, NoOne}
  <1>1. TypeOK /\ row[t] \in Row /\ \A s \in Tasks : row[s] \in Row
    BY DEF Timely, TypeOK
  <1>2. ASSUME UNCHANGED row PROVE row'[t].holder \in {row[t].holder, NoOne}
    BY <1>2
  <1>3. ASSUME NEW s \in Tasks, NEW r, row' = [row EXCEPT ![s] = r],
               r.holder \in {row[s].holder, NoOne}
        PROVE  row'[t].holder \in {row[t].holder, NoOne}
    BY <1>1, <1>3 DEF TypeOK
  <1>4. ASSUME NEW s \in Tasks, Destroy(s) \/ Restore(s)
        PROVE  row'[t].holder \in {row[t].holder, NoOne}
    <2>1. PICK b \in BOOLEAN : row' = [row EXCEPT ![s] = [row[s] EXCEPT !.active = b]]
      BY <1>4 DEF Destroy, Restore
    <2>2. [row[s] EXCEPT !.active = b].holder = row[s].holder
      BY <1>1 DEF Row
    <2> QED BY <1>3, <2>1, <2>2
  <1>5. ASSUME NEW w \in Workers, ClaimLock(w)
        PROVE  row'[t].holder \in {row[t].holder, NoOne}
    <2> DEFINE s == req[w].task
               r == [row[s] EXCEPT !.holder = req[w].user,
                                   !.until = req[w].asOf + LeaseTime,
                                   !.status = IF @ = "pending" THEN "in_progress" ELSE @]
    <2>1. s \in Tasks /\ row' = [row EXCEPT ![s] = r] /\ LeaseFree(row[s], req[w].user, req[w].asOf)
      BY <1>1, <1>5, RequestType DEF ClaimLock, Claimable
    <2>2. CASE s = t
      <3>1. row[t].until > clock /\ row[t].holder # NoOne
        BY DEF Leased
      <3>2. req[w].asOf <= clock /\ req[w].asOf \in Nat /\ clock \in Nat /\ row[t].until \in Nat
        BY <1>1 DEF Timely, TypeOK, Request, Row
      <3>3. row[t].until > req[w].asOf
        BY <3>1, <3>2
      <3>4. row[t].holder = req[w].user
        BY <2>1, <2>2, <3>1, <3>3 DEF LeaseFree, Leased
      <3>5. r.holder = req[w].user
        BY <1>1, <2>1 DEF Row
      <3> HIDE DEF r
      <3> QED BY <1>1, <2>1, <2>2, <3>4, <3>5 DEF TypeOK
    <2>3. CASE s # t
      BY <1>1, <2>1, <2>3 DEF TypeOK
    <2> QED BY <2>2, <2>3
  <1>6. ASSUME NEW w \in Workers, AnnotateCommit(w) \/ AnnotateGoldCommit(w) \/ AdjudicateCommit(w)
        PROVE  row'[t].holder \in {row[t].holder, NoOne}
    <2> DEFINE s == req[w].task
    <2>1. s \in Tasks /\ row[s] \in Row
      BY <1>1, <1>6, RequestType DEF AnnotateCommit, AnnotateGoldCommit, AdjudicateCommit
    <2>2. Released(row[s]) \in Row /\ Released(row[s]).holder = NoOne
      <3>1. Released(row[s]).holder = NoOne
        BY <2>1 DEF Released, Row
      <3> QED BY <2>1, <3>1, RowUpdateType
    <2>3. PICK r : row' = [row EXCEPT ![s] = r] /\ r.holder = NoOne
      <3>1. CASE AnnotateCommit(w)
        <4>1. row' = [row EXCEPT ![s] = ConsensusRow(row[s], req[w])]
          BY <3>1 DEF AnnotateCommit
        <4>2. ConsensusRow(row[s], req[w]).holder = NoOne
          BY <2>2 DEF ConsensusRow, Row
        <4> QED BY <4>1, <4>2
      <3>2. CASE AnnotateGoldCommit(w)
        <4>1. row' = [row EXCEPT ![s] = [Released(row[s]) EXCEPT !.status = "pending"]]
          BY <3>2 DEF AnnotateGoldCommit
        <4>2. [Released(row[s]) EXCEPT !.status = "pending"].holder = NoOne
          BY <2>2 DEF Row
        <4> QED BY <4>1, <4>2
      <3>3. CASE AdjudicateCommit(w)
        <4>1. PICK choice : row' = [row EXCEPT ![s] =
                  [Released(row[s]) EXCEPT !.choice = choice, !.status = "completed"]]
          BY <3>3 DEF AdjudicateCommit
        <4>2. [Released(row[s]) EXCEPT !.choice = choice, !.status = "completed"].holder = NoOne
          BY <2>2 DEF Row
        <4> QED BY <4>1, <4>2
      <3> QED BY <1>6, <3>1, <3>2, <3>3
    <2> QED BY <1>3, <2>1, <2>3
  <1>7. ASSUME NEW w \in Workers, TriageCommit(w)
        PROVE  row'[t].holder \in {row[t].holder, NoOne}
    <2> DEFINE s == req[w].task
    <2>1. s \in Tasks
      BY <1>1, <1>7, RequestType DEF TriageCommit
    <2>2. PICK b : row' = [row EXCEPT ![s] = [row[s] EXCEPT !.escalated = b]]
      BY <1>7 DEF TriageCommit
    <2>3. [row[s] EXCEPT !.escalated = b].holder = row[s].holder
      BY <1>1, <2>1 DEF Row
    <2> QED BY <1>3, <2>1, <2>2, <2>3
  <1>8. ASSUME NEW w \in Workers PROVE ~UpdateCommit(w) /\ ~TranslateCommit(w)
    BY DEF UpdateCommit, TranslateCommit, Timely
  <1>9. ASSUME NEW w \in Workers,
               ClaimSelect(w) \/ AnnotateRead(w) \/ AdjudicateRead(w)
                 \/ TriageRead(w) \/ UpdateRead(w) \/ TranslateRead(w)
        PROVE  UNCHANGED row
    BY <1>1, <1>9, ReadBegins DEF Begin
  <1>10. ASSUME NEW w \in Workers,
                ClaimNothing(w) \/ AnnotateInsert(w) \/ AnnotateConflict(w) \/ Abandon(w)
         PROVE  UNCHANGED row
    BY <1>10 DEF ClaimNothing, AnnotateInsert, AnnotateConflict, Abandon
  <1>11. CASE Tick \/ UNCHANGED vars
    BY <1>2, <1>11 DEF Tick, vars
  <1> QED BY <1>2, <1>4, <1>5, <1>6, <1>7, <1>8, <1>9, <1>10, <1>11 DEF Next

(* Without whole-row saves (PATCH and translation), no two claims hold one *)
(* task at a time: a running lease never passes to another annotator.      *)
THEOREM LiveLeaseStays ==
  ASSUME "update" \notin Operations, "translate" \notin Operations
  PROVE  Spec => LiveLeaseIsNotTransferred
<1>1. Init => Timely
  <2> SUFFICES ASSUME Init PROVE Timely
    OBVIOUS
  <2>1. Idle.op = "idle" /\ Idle.asOf = 0
    BY DEF Idle
  <2> QED BY <2>1, TypeInit DEF Init, Timely
<1>2. Timely /\ [Next]_vars =>
        [\A t \in Tasks : Leased(row[t], clock) => row'[t].holder \in {row[t].holder, NoOne}]_vars
  BY LeaseStep
<1> QED BY <1>1, <1>2, TimelyNext, PTL DEF Spec, LiveLeaseIsNotTransferred

-------------------------------------------------------------------------------
(* Consensus                                                               *)

HIDE DEF Undecided

(* Of some finite sets, one of the smallest.                               *)
LEMMA SmallestSet ==
  ASSUME NEW P, P # {}, \A S \in P : IsFiniteSet(S)
  PROVE  \E S \in P : Cardinality(S) \in Nat /\ \A T \in P : ~(Cardinality(T) < Cardinality(S))
  <1> DEFINE Sizes == {Cardinality(S) : S \in P}
  <1>1. Sizes # {} /\ Sizes \subseteq Nat
    BY FS_CardinalityType
  <1>2. PICK n \in Sizes : \A m \in Sizes : ~(<<m, n>> \in OpToRel(<, Nat))
    <2> HIDE DEF Sizes
    <2> QED BY <1>1, NatLessThanWellFounded, WFMin, Zenon
  <1>3. \A m \in Sizes : ~(m < n)
    BY <1>1, <1>2 DEF OpToRel
  <1> QED BY <1>1, <1>3

(* Weights that add up, in whatever order the ballots are taken.           *)
Additive(g, ballots, weight) ==
    /\ \A b \in ballots : weight[b[1]] \in Nat
    /\ g \in [SUBSET ballots -> Nat] /\ g[{}] = 0
    /\ \A s \in SUBSET ballots : \A b \in s : g[s] = weight[b[1]] + g[s \ {b}]

LEMMA AdditiveExists ==
  ASSUME NEW ballots, IsFiniteSet(ballots), NEW weight, \A b \in ballots : weight[b[1]] \in Nat
  PROVE  \E g : Additive(g, ballots, weight)
  <1> DEFINE P == {S \in SUBSET ballots : ~\E g : Additive(g, S, weight)}
  <1>1. SUFFICES ASSUME P # {} PROVE FALSE
    OBVIOUS
  <1>2. \A S \in P : IsFiniteSet(S)
    BY FS_Subset
  <1>3. PICK S \in P : Cardinality(S) \in Nat /\ \A T \in P : ~(Cardinality(T) < Cardinality(S))
    <2> HIDE DEF P
    <2> QED BY <1>1, <1>2, SmallestSet
  <1>4. S # {}
    <2> SUFFICES ASSUME S = {} PROVE FALSE
      OBVIOUS
    <2>1. Additive([s \in SUBSET S |-> 0], S, weight)
      BY DEF Additive
    <2> QED BY <2>1
  <1>5. PICK b \in S : TRUE
    BY <1>4
  <1> DEFINE T == S \ {b}
  <1>6. IsFiniteSet(S) /\ Cardinality(T) = Cardinality(S) - 1
    BY <1>2, FS_RemoveElement
  <1>7. T \notin P
    BY <1>3, <1>6
  <1>8. PICK g : Additive(g, T, weight)
    BY <1>7
  <1> DEFINE h == [s \in SUBSET S |-> IF b \in s THEN weight[b[1]] + g[s \ {b}] ELSE g[s]]
  <1>9. Additive(h, S, weight)
    <2>1. \A s \in SUBSET S : s \ {b} \in SUBSET T /\ (b \notin s => s \in SUBSET T)
      OBVIOUS
    <2>2. weight[b[1]] \in Nat /\ \A s \in SUBSET T : g[s] \in Nat
      BY <1>8 DEF Additive
    <2>3. h \in [SUBSET S -> Nat] /\ h[{}] = 0
      <3> HIDE DEF T
      <3> QED BY <1>8, <2>1, <2>2 DEF Additive
    <2>4. ASSUME NEW s \in SUBSET S, NEW c \in s PROVE h[s] = weight[c[1]] + h[s \ {c}]
      <3>1. weight[c[1]] \in Nat /\ s \ {c} \in SUBSET S
        OBVIOUS
      <3>2. CASE c = b
        BY <2>1, <2>2, <3>1, <3>2
      <3>3. CASE c # b /\ b \in s
        <4>1. h[s] = weight[b[1]] + g[s \ {b}] /\ h[s \ {c}] = weight[b[1]] + g[(s \ {c}) \ {b}]
          BY <3>1, <3>3
        <4>2. s \ {b} \in SUBSET T /\ c \in s \ {b} /\ (s \ {b}) \ {c} = (s \ {c}) \ {b}
              /\ (s \ {c}) \ {b} \in SUBSET T
          BY <2>1, <3>3
        <4>3. g[s \ {b}] = weight[c[1]] + g[(s \ {c}) \ {b}]
          <5>1. \A u \in SUBSET T : \A d \in u : g[u] = weight[d[1]] + g[u \ {d}]
            BY <1>8 DEF Additive
          <5> HIDE DEF T, h
          <5>2. g[s \ {b}] = weight[c[1]] + g[(s \ {b}) \ {c}]
            BY <4>2, <5>1
          <5> QED BY <4>2, <5>2
        <4>4. g[(s \ {c}) \ {b}] \in Nat
          BY <2>2, <4>2
        <4> HIDE DEF h
        <4> QED BY <2>2, <3>1, <4>1, <4>3, <4>4
      <3>4. CASE b \notin s
        <4>1. s \in SUBSET T /\ g[s] = weight[c[1]] + g[s \ {c}]
          BY <1>8, <2>1, <3>4 DEF Additive
        <4> QED BY <3>1, <3>4, <4>1
      <3> QED BY <3>2, <3>3, <3>4
    <2> HIDE DEF h
    <2> QED BY <2>3, <2>4 DEF Additive
  <1> QED BY <1>9

(* The fold over a set of ballots comes to the sum of their weights.       *)
Folds(g, ballots, weight) ==
    g = [s \in SUBSET ballots |->
           IF s = {} THEN 0
           ELSE weight[(CHOOSE b \in s : TRUE)[1]] + g[s \ {CHOOSE b \in s : TRUE}]]

LEMMA WeightIsSum ==
  ASSUME NEW ballots, IsFiniteSet(ballots), NEW weight, NEW g, Additive(g, ballots, weight),
         NEW S \in SUBSET ballots
  PROVE  WeightOf(S, weight) = g[S]
  <1>1. WeightOf(S, weight) = (CHOOSE h : Folds(h, S, weight))[S]
    BY DEF WeightOf, MapThenSumSet, MapThenFoldSet, Folds
  <1>2. Folds([s \in SUBSET S |-> g[s]], S, weight)
    BY DEF Folds, Additive
  <1>3. PICK f : f = (CHOOSE h : Folds(h, S, weight)) /\ Folds(f, S, weight)
    BY <1>2
  <1> DEFINE P == {s \in SUBSET S : f[s] # g[s]}
  <1>4. P = {}
    <2>1. SUFFICES ASSUME P # {} PROVE FALSE
      OBVIOUS
    <2>2. \A s \in P : IsFiniteSet(s)
      BY FS_Subset
    <2>3. PICK s \in P : Cardinality(s) \in Nat /\ \A t \in P : ~(Cardinality(t) < Cardinality(s))
      <3> HIDE DEF P
      <3> QED BY <2>1, <2>2, SmallestSet
    <2>4. s # {}
      BY <1>3 DEF Folds, Additive
    <2> DEFINE b == CHOOSE b \in s : TRUE
               t == s \ {b}
    <2>5. b \in s
      BY <2>4
    <2>6. f[s] = weight[b[1]] + f[t]
      BY <1>3, <2>4 DEF Folds
    <2> HIDE DEF b
    <2>7. g[s] = weight[b[1]] + g[t]
      BY <2>5 DEF Additive
    <2>8. Cardinality(t) = Cardinality(s) - 1
      BY <2>2, <2>5, FS_RemoveElement
    <2>9. t \notin P
      <3> HIDE DEF P
      <3> QED BY <2>3, <2>8
    <2>10. f[t] = g[t]
      BY <2>9
    <2> QED BY <2>6, <2>7, <2>10
  <1> QED BY <1>1, <1>3, <1>4

(* The weight of some of the ballots and of the others.                    *)
LEMMA WeightSplits ==
  ASSUME NEW ballots, IsFiniteSet(ballots), NEW weight, NEW g, Additive(g, ballots, weight),
         NEW X \in SUBSET ballots, NEW Y \in SUBSET X
  PROVE  g[X] = g[Y] + g[X \ Y] /\ g[X] \in Nat /\ g[Y] \in Nat /\ g[X \ Y] \in Nat
  <1> DEFINE P == {y \in SUBSET X : g[X] # g[y] + g[X \ y]}
  <1>1. \A s \in SUBSET ballots : g[s] \in Nat
    BY DEF Additive
  <1>2. P = {}
    <2>1. SUFFICES ASSUME P # {} PROVE FALSE
      OBVIOUS
    <2>2. \A s \in P : IsFiniteSet(s)
      BY FS_Subset
    <2>3. PICK s \in P : Cardinality(s) \in Nat /\ \A t \in P : ~(Cardinality(t) < Cardinality(s))
      <3> HIDE DEF P
      <3> QED BY <2>1, <2>2, SmallestSet
    <2>4. s # {}
      <3> SUFFICES ASSUME s = {} PROVE FALSE
        OBVIOUS
      <3>1. X \ s = X /\ g[s] = 0 /\ g[X] \in Nat
        BY <1>1 DEF Additive
      <3> QED BY <3>1
    <2>5. PICK b \in s : TRUE
      BY <2>4
    <2> DEFINE t == s \ {b}
    <2>6. Cardinality(t) = Cardinality(s) - 1
      BY <2>2, <2>5, FS_RemoveElement
    <2>7. t \notin P
      <3> HIDE DEF P
      <3> QED BY <2>3, <2>6
    <2>8. g[X] = g[t] + g[X \ t]
      BY <2>7
    <2>9. s \in SUBSET ballots /\ t \in SUBSET ballots /\ X \ t \in SUBSET ballots
          /\ X \ s \in SUBSET ballots /\ b \in X \ t /\ (X \ t) \ {b} = X \ s
      OBVIOUS
    <2>10. g[s] = weight[b[1]] + g[t] /\ g[X \ t] = weight[b[1]] + g[X \ s]
      <3>1. \A u \in SUBSET ballots : \A d \in u : g[u] = weight[d[1]] + g[u \ {d}]
        BY DEF Additive
      <3>2. g[X \ t] = weight[b[1]] + g[(X \ t) \ {b}]
        <4> HIDE DEF t
        <4> QED BY <2>9, <3>1
      <3> QED BY <2>9, <3>1, <3>2
    <2>11. g[X] # g[s] + g[X \ s]
      OBVIOUS
    <2>12. weight[b[1]] \in Nat
      <3>1. b \in ballots
        BY <2>9
      <3> QED BY <3>1 DEF Additive
    <2> HIDE DEF t, P
    <2> QED BY <1>1, <2>8, <2>9, <2>10, <2>11, <2>12
  <1> QED BY <1>1, <1>2

(* Quotients, and rounding a share.                                        *)
LEMMA DivMeans ==
  ASSUME NEW n \in Nat, NEW d \in Nat \ {0}
  PROVE  n \div d \in Nat /\ d * (n \div d) <= n /\ n < d * (n \div d) + d
  OBVIOUS

LEMMA TimesMore ==
  ASSUME NEW d \in Nat, NEW a \in Nat, NEW b \in Nat, a <= b
  PROVE  d * a <= d * b /\ d * a \in Nat /\ d * b \in Nat
  <1>1. b - a \in Nat /\ b = a + (b - a)
    OBVIOUS
  <1>2. d * (a + (b - a)) = d * a + d * (b - a) /\ d * (b - a) \in Nat
    BY <1>1
  <1> QED BY <1>1, <1>2

LEMMA RatioAboveHalf ==
  ASSUME NEW b \in Nat, NEW t \in Nat \ {0}
  PROVE  (20000 * b + t) \div (2 * t) > 5000 <=> 20000 * b >= 10001 * t
  <1> DEFINE n == 20000 * b + t
             d == 2 * t
             q == n \div d
  <1>1. n \in Nat /\ d \in Nat \ {0}
    OBVIOUS
  <1>2. q \in Nat /\ d * q <= n /\ n < d * q + d
    <2> HIDE DEF n, d
    <2> QED BY <1>1, DivMeans
  <1>3. q > 5000 => d * 5001 <= d * q
    <2> HIDE DEF d, q
    <2> QED BY <1>1, <1>2, TimesMore
  <1>4. q <= 5000 => d * q <= d * 5000
    <2> HIDE DEF d, q
    <2> QED BY <1>1, <1>2, TimesMore
  <1> HIDE DEF q
  <1> DEFINE e == d * q
  <1>5. e \in Nat
    BY <1>1, <1>2
  <1> HIDE DEF e
  <1>6. e <= n /\ n < e + d /\ (q > 5000 => d * 5001 <= e) /\ (q <= 5000 => e <= d * 5000)
    BY <1>2, <1>3, <1>4 DEF e
  <1>7. q > 5000 <=> 20000 * b >= 10001 * t
    BY <1>2, <1>5, <1>6
  <1> QED BY <1>7 DEF q

(* A vote with positive weights, as elections are.                         *)
Vote(ballots, weight) ==
    /\ IsFiniteSet(ballots) /\ \A b \in ballots : b[2] \in Preferences
    /\ \A b \in ballots : weight[b[1]] \in Nat \ {0}

LEMMA VotesAreCounted ==
  ASSUME NEW ballots, NEW weight, Vote(ballots, weight)
  PROVE  LET cast == WeightOf(ballots, weight)
             behind(c) == WeightOf(For(ballots, c), weight) IN
         /\ cast \in Nat /\ (ballots # {} => cast # 0)
         /\ \A c : behind(c) \in Nat /\ behind(c) <= cast
         /\ \A c : For(ballots, c) # {} => behind(c) # 0
         /\ \A c, d : c # d => behind(c) + behind(d) <= cast
  <1>1. PICK g : Additive(g, ballots, weight)
    BY AdditiveExists DEF Vote
  <1>2. IsFiniteSet(ballots)
    BY DEF Vote
  <1>3. \A S \in SUBSET ballots : WeightOf(S, weight) = g[S] /\ g[S] \in Nat
    <2>1. \A S \in SUBSET ballots : WeightOf(S, weight) = g[S]
      BY <1>1, <1>2, WeightIsSum, Zenon
    <2> QED BY <1>1, <2>1 DEF Additive
  <1>4. \A X \in SUBSET ballots : \A Y \in SUBSET X :
          g[X] = g[Y] + g[X \ Y] /\ g[X] \in Nat /\ g[Y] \in Nat /\ g[X \ Y] \in Nat
    BY <1>1, <1>2, WeightSplits
  <1>5. \A X \in SUBSET ballots : X # {} => g[X] # 0
    <2> SUFFICES ASSUME NEW X \in SUBSET ballots, NEW b \in X PROVE g[X] # 0
      OBVIOUS
    <2>1. g[X] = weight[b[1]] + g[X \ {b}]
      BY <1>1 DEF Additive
    <2>2. X \ {b} \in SUBSET ballots /\ weight[b[1]] \in Nat \ {0}
      BY DEF Vote
    <2>3. g[X \ {b}] \in Nat
      BY <1>3, <2>2
    <2> QED BY <2>1, <2>2, <2>3
  <1>6. ballots \in SUBSET ballots /\ \A c : For(ballots, c) \in SUBSET ballots
    BY DEF For
  <1>7. ASSUME NEW c, NEW d, c # d
        PROVE  g[For(ballots, c)] + g[For(ballots, d)] <= g[ballots]
    <2> DEFINE C == For(ballots, c)
               D == For(ballots, d)
               R == ballots \ C
    <2>1. C \in SUBSET ballots /\ D \in SUBSET R /\ R \in SUBSET ballots
      BY <1>7 DEF For
    <2> HIDE DEF C, D
    <2>2. g[ballots] = g[C] + g[R] /\ g[C] \in Nat /\ g[R] \in Nat /\ g[ballots] \in Nat
      BY <1>4, <1>6, <2>1
    <2> HIDE DEF R
    <2>3. g[R] = g[D] + g[R \ D] /\ g[D] \in Nat /\ g[R \ D] \in Nat
      BY <1>4, <2>1
    <2>4. g[C] + g[D] <= g[ballots]
      BY <2>2, <2>3
    <2> QED BY <2>4 DEF C, D
  <1>8. \A c : g[For(ballots, c)] <= g[ballots]
    <2> SUFFICES ASSUME NEW c PROVE g[For(ballots, c)] <= g[ballots]
      OBVIOUS
    <2> DEFINE C == For(ballots, c)
    <2>1. g[ballots] = g[C] + g[ballots \ C] /\ g[C] \in Nat /\ g[ballots \ C] \in Nat
      BY <1>4, <1>6
    <2> HIDE DEF C
    <2>2. g[C] <= g[ballots]
      BY <2>1
    <2> QED BY <2>2 DEF C
  <1> QED BY <1>3, <1>5, <1>6, <1>7, <1>8

(* Who wins, in terms of what was cast.                                    *)
LEMMA WinnersLead ==
  ASSUME NEW ballots, NEW weight, Vote(ballots, weight), NEW c \in Preferences
  PROVE  LET cast == WeightOf(ballots, weight)
             behind(d) == WeightOf(For(ballots, d), weight) IN
         /\ Wins(c, ballots, weight) =>
              /\ 2 * behind(c) > cast /\ 20000 * behind(c) >= 10001 * cast
              /\ \A d \in Preferences : Wins(d, ballots, weight) => d = c
         /\ ballots # {} /\ 20000 * behind(c) >= 10001 * cast => Wins(c, ballots, weight)
  <1> DEFINE cast == WeightOf(ballots, weight)
             behind(d) == WeightOf(For(ballots, d), weight)
  <1>1. /\ cast \in Nat /\ (ballots # {} => cast # 0)
        /\ \A d : behind(d) \in Nat /\ behind(d) <= cast
        /\ \A d : For(ballots, d) # {} => behind(d) # 0
        /\ \A d, e : d # e => behind(d) + behind(e) <= cast
    BY VotesAreCounted
  <1>2. \A d : /\ For(ballots, d) # {} => ballots # {}
               /\ AgreementRatio(d, ballots, weight)
                    = (20000 * behind(d) + cast) \div (2 * cast)
    BY DEF For, AgreementRatio
  <1>3. \A d : /\ Leads(d, ballots, weight) => For(ballots, d) # {}
               /\ Leads(d, ballots, weight) =>
                    \A e \in Preferences \ {d} :
                      For(ballots, e) = {} \/ behind(d) > behind(e)
               /\ /\ For(ballots, d) # {}
                  /\ \A e \in Preferences \ {d} : behind(d) > behind(e)
                  => Leads(d, ballots, weight)
    BY DEF Leads
  <1>4. For(ballots, c) = {} => behind(c) = 0
    <2>1. PICK g : Additive(g, ballots, weight)
      BY AdditiveExists DEF Vote
    <2>2. {} \in SUBSET ballots /\ IsFiniteSet(ballots)
      BY DEF Vote
    <2>3. WeightOf({}, weight) = g[{}]
      BY <2>1, <2>2, WeightIsSum, Zenon
    <2>4. g[{}] = 0
      BY <2>1 DEF Additive
    <2> QED BY <2>3, <2>4
  <1>5. \A d : cast # 0 => ((20000 * behind(d) + cast) \div (2 * cast) > 5000
                            <=> 20000 * behind(d) >= 10001 * cast)
    <2> HIDE DEF cast, behind
    <2> QED BY <1>1, RatioAboveHalf
  <1> HIDE DEF cast, behind
  <1>6. ASSUME Wins(c, ballots, weight)
        PROVE  /\ 2 * behind(c) > cast /\ 20000 * behind(c) >= 10001 * cast
               /\ \A d \in Preferences : Wins(d, ballots, weight) => d = c
    <2>1. Leads(c, ballots, weight) /\ AgreementRatio(c, ballots, weight) > 5000
      BY <1>6 DEF Wins
    <2>2. cast # 0
      BY <1>1, <1>2, <1>3, <2>1
    <2>3. 20000 * behind(c) >= 10001 * cast
      BY <1>2, <1>5, <2>1, <2>2
    <2>4. 2 * behind(c) > cast
      BY <1>1, <2>2, <2>3
    <2>5. ASSUME NEW d \in Preferences, Wins(d, ballots, weight), d # c PROVE FALSE
      <3>1. Leads(d, ballots, weight)
        BY <2>5 DEF Wins
      <3>2. behind(c) > behind(d) /\ behind(d) > behind(c)
        BY <1>3, <2>1, <2>5, <3>1
      <3> QED BY <1>1, <3>2
    <2> QED BY <2>3, <2>4, <2>5
  <1>7. ASSUME ballots # {}, 20000 * behind(c) >= 10001 * cast
        PROVE  Wins(c, ballots, weight)
    <2>1. cast # 0 /\ behind(c) # 0
      BY <1>1, <1>7
    <2>2. \A e \in Preferences \ {c} : behind(c) > behind(e)
      <3> SUFFICES ASSUME NEW e \in Preferences \ {c} PROVE behind(c) > behind(e)
        OBVIOUS
      <3>1. behind(c) + behind(e) <= cast /\ behind(c) \in Nat /\ behind(e) \in Nat /\ cast \in Nat
        BY <1>1
      <3> QED BY <1>7, <2>1, <3>1
    <2>3. Leads(c, ballots, weight)
      BY <1>3, <1>4, <2>1, <2>2
    <2>4. AgreementRatio(c, ballots, weight) > 5000
      BY <1>2, <1>5, <1>7, <2>1
    <2> QED BY <2>3, <2>4 DEF Wins
  <1> QED BY <1>6, <1>7 DEF cast, behind

LEMMA VerdictsWin ==
  ASSUME NEW ballots, NEW weight, Vote(ballots, weight), NEW required \in Nat
  PROVE  LET v == Verdict(ballots, weight, required) IN
         /\ v # Undecided => /\ v \in Preferences /\ Wins(v, ballots, weight)
                                  /\ Cardinality(ballots) >= required
         /\ \A c \in Preferences :
              Cardinality(ballots) >= required /\ Wins(c, ballots, weight) => v = c
         /\ Undecided \notin Preferences
  <1>1. \A c, d \in Preferences :
          Wins(c, ballots, weight) /\ Wins(d, ballots, weight) => d = c
    BY WinnersLead
  <1>2. Undecided \notin Preferences
    BY DEF Undecided, Preferences
  <1> DEFINE W == {c \in Preferences : Wins(c, ballots, weight)}
             first == CHOOSE c \in Preferences : Wins(c, ballots, weight)
  <1>3. W # {} => first \in W
    OBVIOUS
  <1>4. Verdict(ballots, weight, required)
          = IF Cardinality(ballots) >= required /\ W # {} THEN first ELSE Undecided
    BY DEF Verdict
  <1> HIDE DEF first
  <1> QED BY <1>1, <1>2, <1>3, <1>4

(* The input is what it was.                                               *)
LEMMA InputStays == Evaluations => []Given
  <1>1. Given /\ [Keep]_input => Given'
    BY DEF Keep, Given
  <1> QED BY <1>1, PTL DEF Evaluations

LEMMA WeightsArePositive ==
  ASSUME Weights \subseteq SkillWeights
  PROVE  \A w \in Weights : w \in Nat \ {0}
  <1> SUFFICES ASSUME NEW w \in Weights PROVE w \in Nat \ {0}
    OBVIOUS
  <1>1. w \in SkillWeights
    OBVIOUS
  <1>2. w \in 1000..15000
    BY <1>1 DEF SkillWeights
  <1> QED BY <1>2

LEMMA ElectionsAreVotes ==
  ASSUME IsFiniteSet(Annotators), Weights \subseteq SkillWeights,
         Given, input.kind = "election"
  PROVE  /\ Vote(input.ballots, input.weight)
         /\ input.weight \in [Annotators -> Weights]
         /\ input.ballots \subseteq Annotators \X Preferences
  <1>1. input \in Elections
    BY DEF Given, Trees, Records, Domains, Exports
  <1>2. /\ input.weight \in [Annotators -> Weights]
        /\ input.ballots \subseteq Annotators \X Preferences
    BY <1>1 DEF Elections
  <1>3. IsFiniteSet(Annotators \X Preferences)
    <2>1. IsFiniteSet(Preferences)
      <3>1. Preferences = (({} \cup {"response_a"}) \cup {"response_b"}) \cup {"tie"}
        BY DEF Preferences
      <3> QED BY <3>1, FS_EmptySet, FS_AddElement, Zenon
    <2> QED BY <2>1, FS_Product
  <1>4. IsFiniteSet(input.ballots)
    BY <1>2, <1>3, FS_Subset
  <1>5. \A a \in Annotators : input.weight[a] \in Nat \ {0}
    <2>1. \A w \in Weights : w \in Nat \ {0}
      BY WeightsArePositive
    <2> QED BY <1>2, <2>1
  <1> QED BY <1>2, <1>4, <1>5 DEF Vote

(* Of the ballots of any number of annotators, whatever their weights, a     *)
(* decision has more than half of the weight and no rival that qualifies;    *)
(* with the quorum, a majority that four decimals can tell is decided        *)
(* (evaluate_task_consensus).                                                *)
THEOREM ConsensusIsMajority ==
  ASSUME IsFiniteSet(Annotators), Weights \subseteq SkillWeights, Quorum \in Nat \ {0}
  PROVE  Evaluations => []VerdictIsMajority
  <1>1. Given => VerdictIsMajority
    <2> DEFINE ballots == input.ballots
               weight == input.weight
               cast == WeightOf(ballots, weight)
               behind(c) == WeightOf(For(ballots, c), weight)
               v == Verdict(ballots, weight, Quorum)
    <2> SUFFICES ASSUME Given, input.kind = "election", NEW c \in Preferences
                 PROVE  /\ v = c => 2 * behind(c) > cast
                        /\ v # Undecided /\ Wins(c, ballots, weight) => v = c
                        /\ Cardinality(ballots) >= Quorum /\ 10000 * behind(c) >= 5001 * cast
                             => v = c
      BY DEF VerdictIsMajority, Chosen
    <2>1. Vote(ballots, weight)
      BY ElectionsAreVotes
    <2>2. /\ v # Undecided => /\ v \in Preferences /\ Wins(v, ballots, weight)
                                   /\ Cardinality(ballots) >= Quorum
          /\ Cardinality(ballots) >= Quorum /\ Wins(c, ballots, weight) => v = c
          /\ Undecided \notin Preferences
      BY <2>1, VerdictsWin
    <2>3. /\ Wins(c, ballots, weight) => 2 * behind(c) > cast
          /\ ballots # {} /\ 20000 * behind(c) >= 10001 * cast => Wins(c, ballots, weight)
      BY <2>1, WinnersLead
    <2>4. behind(c) \in Nat /\ cast \in Nat
      BY <2>1, VotesAreCounted
    <2>5. Cardinality(ballots) >= Quorum => ballots # {}
      BY FS_EmptySet
    <2> HIDE DEF ballots, weight, cast, behind, v
    <2>6. 10000 * behind(c) >= 5001 * cast => 20000 * behind(c) >= 10001 * cast
      BY <2>4
    <2> QED BY <2>2, <2>3, <2>5, <2>6
  <1> QED BY <1>1, InputStays, PTL

(* One more vote for the winner, of any weight, leaves the decision as it is *)
(* (evaluate_task_consensus after completion).                               *)
THEOREM SupportIsMonotone ==
  ASSUME IsFiniteSet(Annotators), Weights \subseteq SkillWeights, Quorum \in Nat
  PROVE  Evaluations => []SupportKeepsVerdict
  <1>1. Given => SupportKeepsVerdict
    <2> DEFINE ballots == input.ballots
               weight == input.weight
               v == Verdict(ballots, weight, Quorum)
    <2> SUFFICES ASSUME Given, input.kind = "election", v # Undecided,
                        NEW a \in Abstainers
                 PROVE  Verdict(ballots \cup {<<a, v>>}, weight, Quorum) = v
      BY Zenon DEF SupportKeepsVerdict, Chosen
    <2>1. Vote(ballots, weight) /\ weight \in [Annotators -> Weights]
      BY ElectionsAreVotes
    <2>2. /\ v \in Preferences /\ Wins(v, ballots, weight)
          /\ Cardinality(ballots) >= Quorum
      BY <2>1, VerdictsWin
    <2> DEFINE b == <<a, v>>
               more == ballots \cup {b}
               cast == WeightOf(ballots, weight)
               casts == WeightOf(more, weight)
               behind == WeightOf(For(ballots, v), weight)
               behinds == WeightOf(For(more, v), weight)
    <2>3. a \in Annotators /\ b \notin ballots /\ b[1] = a /\ b[2] = v
      BY DEF Abstainers
    <2>4. weight[a] \in Nat \ {0}
      <3>1. weight[a] \in Weights
        BY <2>1, <2>3
      <3> QED BY <3>1, WeightsArePositive
    <2> HIDE DEF v, weight, ballots, b
    <2>5. IsFiniteSet(ballots) /\ IsFiniteSet(more) /\ Cardinality(more) = Cardinality(ballots) + 1
          /\ Cardinality(ballots) \in Nat
      BY <2>1, <2>3, FS_AddElement, FS_CardinalityType DEF Vote
    <2>6. Vote(more, weight)
      BY <2>1, <2>2, <2>3, <2>4, <2>5 DEF Vote
    <2>7. PICK g : Additive(g, more, weight)
      BY <2>6, AdditiveExists DEF Vote
    <2>8. \A S \in SUBSET more : WeightOf(S, weight) = g[S]
      <3> HIDE DEF more
      <3> SUFFICES ASSUME NEW S \in SUBSET more
                   PROVE  WeightOf(S, weight) = g[S]
        OBVIOUS
      <3>1. IsFiniteSet(more) /\ Additive(g, more, weight)
        BY <2>5, <2>7
      <3>2. PICK m, w : m = more /\ w = weight
        OBVIOUS
      <3>3. IsFiniteSet(m) /\ Additive(g, m, w) /\ S \in SUBSET m
        BY <3>1, <3>2
      <3>4. WeightOf(S, w) = g[S]
        BY <3>3, WeightIsSum
      <3> QED BY <3>2, <3>4
    <2>9. /\ For(more, v) = For(ballots, v) \cup {b} /\ b \notin For(ballots, v)
          /\ For(ballots, v) \in SUBSET ballots
      BY <2>3 DEF For
    <2>10. casts = weight[a] + cast /\ behinds = weight[a] + behind
      <3>1. \A S \in SUBSET ballots : g[S \cup {b}] = weight[a] + g[S]
        <4> SUFFICES ASSUME NEW S \in SUBSET ballots PROVE g[S \cup {b}] = weight[a] + g[S]
          OBVIOUS
        <4>1. S \cup {b} \in SUBSET more /\ b \in S \cup {b} /\ (S \cup {b}) \ {b} = S
          BY <2>3
        <4>2. \A s \in SUBSET more : \A c \in s : g[s] = weight[c[1]] + g[s \ {c}]
          BY <2>7 DEF Additive
        <4> QED BY <2>3, <4>1, <4>2
      <3>2. /\ ballots \in SUBSET ballots /\ ballots \in SUBSET more /\ more \in SUBSET more
            /\ For(ballots, v) \in SUBSET more /\ For(more, v) \in SUBSET more
        BY <2>9 DEF For
      <3> QED BY <2>8, <2>9, <3>1, <3>2
    <2>11. cast \in Nat /\ behind \in Nat
      BY <2>1, VotesAreCounted
    <2>12. 20000 * behind >= 10001 * cast
      BY <2>1, <2>2, WinnersLead
    <2>13. 20000 * behinds >= 10001 * casts
      <3> HIDE DEF casts, behinds, cast, behind
      <3> QED BY <2>4, <2>10, <2>11, <2>12
    <2>14. Wins(v, more, weight)
      BY <2>2, <2>6, <2>13, WinnersLead
    <2>15. Cardinality(more) >= Quorum
      BY <2>2, <2>5
    <2> HIDE DEF more
    <2>16. Verdict(more, weight, Quorum) = v
      BY <2>2, <2>6, <2>14, <2>15, VerdictsWin
    <2> QED BY <2>16 DEF more, b
  <1> QED BY <1>1, InputStays, PTL

-------------------------------------------------------------------------------
(* Weights of annotators                                                   *)

(* A quotient and its rounding, up to multiples.                           *)
LEMMA RoundingsAreNear ==
  ASSUME NEW n \in Nat, NEW d \in Nat \ {0}, NEW q \in Roundings(n, d)
  PROVE  q \in Nat /\ 2 * (q * d) <= 2 * n + d /\ 2 * n <= 2 * (q * d) + d
  <1>1. n \div d \in Nat
    BY DivMeans
  <1>2. q \in {n \div d, n \div d + 1} /\ 2 * q * d <= 2 * n + d /\ 2 * n <= 2 * q * d + d
    BY DEF Roundings
  <1>3. q \in Nat
    BY <1>1, <1>2
  <1>4. 2 * q * d = 2 * (q * d)
    BY <1>3
  <1> QED BY <1>2, <1>3, <1>4

(* A larger share is not rounded to less.                                  *)
LEMMA RoundingsAreMonotone ==
  ASSUME NEW n \in Nat, NEW d \in Nat \ {0}, NEW m \in Nat, NEW e \in Nat \ {0}, n * e < m * d,
         NEW q \in Roundings(n, d), NEW p \in Roundings(m, e)
  PROVE  q <= p
  <1>1. /\ q \in Nat /\ 2 * (q * d) <= 2 * n + d /\ 2 * n <= 2 * (q * d) + d
        /\ p \in Nat /\ 2 * (p * e) <= 2 * m + e /\ 2 * m <= 2 * (p * e) + e
    BY RoundingsAreNear
  <1>2. SUFFICES ASSUME p + 1 <= q PROVE FALSE
    BY <1>1
  <1>3. d * (p + 1) <= d * q /\ d * (p + 1) = d * p + d /\ d * q = q * d /\ d * p \in Nat
    BY <1>1, <1>2, TimesMore
  <1>4. 2 * (d * p) + d <= 2 * n
    BY <1>1, <1>3
  <1>5. e * (2 * (d * p) + d) <= e * (2 * n)
    BY <1>3, <1>4, TimesMore
  <1>6. d * (2 * m) <= d * (2 * (p * e) + e)
    BY <1>1, TimesMore
  <1>7. /\ e * (2 * (d * p) + d) = 2 * (d * p * e) + d * e
        /\ d * (2 * (p * e) + e) = 2 * (d * p * e) + d * e
        /\ e * (2 * n) = 2 * (n * e) /\ d * (2 * m) = 2 * (m * d)
    BY <1>1, <1>3
  <1>8. d * p * e \in Nat /\ d * e \in Nat /\ n * e \in Nat /\ m * d \in Nat
    BY <1>1, <1>3
  <1> QED BY <1>5, <1>6, <1>7, <1>8

(* Nor is it clamped to less.                                              *)
LEMMA ClampingIsMonotone ==
  ASSUME NEW p \in Nat, NEW q \in Nat, p <= q
  PROVE  Clamped(p) <= Clamped(q) /\ Clamped(p) \in Nat /\ Clamped(q) \in Nat
  BY DEF Clamped, Most, Least

(* The weight after one more right and after one more wrong answer.        *)
LEMMA SharesMove ==
  ASSUME NEW c \in Nat, NEW e \in Nat \ {0}, c <= e
  PROVE  /\ (1000 * (e + 1) + 7000 * (2 * c + 1)) * (e + 2)
              < (1000 * (e + 2) + 7000 * (2 * (c + 1) + 1)) * (e + 1)
         /\ (1000 * (e + 2) + 7000 * (2 * c + 1)) * (e + 1)
              < (1000 * (e + 1) + 7000 * (2 * c + 1)) * (e + 2)
  <1>1. /\ (1000 * (e + 1) + 7000 * (2 * c + 1)) * (e + 2)
             = 1000 * ((e + 1) * (e + 2)) + 14000 * (c * e) + 28000 * c + 7000 * e + 14000
        /\ (1000 * (e + 2) + 7000 * (2 * (c + 1) + 1)) * (e + 1)
             = 1000 * ((e + 1) * (e + 2)) + 14000 * (c * e) + 14000 * c + 21000 * e + 21000
        /\ (1000 * (e + 2) + 7000 * (2 * c + 1)) * (e + 1)
             = 1000 * ((e + 1) * (e + 2)) + 14000 * (c * e) + 14000 * c + 7000 * e + 7000
    OBVIOUS
  <1>2. (e + 1) * (e + 2) \in Nat /\ c * e \in Nat
    OBVIOUS
  <1> QED BY <1>1, <1>2

(* So for the weights these shares are rounded to.                         *)
LEMMA WeightsMove ==
  ASSUME NEW c \in Nat, NEW e \in Nat, c <= e, NEW before \in SkillWeight(c, e)
  PROVE  /\ \A after \in SkillWeight(c + 1, e + 1) : after >= before
         /\ \A after \in SkillWeight(c, e + 1) : after <= before
  <1> DEFINE share(k, n) == 1000 * (n + 1) + 7000 * (2 * k + 1)
  <1>1. \A k, n \in Nat : /\ SkillWeight(k, n + 1)
                               = {Clamped(q) : q \in Roundings(share(k, n + 1), n + 2)}
                          /\ share(k, n + 1) \in Nat
    BY DEF SkillWeight
  <1>2. CASE e = 0
    <2>1. c = 0 /\ before = 10000
      BY <1>2 DEF SkillWeight, Unit
    <2>2. \A q \in Roundings(share(1, 1), 2) : q = 11500
      BY RoundingsAreNear
    <2>3. \A q \in Roundings(share(0, 1), 2) : q = 4500
      BY RoundingsAreNear
    <2>4. Clamped(11500) >= 10000 /\ Clamped(4500) <= 10000
      BY DEF Clamped, Most, Least
    <2>5. /\ SkillWeight(1, 1) = {Clamped(q) : q \in Roundings(share(1, 1), 2)}
          /\ SkillWeight(0, 1) = {Clamped(q) : q \in Roundings(share(0, 1), 2)}
      BY DEF SkillWeight
    <2> HIDE DEF share
    <2>6. c + 1 = 1 /\ e + 1 = 1 /\ c = 0
      BY <1>2, <2>1
    <2> QED BY <2>1, <2>2, <2>3, <2>4, <2>5, <2>6
  <1>3. CASE e # 0
    <2>1. PICK q \in Roundings(share(c, e), e + 1) : before = Clamped(q)
      BY <1>3 DEF SkillWeight
    <2>2. /\ SkillWeight(c + 1, e + 1)
               = {Clamped(p) : p \in Roundings(share(c + 1, e + 1), e + 2)}
          /\ SkillWeight(c, e + 1)
               = {Clamped(p) : p \in Roundings(share(c, e + 1), e + 2)}
      BY <1>1
    <2>3. /\ share(c, e) \in Nat /\ share(c + 1, e + 1) \in Nat /\ share(c, e + 1) \in Nat
          /\ e + 1 \in Nat \ {0} /\ e + 2 \in Nat \ {0}
      OBVIOUS
    <2>4. /\ share(c, e) * (e + 2) < share(c + 1, e + 1) * (e + 1)
          /\ share(c, e + 1) * (e + 1) < share(c, e) * (e + 2)
      <3>1. (e + 1) + 1 = e + 2
        OBVIOUS
      <3> QED BY <1>3, <3>1, SharesMove
    <2> HIDE DEF share
    <2>5. ASSUME NEW p \in Roundings(share(c + 1, e + 1), e + 2)
          PROVE  Clamped(p) >= before
      <3>1. q \in Nat /\ p \in Nat
        BY <2>3, RoundingsAreNear
      <3>2. q <= p
        BY <2>3, <2>4, RoundingsAreMonotone
      <3>3. Clamped(q) <= Clamped(p) /\ Clamped(q) \in Nat /\ Clamped(p) \in Nat
        BY <3>1, <3>2, ClampingIsMonotone
      <3> QED BY <2>1, <3>3
    <2>6. ASSUME NEW p \in Roundings(share(c, e + 1), e + 2)
          PROVE  Clamped(p) <= before
      <3>1. q \in Nat /\ p \in Nat
        BY <2>3, RoundingsAreNear
      <3>2. p <= q
        BY <2>3, <2>4, RoundingsAreMonotone
      <3>3. Clamped(p) <= Clamped(q) /\ Clamped(q) \in Nat /\ Clamped(p) \in Nat
        BY <3>1, <3>2, ClampingIsMonotone
      <3> QED BY <2>1, <3>3
    <2> QED BY <2>2, <2>5, <2>6
  <1> QED BY <1>2, <1>3

(* An input is of the kind it says.                                        *)
LEMMA KindsTell ==
  ASSUME Given
  PROVE  /\ input.kind = "gold" => input \in Records
         /\ input.kind = "domain" => input \in Domains
         /\ input.kind = "export" => input \in Exports
  <1>1. input \in Elections => input.kind = "election"
    BY DEF Elections
  <1>2. input \in Trees => input.kind = "tree"
    BY DEF Trees
  <1>3. input \in Records => input.kind = "gold"
    BY DEF Records
  <1>4. input \in Domains => input.kind = "domain"
    BY DEF Domains
  <1>5. input \in Exports => input.kind = "export"
    BY DEF Exports
  <1> QED BY <1>1, <1>2, <1>3, <1>4, <1>5 DEF Given

(* However a half is rounded and however many gold tasks there are, a right  *)
(* answer never lowers the weight of an annotator, and a wrong one never     *)
(* raises it (compute_bayesian_skill_weight).                                *)
THEOREM CalibrationIsMonotone ==
  ASSUME MaxEvaluated \in Nat
  PROVE  Evaluations => []AnswersMoveWeightTheirWay
  <1>1. Given => AnswersMoveWeightTheirWay
    <2> SUFFICES ASSUME Given, input.kind = "gold" PROVE AnswersMoveWeightTheirWay
      BY DEF AnswersMoveWeightTheirWay
    <2>1. input \in Records
      BY KindsTell
    <2>2. input.correct \in Nat /\ input.evaluated \in Nat /\ input.correct <= input.evaluated
      <3>1. /\ input \in [kind : {"gold"}, correct : 0..MaxEvaluated, evaluated : 0..MaxEvaluated]
            /\ input.correct <= input.evaluated
        BY <2>1 DEF Records
      <3> QED BY <3>1
    <2> QED BY <2>2, WeightsMove DEF AnswersMoveWeightTheirWay
  <1> QED BY <1>1, InputStays, PTL

-------------------------------------------------------------------------------
(* Thresholds of domains                                                   *)

(* Min picks the least of some natural numbers.                            *)
LEMMA LeastNatural ==
  ASSUME NEW S \in SUBSET Nat, S # {}
  PROVE  Min(S) \in S /\ \A n \in S : Min(S) <= n
  <1>1. PICK n \in S : \A m \in S : ~(<<m, n>> \in OpToRel(<, Nat))
    BY NatLessThanWellFounded, WFMin, Zenon
  <1>2. \A m \in S : m \in Nat /\ ~(m < n)
    BY <1>1 DEF OpToRel
  <1>3. n \in Nat /\ \A m \in S : n <= m
    BY <1>2
  <1> QED BY <1>3 DEF Min

(* A bounded measure has its largest value somewhere.                      *)
LEMMA Highest ==
  ASSUME NEW S, S # {}, NEW f, NEW m \in Nat, \A s \in S : f[s] \in Nat /\ f[s] <= m
  PROVE  \E s \in S : \A t \in S : f[t] <= f[s]
  <1> DEFINE Gaps == {m - f[s] : s \in S}
  <1>1. Gaps \in SUBSET Nat /\ Gaps # {}
    OBVIOUS
  <1>2. Min(Gaps) \in Gaps /\ \A n \in Gaps : Min(Gaps) <= n
    BY <1>1, LeastNatural
  <1>3. PICK s \in S : Min(Gaps) = m - f[s]
    BY <1>2
  <1>4. \A t \in S : m - f[s] <= m - f[t]
    BY <1>2, <1>3
  <1> QED BY <1>4

(* The tasks of a domain, with scores that are bounded.                    *)
Measured(tasks) ==
    /\ DOMAIN tasks = 1..MaxResolved
    /\ \A i \in 1..MaxResolved : tasks[i].judge \in Nat /\ tasks[i].judge <= Unjudged

(* Some score has the quarter of the others below it: the highest has all. *)
LEMMA QuartileIsAScore ==
  ASSUME MaxResolved \in Nat, NEW tasks, Measured(tasks), Splits(tasks) \cap Judged(tasks) # {}
  PROVE  Quartile(tasks) \in Nat
  <1> DEFINE scored == Splits(tasks) \cap Judged(tasks)
             upTo(score) == {i \in scored : tasks[i].judge <= score}
             judges == [i \in scored |-> tasks[i].judge]
             low == {score \in {tasks[i].judge : i \in scored} :
                       Cardinality(upTo(score)) > (Cardinality(scored) - 1) \div 4}
  <1>1. scored \in SUBSET (1..MaxResolved)
    BY DEF Measured, Splits, Judged
  <1>2. \A i \in scored : /\ judges[i] = tasks[i].judge /\ judges[i] \in Nat
                           /\ judges[i] <= Unjudged
    BY <1>1 DEF Measured
  <1>3. PICK h \in scored : \A i \in scored : judges[i] <= judges[h]
    <2>1. Unjudged \in Nat
      BY DEF Unjudged, Unit
    <2> HIDE DEF scored, judges
    <2> QED BY <1>2, <2>1, Highest DEF scored
  <1>4. upTo(tasks[h].judge) = scored
    BY <1>2, <1>3
  <1>5. Cardinality(scored) \in Nat /\ Cardinality(scored) # 0
    <2>1. IsFiniteSet(1..MaxResolved)
      BY FS_Interval
    <2>2. IsFiniteSet(scored)
      BY <1>1, <2>1, FS_Subset
    <2>3. Cardinality(scored) \in Nat /\ Cardinality(scored) # 0
      BY <2>2, FS_CardinalityType, FS_EmptySet
    <2> QED BY <2>3
  <1>6. Cardinality(scored) > (Cardinality(scored) - 1) \div 4
    <2> HIDE DEF scored
    <2> QED BY <1>5
  <1>7. tasks[h].judge \in low
    BY <1>4, <1>6
  <1>8. low \in SUBSET Nat
    BY <1>2
  <1>9. Min(low) \in low
    <2> HIDE DEF low
    <2> QED BY <1>7, <1>8, LeastNatural
  <1>10. Quartile(tasks) = Min(low)
    BY DEF Quartile
  <1> QED BY <1>8, <1>9, <1>10

(* The share of split votes, none without any.                             *)
LEMMA RatesAreNatural ==
  ASSUME MaxResolved \in Nat, NEW tasks, Measured(tasks), NEW rate \in SplitRates(tasks)
  PROVE  rate \in Nat /\ (Splits(tasks) = {} => rate = 0)
  <1>1. IsFiniteSet(Resolved(tasks)) /\ IsFiniteSet(Splits(tasks))
    <2>1. Resolved(tasks) \subseteq 1..MaxResolved /\ Splits(tasks) \subseteq 1..MaxResolved
      BY DEF Measured, Resolved, Splits
    <2>2. IsFiniteSet(1..MaxResolved)
      BY FS_Interval
    <2> QED BY <2>1, <2>2, FS_Subset
  <1> DEFINE n == Cardinality(Splits(tasks))
             d == Cardinality(Resolved(tasks))
  <1>2. /\ n \in Nat /\ d \in Nat /\ (Resolved(tasks) # {} => d # 0)
        /\ (Splits(tasks) = {} => n = 0)
    BY <1>1, FS_CardinalityType, FS_EmptySet
  <1>3. CASE Resolved(tasks) = {}
    BY <1>3 DEF SplitRates
  <1>4. CASE Resolved(tasks) # {}
    <2>1. rate \in Roundings(10000 * n, d)
      BY <1>4 DEF SplitRates, Unit
    <2> HIDE DEF n, d
    <2>2. rate \in Nat /\ 2 * (rate * d) <= 2 * (10000 * n) + d
      <3>1. 10000 * n \in Nat /\ d \in Nat \ {0}
        BY <1>2, <1>4
      <3> QED BY <2>1, <3>1, RoundingsAreNear
    <2>3. n = 0 => rate = 0
      <3> SUFFICES ASSUME n = 0, rate # 0 PROVE FALSE
        OBVIOUS
      <3>1. d * 1 <= d * rate /\ d * rate = rate * d
        BY <1>2, <2>2, TimesMore
      <3> QED BY <1>2, <1>4, <2>2, <3>1
    <2> QED BY <1>2, <2>2, <2>3
  <1> QED BY <1>3, <1>4

LEMMA AnchorsAreNatural ==
  ASSUME MaxResolved \in Nat, NEW tasks, Measured(tasks), NEW current \in Nat, NEW rate \in Nat
  PROVE  AnchorScore(tasks, current, rate) \in Nat
  <1>1. \A a, b \in Nat : Less(a, b) \in Nat /\ Most(a, b) \in Nat
    BY DEF Less, Most
  <1> DEFINE target == IF Splits(tasks) \cap Judged(tasks) # {}
                       THEN Less(Quartile(tasks), 200) * 10000
                       ELSE Less(current * 10000, 800 * (10000 + rate))
  <1>2. target \in Nat
    <2>1. CASE Splits(tasks) \cap Judged(tasks) # {}
      <3>1. Less(Quartile(tasks), 200) \in Nat
        BY <1>1, <2>1, QuartileIsAScore
      <3> QED BY <2>1, <3>1
    <2>2. CASE Splits(tasks) \cap Judged(tasks) = {}
      <3>1. current * 10000 \in Nat /\ 800 * (10000 + rate) \in Nat
        OBVIOUS
      <3> QED BY <1>1, <2>2, <3>1
    <2> QED BY <2>1, <2>2
  <1>3. AnchorScore(tasks, current, rate) = Most(4500 * 10000, target)
    BY DEF AnchorScore, MinAdaptive, Unit
  <1> HIDE DEF target
  <1> QED BY <1>1, <1>2, <1>3

(* A lowered threshold is at least 0.03 lower, or the lower bound.         *)
LEMMA LoweredIsLower ==
  ASSUME MaxResolved \in Nat, NEW tasks, Measured(tasks), NEW current \in Nat, NEW rate \in Nat,
         NEW new \in Lowered(tasks, current, rate)
  PROVE  new < current \/ new = MinAdaptive
  <1> DEFINE room == Less(current, 300)
             half == 10000 * current + AnchorScore(tasks, current, rate)
             num == Least(2 * 10000 * room, half)
  <1>1. room \in Nat /\ (room # 0 => room < current)
    BY DEF Less
  <1>2. half \in Nat
    <2>1. AnchorScore(tasks, current, rate) \in Nat
      BY AnchorsAreNatural
    <2> QED BY <2>1
  <1>3. PICK q \in Roundings(num, 20000) : new = Least(9200, Most(4500, q))
    BY DEF Lowered, MinAdaptive, MaxAdaptive, Unit
  <1> HIDE DEF room, half
  <1>4. num \in Nat /\ num <= 20000 * room
    BY <1>1, <1>2 DEF Least
  <1> HIDE DEF num
  <1>5. q \in Nat /\ 2 * (q * 20000) <= 2 * num + 20000
    BY <1>4, RoundingsAreNear
  <1>6. q <= room
    BY <1>1, <1>4, <1>5
  <1> QED BY <1>1, <1>3, <1>5, <1>6 DEF Least, Most, MinAdaptive

(* Whatever the scores of the tasks, a recalibration after missed splits     *)
(* ends lower or at the lower bound, one without any split ends no lower     *)
(* but at the upper bound, and a pinned threshold stays                      *)
(* (calibrate_organization_domain_thresholds).                               *)
THEOREM ThresholdsFollow ==
  ASSUME Thresholds \subseteq Nat, Scores \subseteq 0..Unit, Samples \in Nat,
         MaxResolved \in Nat
  PROVE  Evaluations => []ThresholdFollowsEvidence
  <1>1. Given => ThresholdFollowsEvidence
    <2> DEFINE tasks == input.tasks
               current == input.current
               auto == input.auto
               missed == UnpredictedSplits(tasks, current) # {}
               few == Cardinality(Resolved(tasks)) < Samples
               enough == Cardinality(Resolved(tasks)) >= Samples
    <2> SUFFICES ASSUME Given, input.kind = "domain",
                        NEW new \in Recalibrated(tasks, current, auto, Samples)
                 PROVE  /\ missed => new < current \/ new \in {current, MinAdaptive}
                        /\ missed /\ auto /\ enough => new < current \/ new = MinAdaptive
                        /\ Splits(tasks) = {} => new >= current \/ new = MaxAdaptive
                        /\ ~auto => new = current
      BY DEF ThresholdFollowsEvidence
    <2>1. input \in Domains
      BY KindsTell
    <2> DEFINE Judgement == [vote : {"open", "split", "clear", "narrow"},
                             judge : Scores \cup {Unjudged}]
    <2>0. input \in [kind : {"domain"}, current : Thresholds, auto : BOOLEAN,
                     tasks : [1..MaxResolved -> Judgement]]
      BY <2>1 DEF Domains
    <2>2. current \in Nat /\ auto \in BOOLEAN /\ tasks \in [1..MaxResolved -> Judgement]
      <3> HIDE DEF Judgement
      <3> QED BY <2>0
    <2>3. Measured(tasks)
      <3> HIDE DEF tasks
      <3>1. \A i \in 1..MaxResolved : tasks[i] \in Judgement
        BY <2>2
      <3>2. \A i \in 1..MaxResolved : tasks[i].judge \in Scores \cup {Unjudged}
        BY <3>1
      <3>3. \A s \in Scores \cup {Unjudged} : s \in Nat /\ s <= Unjudged
        <4>1. Unit \in Nat
          BY DEF Unit
        <4> QED BY <4>1 DEF Unjudged
      <3>4. DOMAIN tasks = 1..MaxResolved
        BY <2>2
      <3> QED BY <3>2, <3>3, <3>4 DEF Measured
    <2>4. PICK rate \in SplitRates(tasks) :
            new \in IF ~auto \/ few THEN {current}
                    ELSE IF TooHigh(tasks, current, rate)
                    THEN Lowered(tasks, current, rate)
                    ELSE IF TooLow(tasks, current, rate, Samples)
                    THEN {Least(MaxAdaptive, current + 500)}
                    ELSE {current}
      BY DEF Recalibrated
    <2>5. rate \in Nat /\ (Splits(tasks) = {} => rate = 0)
      BY <2>3, RatesAreNatural
    <2>6. /\ missed => TooHigh(tasks, current, rate)
          /\ Splits(tasks) = {} => ~TooHigh(tasks, current, rate) /\ ~missed
      BY <2>5 DEF TooHigh, UnpredictedSplits
    <2>7. \A n \in Lowered(tasks, current, rate) : n < current \/ n = MinAdaptive
      BY <2>2, <2>3, <2>5, LoweredIsLower
    <2>8. LET up == Least(MaxAdaptive, current + 500)
          IN  up >= current \/ up = MaxAdaptive
      BY <2>2 DEF Least, MaxAdaptive
    <2>9. enough => ~few
      <3>1. IsFiniteSet(1..MaxResolved) /\ Resolved(tasks) \subseteq 1..MaxResolved
        BY <2>3, FS_Interval DEF Measured, Resolved
      <3>2. Cardinality(Resolved(tasks)) \in Nat
        BY <3>1, FS_Subset, FS_CardinalityType
      <3> QED BY <3>2
    <2> HIDE DEF tasks, current, auto, missed, few, enough
    <2> QED BY <2>2, <2>4, <2>6, <2>7, <2>8, <2>9
  <1> QED BY <1>1, InputStays, PTL

-------------------------------------------------------------------------------
(* Dataset export                                                          *)

(* SelectInSeq: the first of the positions that pass, if there is one.     *)
LEMMA FirstIsFirst ==
  \A n \in Nat : \A S \in SUBSET (1..n) : S # {} => Min(S) \in S /\ Min(S) # 0
  <1> SUFFICES ASSUME NEW n \in Nat, NEW S \in SUBSET (1..n), S # {}
               PROVE  Min(S) \in S /\ Min(S) # 0
    OBVIOUS
  <1>1. S \in SUBSET Nat
    OBVIOUS
  <1>2. Min(S) \in S
    BY <1>1, LeastNatural
  <1>3. \A s \in S : s # 0
    OBVIOUS
  <1> QED BY <1>2, <1>3

LEMMA ExportsAreBallots ==
  ASSUME input \in Exports
  PROVE  \E n \in 0..MaxBallots : input.ballots \in [1..n -> Ballot]
  <1> DEFINE All == UNION {[1..n -> Ballot] : n \in 0..MaxBallots}
  <1>1. input \in [kind : {"export"}, ballots : All,
                   choice : {"response_a", "response_b", "tie", ""}]
    BY Zenon DEF Exports
  <1> HIDE DEF All
  <1>2. input.ballots \in All
    BY <1>1
  <1> QED BY <1>2 DEF All

(* The oldest winner with both responses, or the oldest with both.         *)
LEMMA OneBallotIsPreferred ==
  ASSUME NEW n \in Nat, NEW ballots \in [1..n -> Ballot]
  PROVE  LET full == {i \in DOMAIN ballots : ballots[i].a /\ ballots[i].b}
             winners == {i \in full : ballots[i].wins}
             pair == CandidatePair(ballots)
         IN  /\ winners # {} => full # {}
             /\ full # {} => pair[1] = pair[2] /\ pair[1] \in full
             /\ winners # {} => pair[1] \in winners
  <1> DEFINE full == {i \in DOMAIN ballots : ballots[i].a /\ ballots[i].b}
             winners == {i \in full : ballots[i].wins}
             pair == CandidatePair(ballots)
             bothOf == {i \in 1..n : ballots[i].a /\ ballots[i].b}
             winning == {i \in 1..n : ballots[i].wins /\ ballots[i].a /\ ballots[i].b}
             winner == IF winning # {} THEN Min(winning) ELSE 0
             any == IF bothOf # {} THEN Min(bothOf) ELSE 0
  <1>1. Len(ballots) = n /\ DOMAIN ballots = 1..n
    OBVIOUS
  <1>2. Preferred(ballots) = IF winner # 0 THEN winner ELSE any
    BY <1>1 DEF Preferred, FirstOf, SelectInSeq, Missing
  <1>3. full = bothOf /\ winners = winning /\ winning \subseteq bothOf
    BY <1>1
  <1>4. /\ (winning # {} => winner \in winning /\ winner # 0) /\ (winning = {} => winner = 0)
        /\ (bothOf # {} => any \in bothOf /\ any # 0)
    <2>1. winning \in SUBSET (1..n) /\ bothOf \in SUBSET (1..n)
      OBVIOUS
    <2>2. /\ winner = IF winning # {} THEN Min(winning) ELSE 0
          /\ any = IF bothOf # {} THEN Min(bothOf) ELSE 0
      OBVIOUS
    <2> HIDE DEF winning, bothOf, winner, any
    <2>3. \A S \in SUBSET (1..n) : S # {} => Min(S) \in S /\ Min(S) # 0
      BY FirstIsFirst
    <2> QED BY <2>1, <2>2, <2>3
  <1> HIDE DEF winning, bothOf, winner, any, full, winners
  <1>5. full # {} => /\ Preferred(ballots) # 0 /\ Preferred(ballots) \in full
                     /\ winners # {} => Preferred(ballots) \in winners
    BY <1>2, <1>3, <1>4
  <1>6. full # {} => pair = <<Preferred(ballots), Preferred(ballots)>>
    BY <1>5 DEF CandidatePair, Missing
  <1>7. winners # {} => full # {}
    BY <1>3
  <1> HIDE DEF pair
  <1> QED BY <1>5, <1>6, <1>7 DEF full, winners, pair

(* The two sides of a record are the two of the pair, the winner chosen.   *)
LEMMA SidesAreOfThePair ==
  ASSUME NEW ballots, NEW choice \in {"response_a", "response_b", "tie"}
  PROVE  LET r == RecordOf(ballots, choice)
             pair == CandidatePair(ballots)
         IN  /\ \/ r.chosen[1] = pair[1] /\ r.rejected[1] = pair[2]
                \/ r.chosen[1] = pair[2] /\ r.rejected[1] = pair[1]
             /\ choice # "tie" => r.chosen[2] = choice
  BY DEF RecordOf

(* From any number of ballots, a record takes both of its sides from one     *)
(* that has both, from a winner if there is one, and chooses the response    *)
(* that won (the pair of the dataset export).                                *)
THEOREM RecordsPairWinners ==
  ASSUME MaxBallots \in Nat
  PROVE  Evaluations => []RecordIsAWinnersPair
  <1>1. Given => RecordIsAWinnersPair
    <2> SUFFICES ASSUME Given, input.kind = "export" PROVE RecordIsAWinnersPair
      BY DEF RecordIsAWinnersPair, Exported, Qualifies
    <2>1. PICK n \in 0..MaxBallots : input.ballots \in [1..n -> Ballot]
      BY KindsTell, ExportsAreBallots
    <2> DEFINE full == {i \in DOMAIN input.ballots : input.ballots[i].a /\ input.ballots[i].b}
               winners == {i \in full : input.ballots[i].wins}
               pair == CandidatePair(input.ballots)
    <2>2. n \in Nat
      BY <2>1
    <2>3. /\ winners # {} => full # {}
          /\ full # {} => pair[1] = pair[2] /\ pair[1] \in full
          /\ winners # {} => pair[1] \in winners
      BY <2>1, <2>2, OneBallotIsPreferred
    <2> DEFINE r == RecordOf(input.ballots, input.choice)
    <2>4. ASSUME input.choice \in {"response_a", "response_b", "tie"}
          PROVE  /\ full # {} => r.chosen[1] = r.rejected[1] /\ r.chosen[1] \in full
                 /\ winners # {} => r.chosen[1] \in winners
                 /\ input.choice # "tie" => r.chosen[2] = input.choice
      <3>1. /\ \/ r.chosen[1] = pair[1] /\ r.rejected[1] = pair[2]
               \/ r.chosen[1] = pair[2] /\ r.rejected[1] = pair[1]
            /\ input.choice # "tie" => r.chosen[2] = input.choice
        BY <2>4, SidesAreOfThePair
      <3> HIDE DEF full, winners, pair, r
      <3> QED BY <2>3, <3>1
    <2> QED BY <2>4 DEF RecordIsAWinnersPair, Exported, Qualifies
  <1> QED BY <1>1, InputStays, PTL
===============================================================================
