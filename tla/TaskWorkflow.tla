----------------------------- MODULE TaskWorkflow -----------------------------
(***************************************************************************)
(* The life of RLHF tasks: leasing (claim), annotation and consensus,      *)
(* adjudication, triage, editing, machine translation, soft deletion.      *)
(*                                                                         *)
(* There is no ATOMIC_REQUESTS: a handler reads the task row, works on     *)
(* that copy (for a translation or a triage across an LLM call) and writes *)
(* in a later transaction, under PostgreSQL's READ COMMITTED.  A request   *)
(* is therefore a process with a remembered copy of the row (snap) and one *)
(* action per transaction boundary; a transaction that only writes is one  *)
(* step, because its row lock hides it until it commits.                   *)
(***************************************************************************)
EXTENDS Consensus

CONSTANTS
    Tasks, Users,
    Workers,            \* web and Celery processes: the requests in flight
    NoOne, NoTask,      \* null references
    Gold,               \* the calibration tasks
    GoldChoice,         \* gold_choice of every gold task
    Required,           \* required_annotations
    LeaseTime,          \* lease_seconds of a claim
    MaxClock,           \* bound on the clock
    CalibratedWeights,  \* weights a calibrated annotator may have
    Operations,         \* the operations clients use in this instance,
    Votes,              \* the preferences they cast
    Edits               \* and the <<status, is_active>> pairs they PATCH

ASSUME ConstantsAssumption ==
    /\ Gold \subseteq Tasks
    /\ NoOne \notin Users /\ NoTask \notin Tasks
    /\ GoldChoice \in Preferences
    /\ Required \in 1..25
    /\ LeaseTime \in Nat \ {0} /\ MaxClock \in Nat
    /\ CalibratedWeights \subseteq SkillWeights
    /\ Votes \subseteq Preferences

Statuses == {"pending", "in_progress", "completed", "archived"}

ASSUME EditsAssumption == Edits \subseteq Statuses \X BOOLEAN

VARIABLES
    clock,        \* wall clock, in lease units
    row,          \* tasks_task
    annotations,  \* tasks_taskannotation, committed: ballots of each task
    evaluated,    \* gold_evaluated_count of each annotator
    correct,      \* gold_correct_count
    outbox,       \* core_outboxevent rows committed with the transactions
    req           \* the request each worker is serving

vars == <<clock, row, annotations, evaluated, correct, outbox, req>>

-------------------------------------------------------------------------------
(* Data                                                                    *)

(* escalated: difficulty = "expert" and auto_escalated.                    *)
Row == [active : BOOLEAN, status : Statuses, holder : Users \cup {NoOne},
        until : Nat, choice : Preferences \cup {Undecided}, escalated : BOOLEAN]

NewRow == [active |-> TRUE, status |-> "pending", holder |-> NoOne, until |-> 0,
           choice |-> Undecided, escalated |-> FALSE]

Ballots == Users \X Preferences

Voters(ballots) == {b[1] : b \in ballots}

EventTypes == {"task.consensus_reached", "task.completed", "task.uncertainty_escalated",
               "annotator.calibrated", "task.translated"}

Origins == {"consensus", "adjudicator", "editor", "judge", "gold", "translator"}

Event == [type : EventTypes, task : Tasks, choice : Preferences \cup {Undecided},
          by : Origins]

Announce(type, t, choice, by) == [type |-> type, task |-> t, choice |-> choice, by |-> by]

(* op is "vote" while an annotation's transaction is open.                 *)
Ops == {"idle", "claim", "annotate", "vote", "adjudicate", "triage", "update", "translate"}

Request == [op : Ops, user : Users \cup {NoOne}, task : Tasks \cup {NoTask}, snap : Row,
            asOf : Nat, ballots : SUBSET Ballots, verdict : Preferences \cup {Undecided}]

Idle == [op |-> "idle", user |-> NoOne, task |-> NoTask, snap |-> NewRow, asOf |-> 0,
         ballots |-> {}, verdict |-> Undecided]

(* Task.objects.create with the default status: the model starts with      *)
(* fresh tasks.                                                            *)
Init ==
    /\ clock = 0
    /\ row = [t \in Tasks |-> NewRow]
    /\ annotations = [t \in Tasks |-> {}]
    /\ evaluated = [u \in Users |-> 0]
    /\ correct = [u \in Users |-> 0]
    /\ outbox = {}
    /\ req = [w \in Workers |-> Idle]

Released(r) == [r EXCEPT !.holder = NoOne, !.until = 0]

Leased(r, now) == r.holder # NoOne /\ r.until > now

(* An idle worker takes up an operation on t.                              *)
Begin(w, op, t, request) ==
    /\ op \in Operations
    /\ req[w].op = "idle"
    /\ req' = [req EXCEPT ![w] = [request EXCEPT !.op = op, !.task = t]]
    /\ UNCHANGED <<clock, row, annotations, evaluated, correct, outbox>>

Finish(w) == req' = [req EXCEPT ![w] = Idle]

(* The process dies, the client disconnects, the LLM call fails or         *)
(* validation rejects the body: an open transaction rolls back.            *)
Abandon(w) ==
    /\ req[w].op # "idle"
    /\ Finish(w)
    /\ UNCHANGED <<clock, row, annotations, evaluated, correct, outbox>>

Tick ==
    /\ clock < MaxClock
    /\ clock' = clock + 1
    /\ UNCHANGED <<row, annotations, evaluated, correct, outbox, req>>

-------------------------------------------------------------------------------
(* Claim                                                                   *)

LeaseFree(r, u, now) == ~Leased(r, now) \/ r.holder = u

HasCapacity(t) == t \in Gold \/ Cardinality(annotations[t]) < Required

(* The filters of claim's candidate query.                                 *)
Eligible(t, u, now) ==
    /\ row[t].active
    /\ row[t].status \in {"pending", "in_progress"}
    /\ u \notin Voters(annotations[t])
    /\ HasCapacity(t)
    /\ LeaseFree(row[t], u, now)

(* The candidate query takes no lock.  The ranking, the filters of the     *)
(* request and probation routing only decide which candidate is picked.    *)
ClaimSelect(w) ==
    \E u \in Users, t \in Tasks :
        /\ Eligible(t, u, clock)
        /\ Begin(w, "claim", t, [Idle EXCEPT !.user = u, !.asOf = clock])

(* An open annotation transaction holds FOR KEY SHARE on the task it       *)
(* inserted a reference to, which FOR UPDATE SKIP LOCKED skips.            *)
LockedByVote(t) == \E v \in Workers : req[v].op = "vote" /\ req[v].task = t

(* A reading of lock_qs that trusts the candidate query.                   *)
ClaimableUnchecked(w, t) == ~LockedByVote(t)

(* lock_qs evaluates only the lease predicate again.                       *)
Claimable(w, t) ==
    /\ ~LockedByVote(t)
    /\ LeaseFree(row[t], req[w].user, req[w].asOf)

ClaimLock(w) ==
    LET t == req[w].task IN
    /\ req[w].op = "claim"
    /\ Claimable(w, t)
    /\ row' = [row EXCEPT ![t].holder = req[w].user,
                          ![t].until = req[w].asOf + LeaseTime,
                          ![t].status = IF @ = "pending" THEN "in_progress" ELSE @]
    /\ Finish(w)
    /\ UNCHANGED <<clock, annotations, evaluated, correct, outbox>>

(* 204: the candidates were taken meanwhile.  With one of them left the    *)
(* code takes that one, a run in which ClaimSelect had picked it.          *)
ClaimNothing(w) ==
    /\ req[w].op = "claim"
    /\ ~Claimable(w, req[w].task)
    /\ Finish(w)
    /\ UNCHANGED <<clock, row, annotations, evaluated, correct, outbox>>

-------------------------------------------------------------------------------
(* Annotate                                                                *)

(* get_object and the two 409 checks; neither a lease nor an open status   *)
(* is asked for.                                                           *)
AnnotateRead(w) ==
    \E u \in Users, t \in Tasks :
        /\ row[t].active
        /\ LeaseFree(row[t], u, clock)
        /\ u \notin Voters(annotations[t])
        /\ Begin(w, "annotate", t, [Idle EXCEPT !.user = u, !.snap = row[t]])

(* No unique (task, annotator) index.                                      *)
NoInsertConflict(w) == TRUE

(* The unique (task, annotator) index makes a second insert wait for the   *)
(* transaction of the first.                                               *)
InsertProceeds(w) ==
    \A v \in Workers \ {w} :
        ~(req[v].op = "vote" /\ req[v].task = req[w].task /\ req[v].user = req[w].user)

EffectiveWeights ==
    {weight \in [Users -> CalibratedWeights \cup {NeutralWeight}] :
        \A u \in Users : evaluated[u] = 0 => weight[u] = NeutralWeight}

(* Opens the transaction: inserts the annotation, then reads the committed *)
(* annotations, its own and the annotators' weights.                       *)
AnnotateInsert(w) ==
    LET t == req[w].task
        u == req[w].user IN
    /\ req[w].op = "annotate"
    /\ u \notin Voters(annotations[t])
    /\ InsertProceeds(w)
    /\ \E p \in Votes, weight \in EffectiveWeights :
         LET ballots == annotations[t] \cup {<<u, p>>} IN
         req' = [req EXCEPT ![w].op = "vote",
                            ![w].ballots = ballots,
                            ![w].verdict = IF t \in Gold THEN Undecided
                                           ELSE Verdict(ballots, weight, Required)]
    /\ UNCHANGED <<clock, row, annotations, evaluated, correct, outbox>>

(* IntegrityError: 409.                                                    *)
AnnotateConflict(w) ==
    /\ req[w].op = "annotate"
    /\ req[w].user \in Voters(annotations[req[w].task])
    /\ Finish(w)
    /\ UNCHANGED <<clock, row, annotations, evaluated, correct, outbox>>

SplitVote(q) == Cardinality(q.ballots) >= Required /\ q.verdict = Undecided

(* The row evaluate_task_consensus saves: every listed column comes from   *)
(* the copy read before the transaction, is_active stays the database's.   *)
ConsensusRow(r, q) ==
    [Released(r) EXCEPT
        !.choice = q.verdict,
        !.status = IF q.verdict # Undecided THEN "completed"
                   ELSE IF q.snap.status = "pending" THEN "in_progress"
                   ELSE q.snap.status,
        !.escalated = q.snap.escalated \/ SplitVote(q)]

ConsensusEvents(q) ==
    (IF SplitVote(q) /\ ~q.snap.escalated
     THEN {Announce("task.uncertainty_escalated", q.task, Undecided, "consensus")} ELSE {})
    \cup
    (IF q.verdict # Undecided
     THEN {Announce(type, q.task, q.verdict, "consensus") :
             type \in {"task.consensus_reached", "task.completed"}} ELSE {})

(* Commit of an annotation of an ordinary task.                            *)
AnnotateCommit(w) ==
    LET q == req[w] IN
    /\ q.op = "vote" /\ q.task \notin Gold
    /\ annotations' = [annotations EXCEPT ![q.task] = @ \cup q.ballots]
    /\ row' = [row EXCEPT ![q.task] = ConsensusRow(@, q)]
    /\ outbox' = outbox \cup ConsensusEvents(q)
    /\ Finish(w)
    /\ UNCHANGED <<clock, evaluated, correct>>

(* Counting the correct submissions only.                                  *)
BumpOnlyWhenRight(count, q, isCorrect) ==
    IF isCorrect THEN [count EXCEPT ![q.user] = @ + 1] ELSE count

(* gold_evaluated_count += 1 under SELECT FOR UPDATE of the calibration.   *)
BumpEvaluated(count, q, isCorrect) == [count EXCEPT ![q.user] = @ + 1]

(* evaluate_gold_annotation: the task returns to the pool, blind.          *)
AnnotateGoldCommit(w) ==
    LET q == req[w]
        isCorrect == <<q.user, GoldChoice>> \in q.ballots IN
    /\ q.op = "vote" /\ q.task \in Gold
    /\ annotations' = [annotations EXCEPT ![q.task] = @ \cup q.ballots]
    /\ row' = [row EXCEPT ![q.task] = [Released(@) EXCEPT !.status = "pending"]]
    /\ evaluated' = BumpEvaluated(evaluated, q, isCorrect)
    /\ correct' = IF isCorrect THEN [correct EXCEPT ![q.user] = @ + 1] ELSE correct
    /\ outbox' = outbox \cup {Announce("annotator.calibrated", q.task, Undecided, "gold")}
    /\ Finish(w)
    /\ UNCHANGED clock

-------------------------------------------------------------------------------
(* Adjudication, triage, edits, translation, deletion                      *)

(* The columns an adjudication writes do not depend on its copy.           *)
AdjudicateRead(w) == \E t \in Tasks : row[t].active /\ Begin(w, "adjudicate", t, Idle)

TriageRead(w) ==
    \E t \in Tasks : row[t].active /\ Begin(w, "triage", t, [Idle EXCEPT !.snap = row[t]])

UpdateRead(w) ==
    \E t \in Tasks : row[t].active /\ Begin(w, "update", t, [Idle EXCEPT !.snap = row[t]])

(* The Celery task also finds soft-deleted tasks.                          *)
TranslateRead(w) == \E t \in Tasks : Begin(w, "translate", t, [Idle EXCEPT !.snap = row[t]])

(* No split vote is asked for; the events commit with the decision.        *)
AdjudicateCommit(w) ==
    LET t == req[w].task IN
    /\ req[w].op = "adjudicate"
    /\ \E choice \in Votes :
         /\ row' = [row EXCEPT ![t] = [Released(@) EXCEPT !.choice = choice,
                                                          !.status = "completed"]]
         /\ outbox' = outbox \cup {Announce(type, t, choice, "adjudicator") :
                                     type \in {"task.consensus_reached", "task.completed"}}
    /\ Finish(w)
    /\ UNCHANGED <<clock, annotations, evaluated, correct>>

(* The judge's verdict arrives after the LLM call; only the columns that   *)
(* change in the copy are saved, so the lease and the status are safe.     *)
TriageCommit(w) ==
    LET t == req[w].task IN
    /\ req[w].op = "triage"
    /\ \E escalate \in BOOLEAN :
         /\ escalate => t \notin Gold
         /\ row' = [row EXCEPT ![t].escalated =
                        IF escalate /\ ~req[w].snap.escalated THEN TRUE ELSE @]
         /\ outbox' = IF escalate
                      THEN outbox \cup {Announce("task.uncertainty_escalated", t,
                                                 Undecided, "judge")}
                      ELSE outbox
    /\ Finish(w)
    /\ UNCHANGED <<clock, annotations, evaluated, correct>>

(* An editor that publishes nothing.                                       *)
NoUpdateEvents(q, status) == {}

(* The status published in the place of the choice.                        *)
UpdateEventsSwapped(q, status) ==
    IF q.snap.status # "completed" /\ status = "completed"
    THEN {Announce("task.completed", q.task, status, "editor")}
    ELSE {}

(* perform_update compares with the status of the copy it read.            *)
UpdateEvents(q, status) ==
    IF q.snap.status # "completed" /\ status = "completed"
    THEN {Announce("task.completed", q.task, Undecided, "editor")}
    ELSE {}

(* PATCH and PUT: instance.save() without update_fields writes every       *)
(* column of the copy back, the lease and the decision included, also when *)
(* the body names neither the status nor is_active.                        *)
UpdateCommit(w) ==
    LET q == req[w] IN
    /\ q.op = "update"
    /\ \E edit \in Edits \cup {<<q.snap.status, q.snap.active>>} :
         /\ row' = [row EXCEPT ![q.task] = [q.snap EXCEPT !.status = edit[1],
                                                          !.active = edit[2]]]
         /\ outbox' = outbox \cup UpdateEvents(q, edit[1])
    /\ Finish(w)
    /\ UNCHANGED <<clock, annotations, evaluated, correct>>

(* generate_task_translations: task.save() of the copy read before the     *)
(* LLM call.                                                               *)
TranslateCommit(w) ==
    LET t == req[w].task IN
    /\ req[w].op = "translate"
    /\ row' = [row EXCEPT ![t] = req[w].snap]
    /\ outbox' = outbox \cup {Announce("task.translated", t, Undecided, "translator")}
    /\ Finish(w)
    /\ UNCHANGED <<clock, annotations, evaluated, correct>>

(* Soft deletion and restoration write is_active alone.                    *)
Destroy(t) ==
    /\ "delete" \in Operations
    /\ row[t].active
    /\ row' = [row EXCEPT ![t].active = FALSE]
    /\ UNCHANGED <<clock, annotations, evaluated, correct, outbox, req>>

Restore(t) ==
    /\ "delete" \in Operations
    /\ ~row[t].active
    /\ row' = [row EXCEPT ![t].active = TRUE]
    /\ UNCHANGED <<clock, annotations, evaluated, correct, outbox, req>>

Next ==
    \/ Tick
    \/ \E t \in Tasks : Destroy(t) \/ Restore(t)
    \/ \E w \in Workers :
         \/ ClaimSelect(w) \/ ClaimLock(w) \/ ClaimNothing(w)
         \/ AnnotateRead(w) \/ AnnotateInsert(w) \/ AnnotateConflict(w)
         \/ AnnotateCommit(w) \/ AnnotateGoldCommit(w)
         \/ AdjudicateRead(w) \/ AdjudicateCommit(w)
         \/ TriageRead(w) \/ TriageCommit(w)
         \/ UpdateRead(w) \/ UpdateCommit(w)
         \/ TranslateRead(w) \/ TranslateCommit(w)
         \/ Abandon(w)

Spec == Init /\ [][Next]_vars

-------------------------------------------------------------------------------
(* Properties                                                              *)

(* A request in flight names its task, and its annotator where one acts.   *)
Addressed(q) ==
    /\ q.op # "idle" => q.task \in Tasks
    /\ q.op \in {"claim", "annotate", "vote"} => q.user \in Users

TypeOK ==
    /\ clock \in Nat
    /\ row \in [Tasks -> Row]
    /\ annotations \in [Tasks -> SUBSET Ballots]
    /\ evaluated \in [Users -> Nat]
    /\ correct \in [Users -> Nat]
    /\ outbox \subseteq Event
    /\ req \in [Workers -> Request]
    /\ \A w \in Workers : Addressed(req[w])

(* choice was won by a quorum of ballots among those given.                *)
WonBy(choice, ballots) ==
    \E quorum \in SUBSET ballots, weight \in [Users -> CalibratedWeights \cup {NeutralWeight}] :
        /\ Cardinality(quorum) >= Required
        /\ Wins(choice, quorum, weight)

Announced(t, type, choice, by) == Announce(type, t, choice, by) \in outbox

Adjudicated(t, choice) == Announced(t, "task.completed", choice, "adjudicator")

(* A stored decision was given by an adjudicator or won by a quorum of the *)
(* committed annotations; so was every decision published, whatever stale  *)
(* copies, rollbacks and full-row saves happen in between                  *)
(* (evaluate_task_consensus, adjudicate, perform_update).                  *)
DecisionsAreSupported ==
    \A t \in Tasks :
        /\ row[t].choice # Undecided =>
             Adjudicated(t, row[t].choice) \/ WonBy(row[t].choice, annotations[t])
        /\ \A e \in outbox :
             e.task = t /\ e.by = "consensus" /\ e.choice # Undecided =>
                WonBy(e.choice, annotations[t])

(* The transactional outbox loses nothing: a decision, a completion and an *)
(* escalation that a row shows was published in the transaction that made  *)
(* it, also when the row shows it because a stale copy was written back.   *)
TransitionsAreAnnounced ==
    \A t \in Tasks :
        /\ row[t].choice # Undecided =>
             \E by \in {"consensus", "adjudicator"} :
                /\ Announced(t, "task.consensus_reached", row[t].choice, by)
                /\ Announced(t, "task.completed", row[t].choice, by)
        /\ row[t].status = "completed" =>
             \E e \in outbox : e.task = t /\ e.type = "task.completed"
        /\ row[t].escalated =>
             \E e \in outbox : e.task = t /\ e.type = "task.uncertainty_escalated"

(* A double submission leaves one annotation (unique_together of           *)
(* TaskAnnotation), also when both requests passed the 409 check.          *)
OneBallotPerAnnotator ==
    \A t \in Tasks : \A a, b \in annotations[t] : a[1] = b[1] => a = b

(* The calibration counters agree with the gold annotations stored: no     *)
(* increment is lost or repeated when gold submissions of one annotator    *)
(* overlap, roll back or are submitted twice (evaluate_gold_annotation).   *)
CalibrationCountsGoldBallots ==
    \A u \in Users :
        /\ evaluated[u] = Cardinality({t \in Gold : u \in Voters(annotations[t])})
        /\ correct[u] = Cardinality({t \in Gold : <<u, GoldChoice>> \in annotations[t]})

(* While nobody saves whole rows, a lease that is still running can be     *)
(* given up but never passes from one annotator to another: two claims of  *)
(* one task do not both succeed (claim's second look under SKIP LOCKED).   *)
LiveLeaseIsNotTransferred ==
    [][\A t \in Tasks :
         Leased(row[t], clock) => row'[t].holder \in {row[t].holder, NoOne}]_vars

(* README: adjudication resolves a split vote and finalizes the gold       *)
(* consensus_choice; once an adjudicator has decided on a full set of      *)
(* annotations, the task does not fall back to undecided.                  *)
AdjudicationIsFinal ==
    [][\A t \in Tasks :
         /\ Cardinality(annotations[t]) >= Required
         /\ row[t].choice # Undecided
         /\ Adjudicated(t, row[t].choice)
         => row'[t].choice # Undecided]_vars

(* CHANGELOG: IAA completes a task automatically.  A task with a unanimous *)
(* quorum and no request in flight is decided.                             *)
UnanimousQuorumIsDecided ==
    \A t \in Tasks \ Gold :
        /\ \A w \in Workers : req[w].task # t
        /\ Cardinality(annotations[t]) >= Required
        /\ Cardinality({b[2] : b \in annotations[t]}) = 1
        => row[t].choice # Undecided

(* A test of the RLHF suite: while a task is leased to one annotator       *)
(* nobody else can submit an annotation to it.                             *)
LeaseExcludesOtherAnnotators ==
    [][\A t \in Tasks :
         Leased(row[t], clock)
            => Voters(annotations'[t]) \ Voters(annotations[t]) \subseteq {row[t].holder}]_vars
=============================================================================
