--------------------------- MODULE AIRequests_proofs ---------------------------
(***************************************************************************)
(* Proofs about AIRequests, and the middleware of Idempotency around it,   *)
(* for any number of server threads, keys, costs and faults: what a lock   *)
(* and a record promise to a client who retries, by how much a budget is   *)
(* exceeded, and which alerts are raised.                                  *)
(***************************************************************************)
EXTENDS AIRequests, FiniteSetTheorems, WellFoundedInduction, TLAPS

-------------------------------------------------------------------------------
(* Types                                                                   *)

RecordingSteps == {"recording", "summing", "counting", "alerting", "committing"}

Steps == {"idle", "arrived", "looked", "handling", "checking", "seeding", "calling", "parsing",
          "answered", "release"} \cup RecordingSteps

Job == [at : Steps, key : Keys \cup {NoKey}, body : Payloads \cup {NoPayload}, ok : BOOLEAN,
        sum : Nat, cost : Nat, alerts : SUBSET Kinds]

(* What a request has at each step of its way.                             *)
Fits(j) ==
    /\ j \in Job
    /\ j.at # "idle" => j.body \in Payloads
    /\ j.at \in {"arrived", "looked", "release"} => j.key \in Keys
    /\ j.at \in RecordingSteps => j.cost \in Costs

JobsFit == job \in [Workers -> Job] /\ \A w \in Workers : Fits(job[w])

(* The types of the caches, the ledger and the requests.                   *)
TypeOK ==
    /\ record \in [Keys -> Payloads \cup {NoPayload}]
    /\ lock \in [Keys -> Workers \cup {NoOne}]
    /\ JobsFit
    /\ executed \in [Keys -> Nat]
    /\ ledger \in Nat
    /\ counter \in Nat \cup {Cold}
    /\ raised \subseteq Kinds
    /\ alerts \in [Kinds -> Nat]
    /\ results \subseteq Payloads
    /\ evictions \in Nat /\ rollbacks \in Nat

(* A worker without a request is well typed.                               *)
LEMMA IdleFits == Fits(IdleJob) /\ IdleJob.at = "idle" /\ IdleJob.key = NoKey
  BY DEF Fits, IdleJob, Job, Steps, RecordingSteps, Kinds

LEMMA InitTypes == Init => TypeOK
  <1> SUFFICES ASSUME Init PROVE TypeOK
    OBVIOUS
  <1>1. JobsFit
    BY IdleFits DEF Init, InitMiddleware, JobsFit, Fits
  <1> QED BY <1>1 DEF Init, InitMiddleware, TypeOK

(* A step of one worker.                                                   *)
LEMMA MoveFits ==
  ASSUME TypeOK, NEW w \in Workers, NEW j, Fits(j), job' = [job EXCEPT ![w] = j]
  PROVE  JobsFit'
  <1>1. job' \in [Workers -> Job]
    BY DEF TypeOK, JobsFit, Fits
  <1>2. ASSUME NEW v \in Workers PROVE Fits(job[v])'
    BY DEF TypeOK, JobsFit, Fits
  <1> QED BY <1>1, <1>2 DEF JobsFit

(* To another step, with nothing but the step changed.                     *)
LEMMA GoFits ==
  ASSUME TypeOK, NEW w \in Workers, NEW step \in Steps \ {"release", "arrived", "looked"},
         job[w].at # "idle", step \in RecordingSteps => job[w].cost \in Costs,
         Go(w, step)
  PROVE  JobsFit'
  <1>1. Fits(job[w])
    BY DEF TypeOK, JobsFit
  <1>2. Fits([job[w] EXCEPT !.at = step])
    BY <1>1 DEF Fits, Job
  <1>3. job' = [job EXCEPT ![w] = [job[w] EXCEPT !.at = step]]
    BY DEF Go
  <1> QED BY <1>2, <1>3, MoveFits

(* To another step, with only the request.                                 *)
LEMMA ResumeFits ==
  ASSUME TypeOK, NEW w \in Workers, NEW ok \in BOOLEAN,
         NEW step \in {"calling", "parsing", "answered"},
         job[w].at # "idle", Resume(w, step, ok)
  PROVE  /\ JobsFit'
         /\ job'[w].at = step /\ job'[w].key = job[w].key /\ job'[w].ok = ok
         /\ job'[w].alerts = {}
  <1> DEFINE j == [IdleJob EXCEPT !.at = step, !.key = job[w].key, !.body = job[w].body, !.ok = ok]
  <1>1. job[w].key \in Keys \cup {NoKey} /\ job[w].body \in Payloads
    BY DEF TypeOK, JobsFit, Fits, Job
  <1>2. /\ j.at = step /\ j.key = job[w].key /\ j.body = job[w].body /\ j.ok = ok
        /\ j.alerts = {} /\ j \in Job
    BY <1>1 DEF IdleJob, Job, Steps
  <1>3. job' = [job EXCEPT ![w] = j]
    BY DEF Resume
  <1> HIDE DEF j
  <1>4. Fits(j)
    BY <1>1, <1>2 DEF Fits, RecordingSteps
  <1>5. JobsFit'
    BY <1>3, <1>4, MoveFits
  <1>6. job'[w] = j
    BY <1>3 DEF TypeOK, JobsFit
  <1> QED BY <1>2, <1>5, <1>6

LEMMA LeaveFits ==
  ASSUME TypeOK, NEW w \in Workers, Leave(w)
  PROVE  JobsFit'
  BY IdleFits, MoveFits DEF Leave

LEMMA MiddlewareTypes ==
  ASSUME TypeOK, NEW w \in Workers, Middleware(w), UNCHANGED <<money, results, faults>>
  PROVE  TypeOK'
  <1>1. Fits(job[w])
    BY DEF TypeOK, JobsFit
  <1>2. JobsFit'
    <2>1. CASE Arrive(w)
      <3>1. PICK k \in Keys \cup {NoKey}, p \in Payloads :
              job' = [job EXCEPT ![w] =
                [IdleJob EXCEPT !.at = IF k = NoKey THEN "handling" ELSE "arrived",
                                !.key = k, !.body = p]]
        BY <2>1 DEF Arrive
      <3>2. Fits([IdleJob EXCEPT !.at = IF k = NoKey THEN "handling" ELSE "arrived",
                                 !.key = k, !.body = p])
        BY IdleFits DEF Fits, Job, Steps, RecordingSteps
      <3> QED BY <3>1, <3>2, MoveFits
    <2>2. CASE Miss(w)
      <3>1. Fits([job[w] EXCEPT !.at = "looked"])
        BY <1>1, <2>2 DEF Miss, At, Fits, Job, Steps, RecordingSteps
      <3> QED BY <2>2, <3>1, MoveFits DEF Miss, Go
    <2>3. CASE Replay(w) \/ Conflict(w) \/ Release(w)
      BY <2>3, LeaveFits DEF Replay, Conflict, Release
    <2>4. CASE Acquire(w)
      BY <2>4, GoFits DEF Acquire, At, Steps, RecordingSteps
    <2>5. CASE Respond(w)
      <3>1. CASE job[w].key = NoKey
        BY <2>5, <3>1, LeaveFits DEF Respond
      <3>2. CASE job[w].key # NoKey
        <4>1. Fits([job[w] EXCEPT !.at = "release"])
          BY <1>1, <2>5, <3>2 DEF Respond, At, Fits, Job, Steps, RecordingSteps
        <4> QED BY <2>5, <3>2, <4>1, MoveFits DEF Respond, Go
      <3> QED BY <3>1, <3>2
    <2> QED BY <2>1, <2>2, <2>3, <2>4, <2>5 DEF Middleware
  <1>3. record' \in [Keys -> Payloads \cup {NoPayload}] /\ executed' \in [Keys -> Nat]
    <2>1. CASE Respond(w)
      BY <1>1, <2>1 DEF Respond, At, Fits, TypeOK
    <2>2. CASE ~Respond(w)
      BY <2>2 DEF Middleware, Arrive, Miss, Replay, Acquire, Conflict, Release, TypeOK
    <2> QED BY <2>1, <2>2
  <1>4. lock' \in [Keys -> Workers \cup {NoOne}]
    BY DEF Middleware, Arrive, Miss, Replay, Acquire, Conflict, Respond, Release, TypeOK
  <1> QED BY <1>2, <1>3, <1>4 DEF TypeOK, money, faults

(* A summed counter is a number.                                           *)
LEMMA HandlerJobsFit ==
  ASSUME TypeOK, NEW w \in Workers, Handler(w)
  PROVE  JobsFit'
  <1>1. Fits(job[w]) /\ counter \in Nat \cup {Cold} /\ ledger \in Nat /\ Costs \subseteq Nat
    BY AIAssumption DEF TypeOK, JobsFit
  <1>2. CASE AskCache(w)
    <2>1. CASE job[w].body \in results
      BY <1>2, <2>1, ResumeFits DEF AskCache, At, Answer
    <2>2. CASE job[w].body \notin results
      BY <1>2, <2>2, GoFits DEF AskCache, At, Steps, RecordingSteps
    <2> QED BY <2>1, <2>2
  <1>3. ASSUME At(w, "checking") \/ At(w, "seeding"), NEW sum, Decide(w, sum)
        PROVE  JobsFit'
    BY <1>3, ResumeFits DEF Decide, Answer, At
  <1>4. CASE Check(w)
    <2>1. CASE counter # Cold
      BY <1>3, <1>4, <2>1 DEF Check
    <2>2. CASE counter = Cold
      <3>1. Fits([job[w] EXCEPT !.at = "seeding", !.sum = ledger])
        BY <1>1, <1>4 DEF Check, At, Fits, Job, Steps, RecordingSteps
      <3> QED BY <1>4, <2>2, <3>1, MoveFits DEF Check
    <2> QED BY <2>1, <2>2
  <1>5. CASE Seed(w)
    BY <1>3, <1>5 DEF Seed
  <1>6. CASE Fail(w)
    BY <1>6, ResumeFits DEF Fail, At, Answer
  <1>7. CASE Call(w)
    <2>1. ASSUME NEW cost \in Costs,
                 job' = [job EXCEPT ![w] = [@ EXCEPT !.at = "recording", !.cost = cost]]
          PROVE  JobsFit'
      <3>1. Fits([job[w] EXCEPT !.at = "recording", !.cost = cost])
        BY <1>1, <1>7 DEF Call, At, Fits, Job, Steps, RecordingSteps
      <3> QED BY <2>1, <3>1, MoveFits
    <2>2. CASE Resume(w, "parsing", FALSE)
      BY <1>7, <2>2, ResumeFits DEF Call, At
    <2> QED BY <1>7, <2>1, <2>2 DEF Call
  <1>8. CASE ReadCounter(w)
    <2>1. Fits([job[w] EXCEPT !.at = "counting"])
      BY <1>1, <1>8 DEF ReadCounter, At, Fits, Job, Steps, RecordingSteps
    <2>2. Fits([job[w] EXCEPT !.at = "summing", !.sum = ledger + job[w].cost])
      <3>1. job[w].cost \in Nat /\ ledger + job[w].cost \in Nat
        BY <1>1, <1>8 DEF ReadCounter, At, Fits, RecordingSteps
      <3> QED BY <1>1, <1>8, <3>1 DEF ReadCounter, At, Fits, Job, Steps, RecordingSteps
    <2>3. \/ job' = [job EXCEPT ![w] = [job[w] EXCEPT !.at = "counting"]]
          \/ job' = [job EXCEPT ![w] = [job[w] EXCEPT !.at = "summing",
                                                      !.sum = ledger + job[w].cost]]
      BY <1>8 DEF ReadCounter
    <2> QED BY <2>1, <2>2, <2>3, MoveFits
  <1>9. CASE SetCounter(w)
    <2>1. job[w].at # "idle" /\ job[w].cost \in Costs
      BY <1>1, <1>9 DEF SetCounter, At, Fits, RecordingSteps
    <2> QED BY <1>9, <2>1, GoFits DEF SetCounter, Steps, RecordingSteps
  <1>10. CASE Increment(w)
    <2>1. Fits([job[w] EXCEPT !.at = "alerting", !.sum = Counted(w)])
      <3>1. job[w].cost \in Nat /\ Counted(w) \in Nat
        BY <1>1, <1>10 DEF Increment, Counted, At, Fits, RecordingSteps
      <3> QED BY <1>1, <1>10, <3>1 DEF Increment, At, Fits, Job, Steps, RecordingSteps
    <2> QED BY <1>10, <2>1, MoveFits DEF Increment
  <1>11. CASE TakeAlerts(w)
    <2>1. Fits([job[w] EXCEPT !.at = "committing", !.alerts = Reached(w)])
      BY <1>1, <1>11 DEF TakeAlerts, Reached, At, Fits, Job, Steps, RecordingSteps
    <2> QED BY <1>11, <2>1, MoveFits DEF TakeAlerts
  <1>12. CASE Commit(w)
    BY <1>12, ResumeFits DEF Commit, At
  <1>13. CASE RollBack(w)
    BY <1>13, ResumeFits, LeaveFits DEF RollBack, Recording
  <1>14. CASE Parse(w)
    BY <1>14, ResumeFits DEF Parse, At, Answer
  <1> QED BY <1>2, <1>4, <1>5, <1>6, <1>7, <1>8, <1>9, <1>10, <1>11, <1>12, <1>13, <1>14
          DEF Handler

LEMMA HandlerTypes ==
  ASSUME TypeOK, NEW w \in Workers, Handler(w)
  PROVE  TypeOK'
  <1>1. Fits(job[w]) /\ Costs \subseteq Nat
    BY AIAssumption DEF TypeOK, JobsFit
  <1>2. JobsFit'
    BY HandlerJobsFit
  <1>3. UNCHANGED middleware
    BY DEF Handler, AskCache, Check, Seed, Fail, Call, ReadCounter, SetCounter, Increment,
           TakeAlerts, Commit, RollBack, Parse
  <1>4. /\ ledger' \in Nat /\ counter' \in Nat \cup {Cold} /\ raised' \subseteq Kinds
        /\ alerts' \in [Kinds -> Nat] /\ results' \subseteq Payloads
        /\ evictions' \in Nat /\ rollbacks' \in Nat
    <2>1. CASE AskCache(w) \/ Check(w) \/ Fail(w) \/ Call(w) \/ ReadCounter(w)
      BY <2>1 DEF AskCache, Check, Fail, Call, ReadCounter, TypeOK, money, faults
    <2>2. CASE Seed(w) \/ SetCounter(w) \/ Increment(w)
      BY <1>1, <2>2 DEF Seed, Seeded, SetCounter, Increment, Counted, At, Fits, Job,
                        RecordingSteps, TypeOK, faults
    <2>3. CASE TakeAlerts(w)
      BY <2>3 DEF TakeAlerts, Reached, TypeOK, faults
    <2>4. CASE Commit(w)
      BY <1>1, <2>4 DEF Commit, At, Fits, Job, RecordingSteps, TypeOK, faults
    <2>5. CASE RollBack(w)
      BY <2>5 DEF RollBack, TypeOK, money
    <2>6. CASE Parse(w)
      BY <1>1, <2>6 DEF Parse, At, Fits, TypeOK, money, faults
    <2> QED BY <2>1, <2>2, <2>3, <2>4, <2>5, <2>6 DEF Handler
  <1> QED BY <1>2, <1>3, <1>4 DEF TypeOK, middleware

LEMMA StepTypes == TypeOK /\ [Next]_vars => TypeOK'
  <1> SUFFICES ASSUME TypeOK, [Next]_vars PROVE TypeOK'
    OBVIOUS
  <1>1. ASSUME NEW k \in Keys, Expire(k), UNCHANGED <<money, results, faults>> PROVE TypeOK'
    BY <1>1 DEF Expire, TypeOK, JobsFit, money, faults
  <1>2. ASSUME NEW w \in Workers, Die(w), UNCHANGED <<money, results, faults>> PROVE TypeOK'
    <2>1. JobsFit'
      BY <1>2, LeaveFits DEF Die
    <2> QED BY <1>2, <2>1 DEF Die, TypeOK, money, faults
  <1>3. CASE Evict
    BY <1>3 DEF Evict, TypeOK, JobsFit, middleware
  <1>4. CASE UNCHANGED vars
    BY <1>4 DEF vars, TypeOK, JobsFit
  <1> QED BY <1>1, <1>2, <1>3, <1>4, MiddlewareTypes, HandlerTypes DEF Next

(* The caches, the ledger and every request have the types their code      *)
(* gives them at each step.                                                *)
THEOREM AITypeCorrect == Spec => []TypeOK
  BY InitTypes, StepTypes, PTL DEF Spec

-------------------------------------------------------------------------------
(* Locks and records                                                       *)

HandlerSteps == {"handling", "checking", "seeding", "calling", "parsing"} \cup RecordingSteps

(* The handler moves its own request, and from step to step of its own.    *)
HandlerMoves(w) ==
    /\ job[w].at \in HandlerSteps
    /\ \A v \in Workers \ {w} : job'[v] = job[v]
    /\ \/ job'[w].at = "idle"
       \/ job'[w].at \in HandlerSteps \cup {"answered"} /\ job'[w].key = job[w].key
    /\ UNCHANGED middleware

LEMMA HandlerMovesItsOwn ==
  ASSUME TypeOK, NEW w \in Workers, Handler(w)
  PROVE  HandlerMoves(w)
  <1>1. job \in [Workers -> Job] /\ Fits(job[w])
    BY DEF TypeOK, JobsFit
  <1>2. job[w].at \in HandlerSteps /\ job[w].at # "idle"
    BY DEF Handler, AskCache, Check, Seed, Fail, Call, ReadCounter, SetCounter, Increment,
           TakeAlerts, Commit, RollBack, Parse, Recording, At, HandlerSteps, RecordingSteps
  <1>3. UNCHANGED middleware
    BY DEF Handler, AskCache, Check, Seed, Fail, Call, ReadCounter, SetCounter, Increment,
           TakeAlerts, Commit, RollBack, Parse
  <1>4. \A v \in Workers \ {w} : job'[v] = job[v]
    <2>1. \E j : job' = [job EXCEPT ![w] = j]
      BY DEF Handler, AskCache, Check, Seed, Fail, Call, ReadCounter, SetCounter, Increment,
             TakeAlerts, Commit, RollBack, Parse, Decide, Answer, Resume, Leave, Go
    <2> QED BY <1>1, <2>1
  <1>5. ASSUME NEW ok \in BOOLEAN, NEW step \in {"calling", "parsing", "answered"},
               Resume(w, step, ok)
        PROVE  job'[w].at \in HandlerSteps \cup {"answered"} /\ job'[w].key = job[w].key
    BY <1>2, <1>5, ResumeFits DEF HandlerSteps
  <1>6. ASSUME NEW step \in HandlerSteps, Go(w, step)
        PROVE  job'[w].at \in HandlerSteps \cup {"answered"} /\ job'[w].key = job[w].key
    BY <1>1, <1>6 DEF Go, Job
  <1>7. ASSUME Leave(w) PROVE job'[w].at = "idle"
    BY <1>1, <1>7, IdleFits DEF Leave
  <1>8. ASSUME NEW sum, Decide(w, sum)
        PROVE  job'[w].at \in HandlerSteps \cup {"answered"} /\ job'[w].key = job[w].key
    BY <1>5, <1>8 DEF Decide, Answer
  <1>9. \/ job'[w].at = "idle"
        \/ job'[w].at \in HandlerSteps \cup {"answered"} /\ job'[w].key = job[w].key
    <2>1. CASE AskCache(w)
      BY <1>5, <1>6, <2>1 DEF AskCache, Answer, HandlerSteps
    <2>2. CASE Check(w)
      BY <1>1, <1>8, <2>2 DEF Check, HandlerSteps, Job
    <2>3. CASE Seed(w)
      BY <1>8, <2>3 DEF Seed
    <2>4. CASE Fail(w)
      BY <1>5, <2>4 DEF Fail, Answer
    <2>5. CASE Call(w)
      BY <1>1, <1>5, <2>5 DEF Call, HandlerSteps, RecordingSteps, Job
    <2>6. CASE ReadCounter(w)
      BY <1>1, <2>6 DEF ReadCounter, HandlerSteps, RecordingSteps, Job
    <2>7. CASE SetCounter(w)
      BY <1>6, <2>7 DEF SetCounter, HandlerSteps, RecordingSteps
    <2>8. CASE Increment(w) \/ TakeAlerts(w)
      BY <1>1, <2>8 DEF Increment, TakeAlerts, HandlerSteps, RecordingSteps, Job
    <2>9. CASE Commit(w)
      BY <1>5, <2>9 DEF Commit
    <2>10. CASE RollBack(w)
      BY <1>5, <1>7, <2>10 DEF RollBack
    <2>11. CASE Parse(w)
      BY <1>5, <2>11 DEF Parse, Answer
    <2> QED BY <2>1, <2>2, <2>3, <2>4, <2>5, <2>6, <2>7, <2>8, <2>9, <2>10, <2>11 DEF Handler
  <1> QED BY <1>2, <1>3, <1>4, <1>9 DEF HandlerMoves

(* A request that is being served under a key holds the lock of that key.  *)
Exclusive == \A w \in Workers : Serving(w) /\ job[w].key # NoKey => lock[job[w].key] = w

LEMMA ExclusiveStep ==
  ASSUME ~Slow, TypeOK, Exclusive, [Next]_vars
  PROVE  Exclusive'
  <1>1. /\ job \in [Workers -> Job] /\ \A w \in Workers : Fits(job[w])
        /\ lock \in [Keys -> Workers \cup {NoOne}] /\ NoKey \notin Keys /\ NoOne \notin Workers
    BY IdempotencyAssumption DEF TypeOK, JobsFit
  <1>2. \A v \in Workers : job[v].key \in Keys \cup {NoKey}
    BY <1>1 DEF Job
  <1>3. ASSUME NEW w \in Workers, \A v \in Workers \ {w} : job'[v] = job[v], UNCHANGED lock,
               Serving(w)' => \/ job'[w].key = NoKey
                              \/ Serving(w) /\ job'[w].key = job[w].key
        PROVE  Exclusive'
    BY <1>3 DEF Exclusive, Serving
  <1>4. ASSUME NEW w \in Workers, Handler(w) PROVE Exclusive'
    <2>1. HandlerMoves(w)
      BY <1>4, HandlerMovesItsOwn
    <2>2. Serving(w)
      BY <2>1 DEF HandlerMoves, HandlerSteps, RecordingSteps, Serving
    <2> QED BY <1>3, <2>1, <2>2 DEF HandlerMoves, middleware, Serving
  <1>5. ASSUME NEW w \in Workers, Leave(w), UNCHANGED lock PROVE Exclusive'
    BY <1>1, <1>3, <1>5, IdleFits DEF Leave, Serving
  <1>6. ASSUME NEW w \in Workers, Middleware(w) PROVE Exclusive'
    <2>1. CASE Arrive(w)
      <3>1. PICK k \in Keys \cup {NoKey}, p \in Payloads :
              job' = [job EXCEPT ![w] =
                [IdleJob EXCEPT !.at = IF k = NoKey THEN "handling" ELSE "arrived",
                                !.key = k, !.body = p]]
        BY <2>1 DEF Arrive
      <3>2. job'[w].at = (IF k = NoKey THEN "handling" ELSE "arrived") /\ job'[w].key = k
        BY <1>1, <3>1 DEF IdleJob
      <3>3. Serving(w)' => job'[w].key = NoKey
        BY <3>2 DEF Serving
      <3>4. \A v \in Workers \ {w} : job'[v] = job[v]
        BY <1>1, <3>1
      <3>5. UNCHANGED lock
        BY <2>1 DEF Arrive
      <3> QED BY <1>3, <3>3, <3>4, <3>5
    <2>2. CASE Miss(w)
      <3>1. job'[w].at = "looked"
        BY <1>1, <2>2 DEF Miss, Go, Job
      <3> QED BY <1>1, <1>3, <2>2, <3>1 DEF Miss, Go, Serving
    <2>3. CASE Replay(w) \/ Conflict(w)
      BY <1>5, <2>3 DEF Replay, Conflict
    <2>4. CASE Acquire(w)
      <3>1. job[w].key \in Keys /\ job'[w].key = job[w].key
            /\ \A v \in Workers \ {w} : job'[v] = job[v]
        BY <1>1, <2>4 DEF Acquire, At, Go, Fits, Job
      <3>2. lock[job[w].key] = NoOne /\ lock' = [lock EXCEPT ![job[w].key] = w]
        BY <2>4 DEF Acquire, Free
      <3>3. ASSUME NEW v \in Workers, Serving(v)', job'[v].key # NoKey
            PROVE  lock'[job'[v].key] = v
        <4>1. CASE v = w
          BY <1>1, <3>1, <3>2, <4>1
        <4>2. CASE v # w
          <5>1. Serving(v) /\ job'[v].key = job[v].key
            BY <3>1, <3>3, <4>2 DEF Serving
          <5>2. lock[job[v].key] = v /\ job[v].key \in Keys
            BY <1>2, <3>3, <5>1 DEF Exclusive
          <5> QED BY <1>1, <3>1, <3>2, <5>1, <5>2
        <4> QED BY <4>1, <4>2
      <3> QED BY <3>3 DEF Exclusive
    <2>5. CASE Respond(w)
      <3>1. CASE job[w].key = NoKey
        BY <1>5, <2>5, <3>1 DEF Respond
      <3>2. CASE job[w].key # NoKey
        <4>1. job'[w].key = job[w].key /\ \A v \in Workers \ {w} : job'[v] = job[v]
          BY <1>1, <2>5, <3>2 DEF Respond, Go, Job
        <4>2. Serving(w)
          BY <2>5 DEF Respond, At, Serving
        <4> QED BY <1>3, <2>5, <4>1, <4>2 DEF Respond
      <3> QED BY <3>1, <3>2
    <2>6. CASE Release(w)
      <3>1. job[w].key \in Keys /\ Serving(w)
        BY <1>1, <2>6 DEF Release, At, Fits, Serving
      <3>2. lock[job[w].key] = w
        BY <1>1, <3>1 DEF Exclusive
      <3>3. job'[w].at = "idle" /\ \A v \in Workers \ {w} : job'[v] = job[v]
        BY <1>1, <2>6, IdleFits DEF Release, Leave
      <3>4. ASSUME NEW v \in Workers, Serving(v)', job'[v].key # NoKey
            PROVE  lock'[job'[v].key] = v
        <4>1. v # w /\ Serving(v) /\ job'[v].key = job[v].key
          BY <3>3, <3>4 DEF Serving
        <4>2. lock[job[v].key] = v /\ job[v].key \in Keys
          BY <1>2, <3>4, <4>1 DEF Exclusive
        <4> QED BY <1>1, <2>6, <3>1, <3>2, <4>1, <4>2 DEF Release
      <3> QED BY <3>4 DEF Exclusive
    <2> QED BY <1>6, <2>1, <2>2, <2>3, <2>4, <2>5, <2>6 DEF Middleware
  <1>7. ASSUME NEW k \in Keys, Expire(k) PROVE Exclusive'
    <2>1. ASSUME NEW v \in Workers, Serving(v), job[v].key # NoKey
          PROVE  lock'[job[v].key] = v
      <3>1. lock[job[v].key] = v /\ job[v].key \in Keys
        BY <1>2, <2>1 DEF Exclusive
      <3> QED BY <1>1, <1>7, <2>1, <3>1 DEF Expire
    <2> QED BY <1>7, <2>1 DEF Expire, Exclusive, Serving
  <1>8. ASSUME NEW w \in Workers, Die(w) PROVE Exclusive'
    BY <1>5, <1>8 DEF Die
  <1>9. CASE Evict \/ UNCHANGED vars
    BY <1>9 DEF Evict, vars, middleware, Exclusive, Serving
  <1> QED BY <1>4, <1>6, <1>7, <1>8, <1>9 DEF Next

(* No two requests with one key are handled at a time, as long as no       *)
(* handler outlives its lock: the lock is taken by cache.add, it is held   *)
(* from there to the response, and only its holder deletes it.             *)
THEOREM NoConcurrentDuplicates ==
  ASSUME ~Slow
  PROVE  Spec => []InFlightOnce
  <1>1. Init => Exclusive
    BY DEF Init, InitMiddleware, IdleJob, Exclusive, Serving
  <1>2. TypeOK /\ Exclusive /\ [Next]_vars => Exclusive'
    BY ExclusiveStep
  <1>3. TypeOK /\ Exclusive => InFlightOnce
    BY DEF Exclusive, InFlightOnce, TypeOK, JobsFit, Job
  <1> QED BY <1>1, <1>2, <1>3, InitTypes, StepTypes, PTL DEF Spec

(* Requests that have found no record of their key and not yet made one.   *)
Unrecorded(k) ==
    {w \in Workers : job[w].key = k /\ job[w].at \notin {"idle", "arrived", "release"}}

(* A success is recorded, and each of the requests that can still execute  *)
(* occupies a thread of its own.                                           *)
Executions ==
    \A k \in Keys :
        /\ executed[k] > 0 => record[k] # NoPayload
        /\ executed[k] + Cardinality(Unrecorded(k)) <= Cardinality(Workers)

LEMMA SmallerCount ==
  ASSUME NEW S \in SUBSET Workers, NEW T \in SUBSET S
  PROVE  /\ Cardinality(S) \in Nat /\ Cardinality(T) \in Nat
         /\ Cardinality(T) <= Cardinality(S)
         /\ \A w \in S \ T : Cardinality(T) + 1 <= Cardinality(S)
  <1>1. IsFiniteSet(S) /\ IsFiniteSet(T)
    BY IdempotencyAssumption, FS_Subset, Zenon
  <1>2. Cardinality(S) \in Nat /\ Cardinality(T) \in Nat
    BY <1>1, FS_CardinalityType
  <1>3. Cardinality(T) <= Cardinality(S)
    BY <1>1, FS_Subset, Zenon
  <1>4. ASSUME NEW w \in S \ T PROVE Cardinality(T) + 1 <= Cardinality(S)
    <2>1. Cardinality(T \cup {w}) = Cardinality(T) + 1
      BY <1>1, <1>4, FS_AddElement
    <2>2. T \cup {w} \subseteq S
      OBVIOUS
    <2>3. Cardinality(T \cup {w}) <= Cardinality(S)
      BY <1>1, <2>2, FS_Subset, Zenon
    <2> QED BY <2>1, <2>3
  <1> QED BY <1>2, <1>3, <1>4

LEMMA ExecutionsStep ==
  ASSUME TypeOK, Executions, [Next]_vars
  PROVE  Executions'
  <1>1. /\ job \in [Workers -> Job] /\ \A w \in Workers : Fits(job[w])
        /\ executed \in [Keys -> Nat] /\ record \in [Keys -> Payloads \cup {NoPayload}]
        /\ NoKey \notin Keys /\ NoPayload \notin Payloads
    BY IdempotencyAssumption DEF TypeOK, JobsFit
  <1>2. ASSUME \A k \in Keys : Unrecorded(k)' \subseteq Unrecorded(k), UNCHANGED <<record, executed>>
        PROVE  Executions'
    <2>1. ASSUME NEW k \in Keys
          PROVE  Cardinality(Unrecorded(k)') <= Cardinality(Unrecorded(k))
                 /\ Cardinality(Unrecorded(k)) \in Nat /\ Cardinality(Unrecorded(k)') \in Nat
      <3>1. Unrecorded(k) \in SUBSET Workers /\ Unrecorded(k)' \in SUBSET Unrecorded(k)
        BY <1>2, <2>1 DEF Unrecorded
      <3> QED BY <3>1, SmallerCount, Zenon
    <2>2. Cardinality(Workers) \in Nat
      BY SmallerCount
    <2>3. ASSUME NEW k \in Keys
          PROVE  executed'[k] + Cardinality(Unrecorded(k)') <= Cardinality(Workers)
      BY <1>1, <1>2, <2>1, <2>2, <2>3 DEF Executions
    <2>4. \A k \in Keys : executed'[k] > 0 => record'[k] # NoPayload
      BY <1>2 DEF Executions
    <2> QED BY <2>3, <2>4 DEF Executions
  <1>3. ASSUME NEW w \in Workers, \A v \in Workers \ {w} : job'[v] = job[v],
               UNCHANGED <<record, executed>>,
               \/ job'[w].at \in {"idle", "arrived", "release"} \/ job'[w].key = NoKey
               \/ job[w].at \notin {"idle", "arrived", "release"} /\ job'[w].key = job[w].key
        PROVE  Executions'
    <2>1. \A k \in Keys : Unrecorded(k)' \subseteq Unrecorded(k)
      BY <1>1, <1>3 DEF Unrecorded
    <2> QED BY <1>2, <1>3, <2>1
  <1>4. ASSUME NEW w \in Workers, Handler(w) PROVE Executions'
    <2>1. HandlerMoves(w)
      BY <1>4, HandlerMovesItsOwn
    <2>2. job[w].at \notin {"idle", "arrived", "release"}
      BY <2>1 DEF HandlerMoves, HandlerSteps, RecordingSteps
    <2> QED BY <1>3, <2>1, <2>2 DEF HandlerMoves, middleware
  <1>5. ASSUME NEW w \in Workers, Leave(w), UNCHANGED <<record, executed>> PROVE Executions'
    <2>1. job'[w].at = "idle" /\ \A v \in Workers \ {w} : job'[v] = job[v]
      BY <1>1, <1>5, IdleFits DEF Leave
    <2> QED BY <1>3, <1>5, <2>1
  <1>6. ASSUME NEW w \in Workers, Middleware(w) PROVE Executions'
    <2>1. CASE Arrive(w)
      <3>1. PICK k \in Keys \cup {NoKey}, p \in Payloads :
              job' = [job EXCEPT ![w] =
                [IdleJob EXCEPT !.at = IF k = NoKey THEN "handling" ELSE "arrived",
                                !.key = k, !.body = p]]
        BY <2>1 DEF Arrive
      <3>2. job'[w].at = (IF k = NoKey THEN "handling" ELSE "arrived") /\ job'[w].key = k
        BY <1>1, <3>1 DEF IdleJob
      <3>3. job'[w].at = "arrived" \/ job'[w].key = NoKey
        BY <3>2
      <3>4. \A v \in Workers \ {w} : job'[v] = job[v]
        BY <1>1, <3>1
      <3>5. UNCHANGED <<record, executed>>
        BY <2>1 DEF Arrive
      <3> QED BY <1>3, <3>3, <3>4, <3>5
    <2>2. CASE Miss(w)
      <3> DEFINE key == job[w].key
      <3>1. key \in Keys /\ record[key] = NoPayload
        BY <1>1, <2>2 DEF Miss, Answered, At, Fits
      <3>2. executed[key] = 0
        BY <1>1, <3>1 DEF Executions
      <3>3. job'[w].key = key /\ \A v \in Workers \ {w} : job'[v] = job[v]
        BY <1>1, <2>2 DEF Miss, Go, Job
      <3>4. UNCHANGED <<record, executed>>
        BY <2>2 DEF Miss
      <3> HIDE DEF key
      <3>5. ASSUME NEW k \in Keys
            PROVE  executed'[k] + Cardinality(Unrecorded(k)') <= Cardinality(Workers)
        <4>1. Unrecorded(k) \in SUBSET Workers /\ Unrecorded(k)' \in SUBSET Workers
          BY DEF Unrecorded
        <4>2. /\ Cardinality(Workers) \in Nat /\ Cardinality(Unrecorded(k)') \in Nat
              /\ Cardinality(Unrecorded(k)') <= Cardinality(Workers)
          BY <4>1, SmallerCount, Zenon
        <4>3. CASE k = key
          BY <3>2, <3>4, <4>2, <4>3
        <4>4. CASE k # key
          <5>1. Unrecorded(k)' = Unrecorded(k)
            BY <3>3, <4>4 DEF Unrecorded, key
          <5> QED BY <3>4, <5>1 DEF Executions
        <4> QED BY <4>3, <4>4
      <3> QED BY <3>4, <3>5 DEF Executions
    <2>3. CASE Replay(w) \/ Conflict(w) \/ Release(w)
      BY <1>5, <2>3 DEF Replay, Conflict, Release
    <2>4. CASE Acquire(w)
      <3>1. job'[w].key = job[w].key /\ \A v \in Workers \ {w} : job'[v] = job[v]
        BY <1>1, <2>4 DEF Acquire, Go, Job
      <3> QED BY <1>3, <2>4, <3>1 DEF Acquire, At
    <2>5. CASE Respond(w)
      <3>1. CASE job[w].key = NoKey
        BY <1>5, <2>5, <3>1 DEF Respond
      <3>2. CASE job[w].key # NoKey
        <4> DEFINE key == job[w].key
        <4>1. key \in Keys /\ job[w].body \in Payloads /\ job[w].at = "answered"
          BY <1>1, <2>5, <3>2 DEF Respond, At, Fits, Job
        <4>2. job'[w].at = "release" /\ \A v \in Workers \ {w} : job'[v] = job[v]
          BY <1>1, <2>5, <3>2 DEF Respond, Go, Job
        <4>3. /\ record' = [record EXCEPT ![key] = IF job[w].ok THEN job[w].body ELSE @]
              /\ executed' = [executed EXCEPT ![key] = IF job[w].ok THEN @ + 1 ELSE @]
          BY <2>5, <3>2 DEF Respond
        <4>4. job[w].key = key
          OBVIOUS
        <4> HIDE DEF key
        <4>5. ASSUME NEW k \in Keys
              PROVE  executed'[k] + Cardinality(Unrecorded(k)') <= Cardinality(Workers)
          <5>1. Unrecorded(k) \in SUBSET Workers /\ Unrecorded(k)' \in SUBSET Unrecorded(k)
            BY <4>2 DEF Unrecorded
          <5>2. /\ Cardinality(Unrecorded(k)) \in Nat /\ Cardinality(Unrecorded(k)') \in Nat
                /\ Cardinality(Unrecorded(k)') <= Cardinality(Unrecorded(k))
                /\ \A v \in Unrecorded(k) \ (Unrecorded(k)') :
                     Cardinality(Unrecorded(k)') + 1 <= Cardinality(Unrecorded(k))
            BY <5>1, SmallerCount, Zenon
          <5>3. executed[k] \in Nat /\ Cardinality(Workers) \in Nat
                /\ executed[k] + Cardinality(Unrecorded(k)) <= Cardinality(Workers)
            BY <1>1, SmallerCount DEF Executions
          <5>4. CASE k = key
            <6>1. w \in Unrecorded(k) \ (Unrecorded(k)')
              BY <4>1, <4>2, <4>4, <5>4 DEF Unrecorded
            <6>2. executed'[k] <= executed[k] + 1 /\ executed'[k] \in Nat
              BY <1>1, <4>3, <5>3, <5>4
            <6> QED BY <5>2, <5>3, <6>1, <6>2
          <5>5. CASE k # key
            <6>1. executed'[k] = executed[k]
              BY <1>1, <4>3, <5>5
            <6> QED BY <5>2, <5>3, <6>1
          <5> QED BY <5>4, <5>5
        <4>6. ASSUME NEW k \in Keys, executed'[k] > 0 PROVE record'[k] # NoPayload
          BY <1>1, <4>1, <4>3, <4>6 DEF Executions
        <4> QED BY <4>5, <4>6 DEF Executions
      <3> QED BY <3>1, <3>2
    <2> QED BY <1>6, <2>1, <2>2, <2>3, <2>4, <2>5 DEF Middleware
  <1>7. ASSUME NEW k \in Keys, Expire(k) PROVE Executions'
    <2>1. \A l \in Keys : Unrecorded(l)' \subseteq Unrecorded(l)
      BY <1>7 DEF Expire, Unrecorded
    <2> QED BY <1>2, <1>7, <2>1 DEF Expire
  <1>8. ASSUME NEW w \in Workers, Die(w) PROVE Executions'
    BY <1>5, <1>8 DEF Die
  <1>9. CASE Evict \/ UNCHANGED vars
    <2>1. \A l \in Keys : Unrecorded(l)' \subseteq Unrecorded(l)
      BY <1>9 DEF Evict, vars, Unrecorded
    <2> QED BY <1>2, <1>9, <2>1 DEF Evict, vars, middleware
  <1> QED BY <1>4, <1>6, <1>7, <1>8, <1>9 DEF Next

(* A client who retries a key for as long as he likes has it executed at   *)
(* most once per server thread, even when handlers outlive their locks:    *)
(* once an answer is stored no request of the key gets past the record.    *)
THEOREM RetriesExecuteOncePerThread == Spec => []RetriesRarelyExecute
  <1>1. Init => Executions
    <2> SUFFICES ASSUME Init PROVE Executions
      OBVIOUS
    <2>1. ASSUME NEW k \in Keys PROVE Unrecorded(k) = {}
      BY DEF Init, InitMiddleware, IdleJob, Unrecorded
    <2>2. Cardinality({}) = 0 /\ Cardinality(Workers) \in Nat
      BY SmallerCount, FS_EmptySet
    <2>3. \A k \in Keys : executed[k] = 0
      BY DEF Init, InitMiddleware
    <2> QED BY <2>1, <2>2, <2>3 DEF Executions
  <1>2. TypeOK /\ Executions /\ [Next]_vars => Executions'
    BY ExecutionsStep
  <1>3. TypeOK /\ Executions => RetriesRarelyExecute
    <2> SUFFICES ASSUME TypeOK, Executions, NEW k \in Keys
                 PROVE  executed[k] <= Cardinality(Workers)
      BY DEF RetriesRarelyExecute
    <2>1. Unrecorded(k) \in SUBSET Workers
      BY DEF Unrecorded
    <2>2. Cardinality(Unrecorded(k)) \in Nat /\ Cardinality(Workers) \in Nat
      BY <2>1, SmallerCount, Zenon
    <2>3. executed[k] \in Nat
      BY DEF TypeOK
    <2> QED BY <2>2, <2>3 DEF Executions
  <1> QED BY <1>1, <1>2, <1>3, InitTypes, StepTypes, PTL DEF Spec

-------------------------------------------------------------------------------
(* The dearest call, and amounts summed over workers                       *)

(* A finite set of numbers has a largest one: else there were a smallest   *)
(* set without, and no element could be taken from it.                     *)
LEMMA LargestExists ==
  ASSUME NEW S \in SUBSET Nat, IsFiniteSet(S), S # {}
  PROVE  \E m \in S : \A n \in S : n <= m
  <1> DEFINE Lacks(U) == U # {} /\ \A m \in U : \E n \in U : ~(n <= m)
             Sizes == {Cardinality(U) : U \in {V \in SUBSET S : Lacks(V)}}
  <1>1. \A U \in SUBSET S : IsFiniteSet(U) /\ Cardinality(U) \in Nat
    BY FS_Subset, FS_CardinalityType
  <1> SUFFICES ASSUME Sizes # {} PROVE FALSE
    OBVIOUS
  <1>2. Sizes \subseteq Nat
    BY <1>1
  <1>3. PICK n \in Sizes : \A k \in Sizes : ~(<<k, n>> \in OpToRel(<, Nat))
    <2> HIDE DEF Sizes
    <2> QED BY <1>2, NatLessThanWellFounded, WFMin, Zenon
  <1>4. \A k \in Sizes : ~(k < n)
    BY <1>2, <1>3 DEF OpToRel
  <1>5. PICK U \in SUBSET S : Lacks(U) /\ n = Cardinality(U)
    OBVIOUS
  <1>6. PICK x \in U : TRUE
    BY <1>5
  <1> DEFINE V == U \ {x}
  <1>7. IsFiniteSet(U) /\ V \in SUBSET S /\ x \in Nat
    BY <1>1
  <1>8. Cardinality(V) = n - 1 /\ n \in Nat
    BY <1>1, <1>5, <1>6, <1>7, FS_RemoveElement
  <1>9. ~Lacks(V)
    <2>1. Cardinality(V) < n
      BY <1>8
    <2> QED BY <1>4, <1>7, <2>1
  <1>10. PICK y \in U : ~(y <= x)
    BY <1>5
  <1>11. y \in V /\ \A k \in U : k \in Nat
    BY <1>7, <1>10
  <1>12. PICK z \in V : \A k \in V : k <= z
    BY <1>9, <1>11
  <1>13. x <= z
    BY <1>7, <1>10, <1>11, <1>12
  <1>14. \A k \in U : k <= z
    BY <1>12, <1>13
  <1> QED BY <1>5, <1>12, <1>14

(* No call costs more.                                                     *)
LEMMA DearestCosts == Dearest \in Nat \ {0} /\ \A cost \in Costs : cost \in 1..Dearest
  <1>1. Costs \in SUBSET Nat /\ IsFiniteSet(Costs) /\ Costs # {} /\ 0 \notin Costs
    BY AIAssumption
  <1>2. \E m \in Costs : \A n \in Costs : n <= m
    BY <1>1, LargestExists, Zenon
  <1>3. Dearest \in Costs /\ \A n \in Costs : n <= Dearest
    BY <1>2 DEF Dearest
  <1> QED BY <1>1, <1>3

Amounts == [Workers -> 0..Dearest]

(* total is the sum of the amounts of all workers: what a function from    *)
(* sets of workers assigns to them, if it adds one amount at a time.       *)
SumsTo(amount, total) ==
    \E sum \in [SUBSET Workers -> Nat] :
        /\ sum[{}] = 0 /\ sum[Workers] = total
        /\ \A S \in SUBSET Workers : \A w \in Workers \ S :
             sum[S \cup {w}] = sum[S] + amount[w]
        /\ \A S \in SUBSET Workers :
             sum[S] <= Dearest * Cardinality({w \in S : amount[w] > 0})

LEMMA NothingSums ==
  ASSUME NEW amount \in Amounts, \A w \in Workers : amount[w] = 0
  PROVE  SumsTo(amount, 0)
  <1> DEFINE sum == [S \in SUBSET Workers |-> 0]
  <1>1. ASSUME NEW S \in SUBSET Workers
        PROVE  sum[S] <= Dearest * Cardinality({w \in S : amount[w] > 0})
    <2>1. {w \in S : amount[w] > 0} = {}
      OBVIOUS
    <2>2. Cardinality({w \in S : amount[w] > 0}) = 0
      BY <2>1, FS_EmptySet
    <2> QED BY <2>2, DearestCosts
  <1>2. /\ sum \in [SUBSET Workers -> Nat] /\ sum[{}] = 0 /\ sum[Workers] = 0
        /\ \A S \in SUBSET Workers : \A w \in Workers \ S : sum[S \cup {w}] = sum[S] + amount[w]
    OBVIOUS
  <1> HIDE DEF sum
  <1> QED BY <1>1, <1>2 DEF SumsTo

(* One more non-negative term, or one term less, in a product.             *)
LEMMA Times ==
  ASSUME NEW a \in Nat, NEW m \in Nat, NEW n \in Nat
  PROVE  /\ a * m \in Nat /\ a * (m + 1) = a * m + a
         /\ m <= n => a * m <= a * n
  OBVIOUS

(* The sum with one amount replaced.                                       *)
LEMMA SumMoves ==
  ASSUME NEW amount \in Amounts, NEW total, SumsTo(amount, total),
         NEW w \in Workers, NEW a \in 0..Dearest
  PROVE  /\ total \in Nat /\ total + a - amount[w] \in Nat /\ amount[w] \in 0..Dearest
         /\ SumsTo([amount EXCEPT ![w] = a], total + a - amount[w])
  <1>1. PICK sum \in [SUBSET Workers -> Nat] :
          /\ sum[{}] = 0 /\ sum[Workers] = total
          /\ \A S \in SUBSET Workers : \A v \in Workers \ S :
               sum[S \cup {v}] = sum[S] + amount[v]
          /\ \A S \in SUBSET Workers :
               sum[S] <= Dearest * Cardinality({v \in S : amount[v] > 0})
    BY DEF SumsTo
  <1> DEFINE next == [amount EXCEPT ![w] = a]
             now == [S \in SUBSET Workers |-> IF w \in S THEN sum[S \ {w}] + a ELSE sum[S]]
  <1>2. /\ next \in Amounts /\ next[w] = a /\ \A v \in Workers \ {w} : next[v] = amount[v]
        /\ a \in Nat /\ amount[w] \in 0..Dearest
    BY DearestCosts DEF Amounts
  <1>3. /\ now \in [SUBSET Workers -> Nat]
        /\ \A S \in SUBSET Workers : w \in S => now[S] = sum[S \ {w}] + a
        /\ \A S \in SUBSET Workers : w \notin S => now[S] = sum[S]
    BY <1>2
  <1> HIDE DEF now, next
  <1>4. ASSUME NEW S \in SUBSET Workers, w \in S
        PROVE  sum[S] = sum[S \ {w}] + amount[w] /\ S \ {w} \in SUBSET Workers
    <2>1. (S \ {w}) \cup {w} = S /\ w \in Workers \ (S \ {w}) /\ S \ {w} \in SUBSET Workers
      BY <1>4
    <2>2. sum[(S \ {w}) \cup {w}] = sum[S \ {w}] + amount[w]
      BY <1>1, <2>1
    <2> QED BY <2>1, <2>2
  <1>5. total \in Nat /\ now[Workers] = total + a - amount[w] /\ now[Workers] \in Nat
    <2>1. sum[Workers] = sum[Workers \ {w}] + amount[w] /\ Workers \ {w} \in SUBSET Workers
      BY <1>4
    <2>2. now[Workers] = sum[Workers \ {w}] + a
      BY <1>3
    <2>3. sum[Workers \ {w}] \in Nat /\ sum[Workers] \in Nat /\ now[Workers] \in Nat
      BY <1>3, <2>1
    <2> QED BY <1>1, <1>2, <2>1, <2>2, <2>3
  <1>6. now[{}] = 0
    BY <1>1, <1>3
  <1>7. ASSUME NEW S \in SUBSET Workers, NEW v \in Workers \ S
        PROVE  now[S \cup {v}] = now[S] + next[v]
    <2>1. S \cup {v} \in SUBSET Workers /\ sum[S] \in Nat /\ S \ {w} \in SUBSET Workers
      OBVIOUS
    <2>2. CASE v = w
      <3>1. (S \cup {v}) \ {w} = S /\ w \in S \cup {v} /\ w \notin S
        BY <2>2
      <3>2. now[S \cup {v}] = sum[S] + a /\ now[S] = sum[S]
        BY <1>3, <2>1, <3>1
      <3> QED BY <1>2, <2>2, <3>2
    <2>3. CASE v # w /\ w \in S
      <3>1. (S \cup {v}) \ {w} = (S \ {w}) \cup {v} /\ v \in Workers \ (S \ {w})
        BY <2>3
      <3>2. sum[(S \ {w}) \cup {v}] = sum[S \ {w}] + amount[v]
        BY <1>1, <2>1, <3>1
      <3>3. now[S \cup {v}] = sum[(S \ {w}) \cup {v}] + a /\ now[S] = sum[S \ {w}] + a
        BY <1>3, <2>1, <2>3, <3>1
      <3>4. next[v] = amount[v] /\ amount[v] \in Nat /\ sum[S \ {w}] \in Nat
        BY <1>2, <2>1, <2>3, DearestCosts DEF Amounts
      <3> QED BY <1>2, <3>2, <3>3, <3>4
    <2>4. CASE v # w /\ w \notin S
      <3>1. now[S \cup {v}] = sum[S \cup {v}] /\ now[S] = sum[S]
        BY <1>3, <2>1, <2>4
      <3> QED BY <1>1, <1>2, <2>4, <3>1
    <2> QED BY <2>2, <2>3, <2>4
  <1>8. ASSUME NEW S \in SUBSET Workers
        PROVE  now[S] <= Dearest * Cardinality({v \in S : next[v] > 0})
    <2> DEFINE Paying == {v \in S : next[v] > 0}
               Paid == {v \in S \ {w} : amount[v] > 0}
    <2>1. Paying \in SUBSET Workers /\ Paid \in SUBSET Paying /\ (w \in S /\ a > 0 => w \in Paying \ Paid)
      BY <1>2
    <2>2. /\ Cardinality(Paying) \in Nat /\ Cardinality(Paid) \in Nat
          /\ Cardinality(Paid) <= Cardinality(Paying)
          /\ \A v \in Paying \ Paid : Cardinality(Paid) + 1 <= Cardinality(Paying)
      BY <2>1, SmallerCount, Zenon
    <2>3. sum[S \ {w}] <= Dearest * Cardinality(Paid) /\ sum[S \ {w}] \in Nat
      BY <1>1
    <2>4. CASE w \notin S
      <3>1. S \ {w} = S
        BY <2>4
      <3>2. now[S] = sum[S \ {w}]
        BY <1>3, <2>4, <3>1
      <3>3. Dearest * Cardinality(Paid) <= Dearest * Cardinality(Paying)
            /\ Dearest * Cardinality(Paid) \in Nat /\ Dearest * Cardinality(Paying) \in Nat
        BY <2>2, DearestCosts, Times
      <3> HIDE DEF Paid, Paying
      <3>4. now[S] <= Dearest * Cardinality(Paying)
        BY <2>3, <3>2, <3>3
      <3> QED BY <3>4 DEF Paying
    <2>5. CASE w \in S
      <3>1. now[S] = sum[S \ {w}] + a
        BY <1>3, <2>5
      <3>2. CASE a = 0
        <4>1. Dearest * Cardinality(Paid) <= Dearest * Cardinality(Paying)
              /\ Dearest * Cardinality(Paid) \in Nat /\ Dearest * Cardinality(Paying) \in Nat
          BY <2>2, DearestCosts, Times
        <4> QED BY <2>3, <3>1, <3>2, <4>1
      <3>3. CASE a > 0
        <4>1. Cardinality(Paid) + 1 <= Cardinality(Paying) /\ Cardinality(Paid) + 1 \in Nat
          BY <2>1, <2>2, <2>5, <3>3
        <4>2. Dearest * (Cardinality(Paid) + 1) <= Dearest * Cardinality(Paying)
          BY <2>2, <4>1, DearestCosts, Times
        <4>3. Dearest * (Cardinality(Paid) + 1) = Dearest * Cardinality(Paid) + Dearest
              /\ Dearest * Cardinality(Paid) \in Nat /\ Dearest * Cardinality(Paying) \in Nat
          BY <2>2, DearestCosts, Times
        <4> HIDE DEF Paid, Paying
        <4>4. now[S] <= Dearest * Cardinality(Paying)
          BY <1>2, <2>3, <3>1, <4>2, <4>3, DearestCosts
        <4> QED BY <4>4 DEF Paying
      <3> QED BY <1>2, <3>2, <3>3
    <2> QED BY <2>4, <2>5
  <1>9. SumsTo(next, total + a - amount[w])
    BY <1>3, <1>5, <1>6, <1>7, <1>8 DEF SumsTo
  <1> QED BY <1>2, <1>5, <1>9 DEF next

-------------------------------------------------------------------------------
(* The budget                                                              *)

Threads == Cardinality(Workers)

Most == Budget + Threads * Dearest

(* From the provider to the end of the recording transaction.              *)
UnderWay == {w \in Workers : At(w, "calling") \/ Recording(w)}

(* The counter has the call and the ledger does not.                       *)
Told(w) == job[w].at \in {"alerting", "committing"}

Pending == [w \in Workers |-> IF Told(w) THEN job[w].cost ELSE 0]

(* Requests that may yet put a counter in the cache that is too low.       *)
Summing == {w \in Workers : At(w, "summing")}

Stale == IF counter # Cold THEN Summing ELSE IF evictions = 0 THEN {} ELSE Workers

(* How often that has happened, or was possible and did not happen.        *)
Losses == evictions * Threads - Cardinality(Stale)

(* Before the first eviction nothing is charged without a counter.         *)
Untouched ==
    evictions = 0 =>
        /\ Summing = {}
        /\ counter = Cold => /\ ledger = 0 /\ UnderWay = {}
                             /\ \A w \in Workers : At(w, "seeding") => job[w].sum = 0

(* The ledger, with all that calls under way can add to it.                *)
Spending ==
    /\ Losses \in Nat
    /\ ledger + Dearest * Cardinality(UnderWay) < Most * (Losses + 1)

(* The counter covers the ledger and what is to be committed, but for what *)
(* was lost.                                                               *)
Covered ==
    \E total \in Nat :
        /\ SumsTo(Pending, total)
        /\ counter # Cold => ledger + total <= counter + Most * Losses

Budgeted == Untouched /\ Spending /\ Covered

LEMMA BudgetTypes ==
  /\ Threads \in Nat /\ Most \in Nat \ {0} /\ Dearest \in Nat \ {0} /\ Budget \in Nat \ {0}
  /\ Most = Budget + Dearest * Threads /\ Dearest * Threads \in Nat
  /\ Workers # {} => Dearest <= Most /\ Threads > 0
  <1>1. Threads \in Nat /\ Dearest \in Nat \ {0} /\ Budget \in Nat \ {0}
    BY SmallerCount, DearestCosts, AIAssumption DEF Threads
  <1>2. Threads * Dearest = Dearest * Threads /\ Dearest * Threads \in Nat
    BY <1>1
  <1>3. ASSUME Workers # {} PROVE Threads > 0 /\ Dearest <= Dearest * Threads
    <2>1. Threads # 0
      BY <1>3, IdempotencyAssumption, FS_EmptySet DEF Threads
    <2>2. Threads >= 1 /\ 1 \in Nat
      BY <1>1, <2>1
    <2>3. Dearest * 1 <= Dearest * Threads
      BY <1>1, <2>2, Times
    <2> QED BY <1>1, <2>2, <2>3
  <1> QED BY <1>1, <1>2, <1>3 DEF Most

LEMMA LossesGrow ==
  ASSUME TypeOK, evictions' = evictions, Stale' \subseteq Stale
  PROVE  /\ Losses \in Int /\ Losses' \in Int /\ Losses <= Losses'
         /\ \A w \in Stale \ Stale' : Losses + 1 <= Losses'
  <1>1. Stale \in SUBSET Workers /\ Stale' \in SUBSET Stale
    BY DEF Stale, Summing
  <1>2. /\ Cardinality(Stale) \in Nat /\ Cardinality(Stale') \in Nat
        /\ Cardinality(Stale') <= Cardinality(Stale)
        /\ \A w \in Stale \ Stale' : Cardinality(Stale') + 1 <= Cardinality(Stale)
    BY <1>1, SmallerCount, Zenon
  <1>3. evictions * Threads \in Nat
    BY BudgetTypes DEF TypeOK
  <1>4. Losses = evictions * Threads - Cardinality(Stale)
        /\ Losses' = evictions * Threads - Cardinality(Stale')
    BY DEF Losses, Threads
  <1> QED BY <1>2, <1>3, <1>4

(* A step of one worker and what it does to the amounts pending.           *)
LEMMA PendingMoves ==
  ASSUME TypeOK, NEW total \in Nat, SumsTo(Pending, total), NEW w \in Workers, JobsFit',
         \A v \in Workers \ {w} : job'[v] = job[v]
  PROVE  /\ total + Pending'[w] - Pending[w] \in Nat
         /\ SumsTo(Pending', total + Pending'[w] - Pending[w])
         /\ Pending[w] \in 0..Dearest /\ Pending'[w] \in 0..Dearest
  <1>1. ASSUME NEW v \in Workers
        PROVE  (IF Told(v) THEN job[v].cost ELSE 0) \in 0..Dearest
    <2>1. Told(v) => job[v].cost \in Costs
      BY DEF TypeOK, JobsFit, Fits, Told, RecordingSteps
    <2> QED BY <2>1, DearestCosts
  <1>2. Pending \in Amounts
    BY <1>1 DEF Pending, Amounts
  <1>3. Pending'[w] \in 0..Dearest
    <2>1. Told(w)' => job'[w].cost \in Costs
      BY DEF JobsFit, Fits, Told, RecordingSteps
    <2> QED BY <2>1, DearestCosts DEF Pending
  <1>4. Pending' = [Pending EXCEPT ![w] = Pending'[w]]
    BY DEF Pending, Told
  <1>5. /\ total + Pending'[w] - Pending[w] \in Nat /\ Pending[w] \in 0..Dearest
        /\ SumsTo([Pending EXCEPT ![w] = Pending'[w]], total + Pending'[w] - Pending[w])
    BY <1>2, <1>3, SumMoves
  <1> QED BY <1>3, <1>4, <1>5

LEMMA UnderWayMoves ==
  ASSUME NEW w \in Workers, \A v \in Workers \ {w} : job'[v] = job[v]
  PROVE  /\ Cardinality(UnderWay) \in Nat /\ Cardinality(UnderWay') \in Nat
         /\ Cardinality(UnderWay') <= Threads
         /\ Cardinality(UnderWay') <= Cardinality(UnderWay) + 1
         /\ w \in UnderWay \/ w \notin UnderWay'
              => Cardinality(UnderWay') <= Cardinality(UnderWay)
         /\ w \in UnderWay /\ w \notin UnderWay'
              => Cardinality(UnderWay') + 1 <= Cardinality(UnderWay)
  <1> DEFINE old == UnderWay
             new == UnderWay'
             rest == new \ {w}
  <1>1. old \in SUBSET Workers /\ new \in SUBSET Workers /\ rest \in SUBSET new
        /\ rest \in SUBSET old
    BY DEF UnderWay, At, Recording
  <1> HIDE DEF old, new
  <1>2. /\ Cardinality(rest) \in Nat /\ Cardinality(rest) <= Cardinality(old)
        /\ Cardinality(old) \in Nat
        /\ \A v \in old \ rest : Cardinality(rest) + 1 <= Cardinality(old)
    BY <1>1, SmallerCount, Zenon
  <1>3. Cardinality(new) \in Nat /\ Cardinality(new) <= Threads /\ Threads \in Nat
    BY <1>1, SmallerCount, Zenon DEF Threads
  <1>4. IsFiniteSet(rest)
    BY <1>1, IdempotencyAssumption, FS_Subset, Zenon
  <1>5. CASE w \notin new
    <2>1. new = rest
      BY <1>5
    <2> QED BY <1>2, <1>3, <2>1 DEF old, new
  <1>6. CASE w \in new
    <2>1. new = rest \cup {w} /\ w \notin rest
      BY <1>6
    <2>2. Cardinality(rest \cup {w}) = Cardinality(rest) + 1
      BY <1>4, <2>1, FS_AddElement
    <2>3. Cardinality(new) = Cardinality(rest) + 1
      BY <2>1, <2>2
    <2>4. w \in old => Cardinality(new) <= Cardinality(old)
      BY <1>2, <2>1, <2>3
    <2>5. Cardinality(new) <= Cardinality(old) + 1
      BY <1>2, <2>3
    <2> QED BY <1>2, <1>3, <1>6, <2>4, <2>5 DEF old, new
  <1> QED BY <1>5, <1>6

(* A step that neither charges nor enters the provider's call.             *)
LEMMA QuietBudget ==
  ASSUME TypeOK, Budgeted, JobsFit', NEW w \in Workers,
         \A v \in Workers \ {w} : job'[v] = job[v],
         UNCHANGED <<ledger, counter, evictions>>,
         w \in UnderWay' => w \in UnderWay,
         At(w, "summing")' => counter = Cold \/ At(w, "summing"),
         At(w, "seeding")' => job'[w].sum = ledger,
         Told(w)' => Told(w) /\ job'[w].cost = job[w].cost
  PROVE  Budgeted'
  <1>1. Untouched'
    <2> SUFFICES ASSUME evictions = 0 PROVE Untouched'
      BY DEF Untouched
    <2>1. Summing = {} /\ (counter = Cold => ledger = 0 /\ UnderWay = {}
                             /\ \A v \in Workers : At(v, "seeding") => job[v].sum = 0)
      BY DEF Budgeted, Untouched
    <2>2. Summing' \subseteq UnderWay'
      BY DEF Summing, UnderWay, At, Recording
    <2>3. UnderWay' \subseteq UnderWay
      BY DEF UnderWay, At, Recording
    <2>4. Summing' = {}
      BY <2>1, <2>2, <2>3 DEF Summing, At
    <2>5. counter = Cold => \A v \in Workers : At(v, "seeding")' => job'[v].sum = 0
      BY <2>1 DEF At
    <2> QED BY <2>1, <2>3, <2>4, <2>5 DEF Untouched
  <1>2. Stale' \subseteq Stale
    BY DEF Stale, Summing, At
  <1>3. Losses \in Nat /\ Losses' \in Nat /\ Losses <= Losses'
    BY <1>2, LossesGrow DEF Budgeted, Spending
  <1>4. /\ Most * Losses <= Most * Losses' /\ Most * Losses \in Nat /\ Most * Losses' \in Nat
        /\ Most * (Losses + 1) = Most * Losses + Most
        /\ Most * (Losses' + 1) = Most * Losses' + Most
    BY <1>3, BudgetTypes, Times
  <1>5. Spending'
    <2>1. /\ Cardinality(UnderWay) \in Nat /\ Cardinality(UnderWay') \in Nat
          /\ Cardinality(UnderWay') <= Cardinality(UnderWay)
      BY UnderWayMoves
    <2>2. /\ Dearest * Cardinality(UnderWay') <= Dearest * Cardinality(UnderWay)
          /\ Dearest * Cardinality(UnderWay) \in Nat /\ Dearest * Cardinality(UnderWay') \in Nat
      BY <2>1, BudgetTypes, Times
    <2>3. ledger + Dearest * Cardinality(UnderWay) < Most * (Losses + 1) /\ ledger \in Nat
      BY DEF Budgeted, Spending, TypeOK
    <2>4. ledger' + Dearest * Cardinality(UnderWay') < Most * (Losses' + 1)
      BY <1>4, <2>2, <2>3, BudgetTypes
    <2> QED BY <1>3, <2>4 DEF Spending
  <1>6. Covered'
    <2>1. PICK total \in Nat :
            /\ SumsTo(Pending, total)
            /\ counter # Cold => ledger + total <= counter + Most * Losses
      BY DEF Budgeted, Covered
    <2> DEFINE next == total + Pending'[w] - Pending[w]
    <2>2. /\ next \in Nat /\ SumsTo(Pending', next)
          /\ Pending[w] \in 0..Dearest /\ Pending'[w] \in 0..Dearest
      BY <2>1, PendingMoves
    <2>3. Pending'[w] = 0 \/ Pending'[w] = Pending[w]
      BY DEF Pending
    <2>4. next <= total
      BY <2>1, <2>2, <2>3, BudgetTypes
    <2>5. counter' # Cold => ledger' + next <= counter' + Most * Losses'
      BY <1>4, <2>1, <2>2, <2>4 DEF TypeOK
    <2> HIDE DEF next
    <2> QED BY <2>2, <2>5 DEF Covered
  <1> QED BY <1>1, <1>5, <1>6 DEF Budgeted

(* A call that the check of a counter lets through.                        *)
LEMMA EnterBudget ==
  ASSUME TypeOK, Budgeted, JobsFit', NEW w \in Workers,
         \A v \in Workers \ {w} : job'[v] = job[v],
         UNCHANGED <<ledger, counter, evictions>>,
         counter # Cold, counter < Budget, At(w, "calling")', ~Told(w)
  PROVE  Budgeted'
  <1>1. Untouched'
    BY DEF Budgeted, Untouched, Summing, At
  <1>2. Stale' \subseteq Stale
    BY DEF Stale, Summing, At
  <1>3. Losses \in Nat /\ Losses' \in Nat /\ Losses <= Losses'
    BY <1>2, LossesGrow DEF Budgeted, Spending
  <1>4. /\ Most * Losses <= Most * Losses' /\ Most * Losses \in Nat /\ Most * Losses' \in Nat
        /\ Most * (Losses' + 1) = Most * Losses' + Most
    BY <1>3, BudgetTypes, Times
  <1>5. PICK total \in Nat :
          SumsTo(Pending, total) /\ ledger + total <= counter + Most * Losses
    BY DEF Budgeted, Covered
  <1>6. counter \in Nat /\ ledger \in Nat /\ ledger' = ledger /\ counter' = counter
    BY DEF TypeOK
  <1>7. Spending'
    <2>1. Cardinality(UnderWay') \in Nat /\ Cardinality(UnderWay') <= Threads
      BY UnderWayMoves
    <2>2. Dearest * Cardinality(UnderWay') <= Dearest * Threads
          /\ Dearest * Cardinality(UnderWay') \in Nat
      BY <2>1, BudgetTypes, Times
    <2>3. ledger' + Dearest * Cardinality(UnderWay') < Most * (Losses' + 1)
      BY <1>4, <1>5, <1>6, <2>2, BudgetTypes
    <2> QED BY <1>3, <2>3 DEF Spending
  <1>8. Covered'
    <2>1. Pending' = Pending
      BY DEF Pending, Told, At
    <2>2. ledger' + total <= counter' + Most * Losses'
      BY <1>4, <1>5, <1>6
    <2> QED BY <1>5, <2>1, <2>2 DEF Covered
  <1> QED BY <1>1, <1>7, <1>8 DEF Budgeted

(* A counter is put into the cache that knows nothing of what was lost.    *)
LEMMA RecoverBudget ==
  ASSUME TypeOK, Budgeted, JobsFit', NEW w \in Workers,
         \A v \in Workers \ {w} : job'[v] = job[v],
         UNCHANGED <<ledger, evictions>>, evictions # 0, counter' \in Nat,
         w \in Stale, ~At(w, "summing")', Told(w)' => w \in UnderWay
  PROVE  Budgeted'
  <1>1. Untouched'
    BY DEF Untouched
  <1>2. counter' # Cold
    BY AIAssumption
  <1>3. Stale' \subseteq Stale /\ w \in Stale \ Stale'
    BY <1>2 DEF Stale, Summing, At
  <1>4. Losses \in Nat /\ Losses' \in Nat /\ Losses + 1 <= Losses'
    BY <1>3, LossesGrow DEF Budgeted, Spending
  <1>5. /\ Most * (Losses + 1) <= Most * Losses' /\ Most * (Losses + 1) \in Nat
        /\ Most * Losses' \in Nat /\ Most * (Losses' + 1) = Most * Losses' + Most
    BY <1>4, BudgetTypes, Times
  <1>6. /\ ledger + Dearest * Cardinality(UnderWay) < Most * (Losses + 1)
        /\ ledger \in Nat /\ ledger' = ledger
    BY DEF Budgeted, Spending, TypeOK
  <1>7. /\ Cardinality(UnderWay) \in Nat /\ Cardinality(UnderWay') \in Nat
        /\ Cardinality(UnderWay') <= Cardinality(UnderWay) + 1
    BY UnderWayMoves
  <1>8. Spending'
    <2>1. /\ Dearest * Cardinality(UnderWay') <= Dearest * (Cardinality(UnderWay) + 1)
          /\ Dearest * (Cardinality(UnderWay) + 1) = Dearest * Cardinality(UnderWay) + Dearest
          /\ Dearest * Cardinality(UnderWay') \in Nat /\ Dearest * Cardinality(UnderWay) \in Nat
      BY <1>7, BudgetTypes, Times
    <2>2. ledger' + Dearest * Cardinality(UnderWay') < Most * (Losses' + 1)
      BY <1>5, <1>6, <2>1, BudgetTypes
    <2> QED BY <1>4, <2>2 DEF Spending
  <1>9. Covered'
    <2>1. PICK total \in Nat : SumsTo(Pending, total)
      BY DEF Budgeted, Covered
    <2> DEFINE next == total + Pending'[w] - Pending[w]
    <2>2. next \in Nat /\ SumsTo(Pending', next)
      BY <2>1, PendingMoves
    <2> HIDE DEF next
    <2>3. next <= Dearest * Cardinality({v \in Workers : Pending'[v] > 0})
      BY <2>2 DEF SumsTo
    <2>4. {v \in Workers : Pending'[v] > 0} \in SUBSET UnderWay /\ UnderWay \in SUBSET Workers
      BY DEF Pending, Told, UnderWay, Recording
    <2>5. /\ Cardinality({v \in Workers : Pending'[v] > 0}) \in Nat
          /\ Cardinality({v \in Workers : Pending'[v] > 0}) <= Cardinality(UnderWay)
      BY <2>4, SmallerCount, Zenon
    <2>6. Dearest * Cardinality({v \in Workers : Pending'[v] > 0})
            <= Dearest * Cardinality(UnderWay)
          /\ Dearest * Cardinality({v \in Workers : Pending'[v] > 0}) \in Nat
          /\ Dearest * Cardinality(UnderWay) \in Nat
      BY <1>7, <2>5, BudgetTypes, Times
    <2>7. ledger' + next <= counter' + Most * Losses'
      BY <1>5, <1>6, <2>2, <2>3, <2>6
    <2> QED BY <2>2, <2>7 DEF Covered
  <1> QED BY <1>1, <1>8, <1>9 DEF Budgeted

(* Nothing of it has changed.                                              *)
LEMMA SameBudget ==
  ASSUME Budgeted, UNCHANGED <<ledger, counter, evictions, job>>
  PROVE  Budgeted'
  <1>1. /\ UnderWay' = UnderWay /\ Summing' = Summing /\ Pending' = Pending /\ Stale' = Stale
        /\ Losses' = Losses
    BY DEF UnderWay, Recording, Summing, Pending, Told, Stale, Losses, At
  <1>2. Untouched'
    BY <1>1 DEF Budgeted, Untouched, At
  <1>3. Spending'
    BY <1>1 DEF Budgeted, Spending
  <1>4. Covered'
    BY <1>1 DEF Budgeted, Covered
  <1> QED BY <1>2, <1>3, <1>4 DEF Budgeted

LEMMA IncrementBudget ==
  ASSUME TypeOK, Budgeted, JobsFit', NEW w \in Workers, Increment(w), counter # Cold,
         \A v \in Workers \ {w} : job'[v] = job[v]
  PROVE  Budgeted'
  <1>1. /\ job[w].at = "counting" /\ job'[w].at = "alerting" /\ job'[w].cost = job[w].cost
        /\ job[w].cost \in Nat /\ UNCHANGED <<ledger, evictions>>
        /\ counter' = counter + job[w].cost /\ counter \in Nat /\ ledger \in Nat
    BY AIAssumption DEF Increment, Counted, At, TypeOK, JobsFit, Fits, Job, RecordingSteps, faults
  <1>2. counter' # Cold
    BY <1>1, AIAssumption
  <1>3. UnderWay' = UnderWay /\ Summing' = Summing
    BY <1>1 DEF UnderWay, Recording, Summing, At
  <1>4. Losses' = Losses
    BY <1>1, <1>2, <1>3 DEF Losses, Stale
  <1>5. Untouched'
    BY <1>1, <1>2, <1>3 DEF Budgeted, Untouched
  <1>6. Spending'
    BY <1>1, <1>3, <1>4 DEF Budgeted, Spending
  <1>7. Covered'
    <2>1. PICK total \in Nat :
            SumsTo(Pending, total) /\ ledger + total <= counter + Most * Losses
      BY DEF Budgeted, Covered
    <2>2. Pending'[w] = job[w].cost /\ Pending[w] = 0
      BY <1>1 DEF Pending, Told
    <2>3. SumsTo(Pending', total + Pending'[w] - Pending[w])
      BY <2>1, PendingMoves
    <2>4. total + Pending'[w] - Pending[w] = total + job[w].cost
      BY <1>1, <2>2
    <2>5. SumsTo(Pending', total + job[w].cost) /\ total + job[w].cost \in Nat
      BY <1>1, <2>3, <2>4
    <2>6. Most * Losses \in Nat
      BY BudgetTypes, Times DEF Budgeted, Spending
    <2>7. ledger' + (total + job[w].cost) <= counter' + Most * Losses'
      BY <1>1, <1>4, <2>1, <2>6
    <2> QED BY <2>5, <2>7 DEF Covered
  <1> QED BY <1>5, <1>6, <1>7 DEF Budgeted

LEMMA CommitBudget ==
  ASSUME TypeOK, Budgeted, JobsFit', NEW w \in Workers, Commit(w),
         \A v \in Workers \ {w} : job'[v] = job[v]
  PROVE  Budgeted'
  <1>1. /\ job[w].at = "committing" /\ job'[w].at = "parsing"
        /\ job[w].cost \in 1..Dearest /\ UNCHANGED <<counter, evictions>>
        /\ ledger' = ledger + job[w].cost /\ ledger \in Nat /\ counter \in Nat \cup {Cold}
    BY ResumeFits, DearestCosts
       DEF Commit, At, TypeOK, JobsFit, Fits, Job, RecordingSteps, faults
  <1>2. /\ w \in UnderWay /\ w \notin UnderWay' /\ UnderWay' \subseteq UnderWay
        /\ Summing' = Summing
    BY <1>1 DEF UnderWay, Recording, Summing, At
  <1>3. Losses' = Losses /\ Losses \in Nat /\ Most * Losses \in Nat
    BY <1>1, <1>2, BudgetTypes, Times DEF Losses, Stale, Budgeted, Spending
  <1>4. Untouched'
    BY <1>1, <1>2 DEF Budgeted, Untouched
  <1>5. Spending'
    <2>1. /\ Cardinality(UnderWay) \in Nat /\ Cardinality(UnderWay') \in Nat
          /\ Cardinality(UnderWay') + 1 <= Cardinality(UnderWay)
          /\ Cardinality(UnderWay') + 1 \in Nat
      BY <1>2, UnderWayMoves
    <2>2. /\ Dearest * (Cardinality(UnderWay') + 1) <= Dearest * Cardinality(UnderWay)
          /\ Dearest * (Cardinality(UnderWay') + 1) = Dearest * Cardinality(UnderWay') + Dearest
          /\ Dearest * Cardinality(UnderWay) \in Nat /\ Dearest * Cardinality(UnderWay') \in Nat
      BY <2>1, BudgetTypes, Times
    <2>3. ledger + Dearest * Cardinality(UnderWay) < Most * (Losses + 1)
          /\ Most * (Losses + 1) = Most * Losses + Most
      BY <1>3, BudgetTypes, Times DEF Budgeted, Spending
    <2>4. ledger' + Dearest * Cardinality(UnderWay') < Most * (Losses + 1)
      BY <1>1, <1>3, <2>2, <2>3, BudgetTypes
    <2> QED BY <1>3, <2>4 DEF Spending
  <1>6. Covered'
    <2>1. PICK total \in Nat :
            /\ SumsTo(Pending, total)
            /\ counter # Cold => ledger + total <= counter + Most * Losses
      BY DEF Budgeted, Covered
    <2>2. Pending'[w] = 0 /\ Pending[w] = job[w].cost
      BY <1>1 DEF Pending, Told
    <2>3. SumsTo(Pending', total + Pending'[w] - Pending[w])
          /\ total + Pending'[w] - Pending[w] \in Nat
      BY <2>1, PendingMoves
    <2>4. total + Pending'[w] - Pending[w] = total - job[w].cost
      BY <1>1, <2>2
    <2>5. SumsTo(Pending', total - job[w].cost) /\ total - job[w].cost \in Nat
      BY <2>3, <2>4
    <2>6. counter' # Cold => ledger' + (total - job[w].cost) <= counter' + Most * Losses'
      BY <1>1, <1>3, <2>1
    <2> QED BY <2>5, <2>6 DEF Covered
  <1> QED BY <1>4, <1>5, <1>6 DEF Budgeted

(* The first counter is a zero.                                            *)
LEMMA FirstSeedBudget ==
  ASSUME TypeOK, Budgeted, JobsFit', NEW w \in Workers, Seed(w), counter = Cold, evictions = 0,
         job'[w].at \in {"calling", "answered"}, \A v \in Workers \ {w} : job'[v] = job[v]
  PROVE  Budgeted'
  <1>1. /\ job[w].at = "seeding" /\ job[w].sum = 0 /\ ledger = 0 /\ UnderWay = {} /\ Summing = {}
    BY DEF Seed, At, Budgeted, Untouched
  <1>2. counter' = 0 /\ ledger' = 0 /\ evictions' = 0 /\ counter' # Cold
    BY <1>1, AIAssumption DEF Seed, Seeded, faults
  <1>3. Summing' = {}
    BY <1>1 DEF Summing, At
  <1>4. Losses' = 0 /\ Most * Losses' = 0 /\ Most * (Losses' + 1) = Most
    <2>1. Stale' = {} /\ Threads \in Nat
      BY <1>2, <1>3, BudgetTypes DEF Stale
    <2>2. Cardinality(Stale') = 0
      BY <2>1, FS_EmptySet
    <2>3. Threads' = Threads /\ evictions' * Threads = 0
      BY <1>2, <2>1 DEF Threads
    <2>4. Losses' = 0
      BY <2>2, <2>3 DEF Losses
    <2> QED BY <2>4, BudgetTypes
  <1>5. Untouched'
    BY <1>2, <1>3 DEF Untouched
  <1>6. Spending'
    <2>1. Cardinality(UnderWay) = 0
      BY <1>1, FS_EmptySet
    <2>2. Cardinality(UnderWay') \in Nat /\ Cardinality(UnderWay') <= 1
          /\ Cardinality(UnderWay') <= Threads
      BY <2>1, UnderWayMoves
    <2>3. Dearest * Cardinality(UnderWay') <= Dearest * Threads
          /\ Dearest * Cardinality(UnderWay') \in Nat
      BY <2>2, BudgetTypes, Times
    <2>4. ledger' + Dearest * Cardinality(UnderWay') < Most * (Losses' + 1)
      BY <1>2, <1>4, <2>3, BudgetTypes
    <2> QED BY <1>4, <2>4 DEF Spending
  <1>7. Covered'
    <2>1. \A v \in Workers : Pending'[v] = 0
      BY <1>1 DEF UnderWay, Pending, Told, Recording
    <2>2. Pending' \in Amounts
      BY <2>1, BudgetTypes DEF Pending, Amounts
    <2>3. SumsTo(Pending', 0)
      BY <2>1, <2>2, NothingSums
    <2>4. ledger' + 0 <= counter' + Most * Losses'
      BY <1>2, <1>4
    <2> QED BY <2>3, <2>4 DEF Covered
  <1> QED BY <1>5, <1>6, <1>7 DEF Budgeted

LEMMA EvictBudget ==
  ASSUME TypeOK, Budgeted, Evict
  PROVE  Budgeted'
  <1>1. /\ counter' = Cold /\ evictions' = evictions + 1 /\ evictions \in Nat
        /\ UNCHANGED <<ledger, job>>
    BY DEF Evict, TypeOK
  <1>2. Untouched'
    BY <1>1 DEF Untouched
  <1>3. Losses \in Nat /\ Losses' \in Nat /\ Losses <= Losses'
    <2>1. Stale' = Workers
      BY <1>1 DEF Stale
    <2>2. Losses' = (evictions + 1) * Threads - Threads
      BY <1>1, <2>1 DEF Losses, Threads
    <2>3. Stale \in SUBSET Workers
      BY DEF Stale, Summing
    <2>4. Cardinality(Stale) \in Nat
      BY <2>3, SmallerCount, Zenon
    <2>5. Threads \in Nat /\ evictions * Threads \in Nat
          /\ (evictions + 1) * Threads = evictions * Threads + Threads
      BY <1>1, BudgetTypes
    <2>6. Losses \in Nat
      BY DEF Budgeted, Spending
    <2> QED BY <2>2, <2>4, <2>5, <2>6 DEF Losses
  <1>4. UnderWay' = UnderWay /\ Pending' = Pending
    BY <1>1 DEF UnderWay, Recording, At, Pending, Told
  <1>5. Spending'
    <2>1. Cardinality(UnderWay) \in Nat
      <3>1. UnderWay \in SUBSET Workers
        BY DEF UnderWay
      <3> QED BY <3>1, SmallerCount, Zenon
    <2>2. /\ Most * (Losses + 1) <= Most * (Losses' + 1) /\ Most * (Losses + 1) \in Nat
          /\ Most * (Losses' + 1) \in Nat /\ Dearest * Cardinality(UnderWay) \in Nat
      <3>1. /\ Most * Losses <= Most * Losses' /\ Most * Losses \in Nat /\ Most * Losses' \in Nat
            /\ Most * (Losses + 1) = Most * Losses + Most
            /\ Most * (Losses' + 1) = Most * Losses' + Most
        BY <1>3, BudgetTypes, Times
      <3> QED BY <2>1, <3>1, BudgetTypes, Times
    <2>3. ledger' + Dearest * Cardinality(UnderWay') < Most * (Losses' + 1)
      BY <1>1, <1>4, <2>2 DEF Budgeted, Spending, TypeOK
    <2> QED BY <1>3, <2>3 DEF Spending
  <1>6. Covered'
    BY <1>1, <1>4 DEF Budgeted, Covered
  <1> QED BY <1>2, <1>5, <1>6 DEF Budgeted

LEMMA HandlerBudget ==
  ASSUME TypeOK, Budgeted, NEW w \in Workers, Handler(w)
  PROVE  Budgeted'
  <1>1. /\ JobsFit' /\ HandlerMoves(w) /\ job \in [Workers -> Job] /\ Fits(job[w])
        /\ counter \in Nat \cup {Cold} /\ ledger \in Nat
    BY HandlerJobsFit, HandlerMovesItsOwn DEF TypeOK, JobsFit
  <1>2. \A v \in Workers \ {w} : job'[v] = job[v]
    BY <1>1 DEF HandlerMoves
  <1>3. /\ Summing \subseteq UnderWay
        /\ \A v \in UnderWay : ~(counter = Cold /\ evictions = 0)
        /\ \A v \in Summing : evictions # 0
    BY DEF Budgeted, Untouched, Summing, UnderWay, Recording, At
  <1>4. ASSUME UNCHANGED <<ledger, counter, evictions>>,
               job'[w].at \in {"idle", "handling", "checking", "parsing", "answered"}
        PROVE  Budgeted'
    <2>1. w \notin UnderWay' /\ ~At(w, "summing")' /\ ~At(w, "seeding")' /\ ~Told(w)'
      BY <1>4 DEF UnderWay, Recording, At, Told
    <2> QED BY <1>1, <1>2, <1>4, <2>1, QuietBudget
  <1>5. CASE AskCache(w)
    <2>1. job'[w].at \in {"checking", "answered"}
      <3>1. CASE job[w].body \in results
        BY <1>5, <3>1, ResumeFits DEF AskCache, Answer, At
      <3>2. CASE job[w].body \notin results
        BY <1>1, <1>5, <3>2 DEF AskCache, Go, Job
      <3> QED BY <3>1, <3>2
    <2> QED BY <1>4, <1>5, <2>1 DEF AskCache, money, faults
  <1>6. CASE Check(w)
    <2>1. UNCHANGED <<ledger, counter, evictions>> /\ job[w].at = "checking"
      BY <1>6 DEF Check, At, money, faults
    <2>2. CASE counter # Cold /\ Spent(counter)
      <3>1. job'[w].at = "answered"
        BY <1>6, <2>1, <2>2, ResumeFits DEF Check, Decide, Answer
      <3> QED BY <1>4, <2>1, <3>1
    <2>3. CASE counter # Cold /\ ~Spent(counter)
      <3>1. job'[w].at = "calling"
        BY <1>6, <2>1, <2>3, ResumeFits DEF Check, Decide
      <3>2. counter < Budget
        BY <1>1, <2>3, AIAssumption DEF Spent
      <3>3. At(w, "calling")' /\ ~Told(w)
        BY <2>1, <3>1 DEF At, Told
      <3> QED BY <1>1, <1>2, <2>1, <2>3, <3>2, <3>3, EnterBudget
    <2>4. CASE counter = Cold
      <3>1. job'[w].at = "seeding" /\ job'[w].sum = ledger
        BY <1>1, <1>6, <2>4 DEF Check, Job
      <3>2. /\ w \notin UnderWay' /\ ~At(w, "summing")' /\ ~Told(w)'
            /\ At(w, "seeding")' => job'[w].sum = ledger
        BY <3>1 DEF UnderWay, Recording, At, Told
      <3> QED BY <1>1, <1>2, <2>1, <3>2, QuietBudget
    <2> QED BY <2>2, <2>3, <2>4
  <1>7. CASE Seed(w)
    <2> DEFINE sum == IF counter' > job[w].sum THEN counter' ELSE job[w].sum
    <2>1. job[w].at = "seeding" /\ UNCHANGED <<ledger, evictions>> /\ counter' = Seeded(job[w].sum)
          /\ job[w].sum \in Nat /\ counter' \in Nat
      BY <1>1, <1>7 DEF Seed, Seeded, At, Job, Fits, faults
    <2>2. (Spent(sum) /\ job'[w].at = "answered") \/ (~Spent(sum) /\ job'[w].at = "calling")
      BY <1>7, <2>1, ResumeFits DEF Seed, Decide, Answer
    <2>3. ~At(w, "summing")' /\ ~Told(w)' /\ ~Told(w)
      BY <2>1, <2>2 DEF At, Told
    <2>4. CASE counter = Cold /\ evictions = 0
      BY <1>1, <1>2, <1>7, <2>2, <2>4, FirstSeedBudget
    <2>5. CASE counter = Cold /\ evictions # 0
      <3>1. w \in Stale
        BY <2>5 DEF Stale
      <3> QED BY <1>1, <1>2, <2>1, <2>3, <2>5, <3>1, RecoverBudget
    <2>6. CASE counter # Cold /\ Spent(sum)
      <3>1. UNCHANGED counter
        BY <2>1, <2>6 DEF Seeded
      <3> QED BY <1>4, <2>1, <2>2, <2>6, <3>1
    <2>7. CASE counter # Cold /\ ~Spent(sum)
      <3>1. UNCHANGED counter /\ counter \in Nat
        BY <1>1, <2>1, <2>7 DEF Seeded
      <3>2. counter < Budget
        BY <2>1, <2>7, <3>1, AIAssumption DEF Spent
      <3>3. At(w, "calling")'
        BY <2>2, <2>7 DEF At
      <3> QED BY <1>1, <1>2, <2>1, <2>3, <2>7, <3>1, <3>2, <3>3, EnterBudget
    <2> QED BY <2>4, <2>5, <2>6, <2>7
  <1>8. CASE Fail(w)
    <2>1. job'[w].at = "answered"
      BY <1>8, ResumeFits DEF Fail, Answer, At
    <2> QED BY <1>4, <1>8, <2>1 DEF Fail, money, faults
  <1>9. ASSUME UNCHANGED <<ledger, counter, evictions>>, w \in UnderWay,
               job'[w].at \in {"recording", "counting"}
        PROVE  Budgeted'
    <2>1. ~At(w, "summing")' /\ ~At(w, "seeding")' /\ ~Told(w)'
      BY <1>9 DEF At, Told
    <2> QED BY <1>1, <1>2, <1>9, <2>1, QuietBudget
  <1>10. CASE Call(w)
    <2>1. w \in UnderWay /\ UNCHANGED <<ledger, counter, evictions>>
      BY <1>10 DEF Call, UnderWay, money, faults
    <2>2. job'[w].at \in {"recording", "parsing"}
      <3>1. CASE Resume(w, "parsing", FALSE)
        BY <1>10, <3>1, ResumeFits DEF Call, At
      <3>2. CASE ~Resume(w, "parsing", FALSE)
        BY <1>1, <1>10, <3>2 DEF Call, Job
      <3> QED BY <3>1, <3>2
    <2> QED BY <1>4, <1>9, <2>1, <2>2
  <1>11. CASE ReadCounter(w)
    <2>1. w \in UnderWay /\ UNCHANGED <<ledger, counter, evictions>>
      BY <1>11 DEF ReadCounter, UnderWay, Recording, At, money, faults
    <2>2. CASE counter # Cold
      <3>1. job'[w].at = "counting"
        BY <1>1, <1>11, <2>2 DEF ReadCounter, Job
      <3> QED BY <1>9, <2>1, <3>1
    <2>3. CASE counter = Cold
      <3>1. job'[w].at = "summing"
        BY <1>1, <1>11, <2>3 DEF ReadCounter, Job
      <3>2. ~At(w, "seeding")' /\ ~Told(w)'
        BY <3>1 DEF At, Told
      <3> QED BY <1>1, <1>2, <2>1, <2>3, <3>2, QuietBudget
    <2> QED BY <2>2, <2>3
  <1>12. CASE SetCounter(w)
    <2>1. /\ job[w].at = "summing" /\ job[w].sum \in Nat /\ counter' = job[w].sum
          /\ UNCHANGED <<ledger, evictions>> /\ job'[w].at = "alerting"
      BY <1>1, <1>12 DEF SetCounter, Go, At, Job, Fits, faults
    <2>2. w \in Summing /\ w \in UnderWay /\ ~At(w, "summing")'
      BY <2>1 DEF Summing, UnderWay, Recording, At
    <2>3. evictions # 0
      BY <1>3, <2>2
    <2>4. w \in Stale
      BY <2>2, <2>3 DEF Stale
    <2> QED BY <1>1, <1>2, <2>1, <2>2, <2>3, <2>4, RecoverBudget
  <1>13. CASE Increment(w)
    <2>1. CASE counter # Cold
      BY <1>1, <1>2, <1>13, <2>1, IncrementBudget
    <2>2. CASE counter = Cold
      <3>1. /\ job[w].at = "counting" /\ job[w].cost \in Nat /\ counter' = job[w].cost
            /\ UNCHANGED <<ledger, evictions>> /\ job'[w].at = "alerting"
        BY <1>1, <1>13, <2>2 DEF Increment, Counted, At, Job, Fits, faults
      <3>2. w \in UnderWay /\ ~At(w, "summing")'
        BY <3>1 DEF UnderWay, Recording, At
      <3>3. evictions # 0
        BY <1>3, <2>2, <3>2
      <3>4. w \in Stale
        BY <2>2, <3>3 DEF Stale
      <3> QED BY <1>1, <1>2, <3>1, <3>2, <3>3, <3>4, RecoverBudget
    <2> QED BY <2>1, <2>2
  <1>14. CASE TakeAlerts(w)
    <2>1. /\ job[w].at = "alerting" /\ UNCHANGED <<ledger, counter, evictions>>
          /\ job'[w].at = "committing" /\ job'[w].cost = job[w].cost
      BY <1>1, <1>14 DEF TakeAlerts, At, Job, faults
    <2>2. /\ w \in UnderWay /\ Told(w) /\ ~At(w, "summing")' /\ ~At(w, "seeding")'
      BY <2>1 DEF UnderWay, Recording, At, Told
    <2> QED BY <1>1, <1>2, <2>1, <2>2, QuietBudget
  <1>15. CASE Commit(w)
    BY <1>1, <1>2, <1>15, CommitBudget
  <1>16. CASE RollBack(w)
    <2>1. job'[w].at \in {"parsing", "idle"}
      BY <1>1, <1>16, ResumeFits, IdleFits DEF RollBack, Recording, Leave
    <2> QED BY <1>4, <1>16, <2>1 DEF RollBack, money
  <1>17. CASE Parse(w)
    <2>1. job'[w].at = "answered"
      BY <1>17, ResumeFits DEF Parse, Answer, At
    <2> QED BY <1>4, <1>17, <2>1 DEF Parse, money, faults
  <1> QED BY <1>5, <1>6, <1>7, <1>8, <1>10, <1>11, <1>12, <1>13, <1>14, <1>15, <1>16, <1>17
          DEF Handler

(* The middleware and a dying server stay clear of the money.              *)
LEMMA OutsideBudget ==
  ASSUME TypeOK, Budgeted, NEW w \in Workers, UNCHANGED <<money, results, faults>>,
         Middleware(w) \/ Die(w)
  PROVE  Budgeted'
  <1>1. job \in [Workers -> Job] /\ Fits(job[w]) /\ UNCHANGED <<ledger, counter, evictions>>
    BY DEF TypeOK, JobsFit, money, faults
  <1>2. JobsFit'
    BY MiddlewareTypes, LeaveFits DEF Die, TypeOK
  <1>3. \A v \in Workers \ {w} : job'[v] = job[v]
    <2>1. \E j : job' = [job EXCEPT ![w] = j]
      BY DEF Middleware, Arrive, Miss, Replay, Acquire, Conflict, Respond, Release, Die, Leave, Go
    <2> QED BY <1>1, <2>1
  <1>4. job'[w].at \in {"idle", "arrived", "looked", "handling", "release"}
    <2>1. ASSUME Leave(w) PROVE job'[w].at = "idle"
      BY <1>1, <2>1, IdleFits DEF Leave
    <2>2. CASE Arrive(w)
      BY <1>1, <2>2 DEF Arrive, IdleJob
    <2>3. CASE Miss(w) \/ Acquire(w)
      BY <1>1, <2>3 DEF Miss, Acquire, Go, Job
    <2>4. CASE Replay(w) \/ Conflict(w) \/ Release(w) \/ Die(w)
      BY <2>1, <2>4 DEF Replay, Conflict, Release, Die
    <2>5. CASE Respond(w)
      BY <1>1, <2>1, <2>5 DEF Respond, Go, Job
    <2> QED BY <2>2, <2>3, <2>4, <2>5 DEF Middleware
  <1>5. w \notin UnderWay' /\ ~At(w, "summing")' /\ ~At(w, "seeding")' /\ ~Told(w)'
    BY <1>4 DEF UnderWay, Recording, At, Told
  <1> QED BY <1>1, <1>2, <1>3, <1>5, QuietBudget

LEMMA BudgetStep == TypeOK /\ Budgeted /\ [Next]_vars => Budgeted'
  <1> SUFFICES ASSUME TypeOK, Budgeted, [Next]_vars PROVE Budgeted'
    OBVIOUS
  <1>1. ASSUME NEW k \in Keys, Expire(k), UNCHANGED <<money, results, faults>> PROVE Budgeted'
    BY <1>1, SameBudget DEF Expire, money, faults
  <1>2. CASE UNCHANGED vars
    BY <1>2, SameBudget DEF vars
  <1> QED BY <1>1, <1>2, HandlerBudget, OutsideBudget, EvictBudget DEF Next

LEMMA InitBudget == Init => Budgeted
  <1> SUFFICES ASSUME Init PROVE Budgeted
    OBVIOUS
  <1>1. ledger = 0 /\ counter = Cold /\ evictions = 0 /\ \A w \in Workers : job[w].at = "idle"
    BY IdleFits DEF Init, InitMiddleware
  <1>2. Stale = {} /\ UnderWay = {} /\ Summing = {}
    BY <1>1 DEF Stale, UnderWay, Recording, Summing, At
  <1>3. Cardinality({}) = 0 /\ Threads \in Nat
    BY FS_EmptySet, BudgetTypes
  <1>4. Losses = 0
    BY <1>1, <1>2, <1>3 DEF Losses
  <1>5. Spending
    BY <1>1, <1>2, <1>3, <1>4, BudgetTypes DEF Spending
  <1>6. \A w \in Workers : Pending[w] = 0
    BY <1>1 DEF Pending, Told
  <1>7. Pending \in Amounts
    BY <1>6, BudgetTypes DEF Pending, Amounts
  <1>8. Covered
    BY <1>1, <1>6, <1>7, NothingSums DEF Covered
  <1>9. Untouched
    BY <1>1, <1>2 DEF Untouched, At
  <1> QED BY <1>5, <1>8, <1>9 DEF Budgeted

(* An organization exceeds its budget by one call for each thread, and by  *)
(* as much as the budget and that again for each thread that was at work   *)
(* when the cache lost the counter: a counter that is there covers the     *)
(* ledger and every call on its way into it.                               *)
THEOREM OvershootStaysBounded == Spec => []OvershootBounded
  <1>1. TypeOK /\ Budgeted => OvershootBounded
    <2> SUFFICES ASSUME TypeOK, Budgeted PROVE OvershootBounded
      OBVIOUS
    <2>1. Cardinality(UnderWay) \in Nat /\ Cardinality(Stale) \in Nat
      <3>1. UnderWay \in SUBSET Workers /\ Stale \in SUBSET Workers
        BY DEF UnderWay, Stale, Summing
      <3> QED BY <3>1, SmallerCount, Zenon
    <2>2. evictions * Threads \in Nat /\ Losses \in Nat /\ Losses <= evictions * Threads
      BY <2>1, BudgetTypes DEF Losses, TypeOK, Budgeted, Spending
    <2>3. /\ Most * (Losses + 1) <= Most * (evictions * Threads + 1)
          /\ Most * (Losses + 1) \in Nat /\ Most * (evictions * Threads + 1) \in Nat
      <3>1. /\ Most * Losses <= Most * (evictions * Threads)
            /\ Most * Losses \in Nat /\ Most * (evictions * Threads) \in Nat
            /\ Most * (Losses + 1) = Most * Losses + Most
            /\ Most * (evictions * Threads + 1) = Most * (evictions * Threads) + Most
        BY <2>2, BudgetTypes, Times
      <3> QED BY <3>1, BudgetTypes
    <2>4. Dearest * Cardinality(UnderWay) \in Nat
      BY <2>1, BudgetTypes, Times
    <2>5. ledger < Most * (evictions * Threads + 1)
      BY <2>3, <2>4 DEF Budgeted, Spending, TypeOK
    <2>6. Most * (evictions * Threads + 1) = (1 + evictions * Threads) * Most
      BY <2>2, BudgetTypes
    <2> QED BY <2>5, <2>6 DEF OvershootBounded, Most, Threads
  <1> QED BY <1>1, InitTypes, StepTypes, InitBudget, BudgetStep, PTL DEF Spec

-------------------------------------------------------------------------------
(* The alerts                                                              *)

(* The transaction that has the alert and has not committed.               *)
Holds(w, kind) == At(w, "committing") /\ kind \in job[w].alerts

RaisedOnce ==
    \A kind \in Kinds :
        /\ alerts[kind] <= 1
        /\ kind \notin raised => alerts[kind] = 0 /\ \A w \in Workers : ~Holds(w, kind)
        /\ \A w \in Workers : Holds(w, kind) =>
             alerts[kind] = 0 /\ \A v \in Workers : Holds(v, kind) => v = w

Beyond(kind) == counter # Cold /\ counter >= Level[kind]

Raising(w, kind) == At(w, "alerting") /\ job[w].sum >= Level[kind]

(* Without faults a level that the counter reached is noticed by a call.   *)
Noticed ==
    evictions + rollbacks = 0 =>
        \A kind \in Kinds :
            /\ Beyond(kind) => kind \in raised \/ \E w \in Workers : Raising(w, kind)
            /\ kind \in raised => alerts[kind] = 1 \/ \E w \in Workers : Holds(w, kind)

LEMMA LevelType == \A kind \in Kinds : Level[kind] \in Nat \ {0}
  BY AIAssumption DEF Level, Kinds

(* A step that has no alert before and afterwards.                         *)
LEMMA QuietAlerts ==
  ASSUME TypeOK, RaisedOnce, Noticed, NEW w \in Workers,
         \A v \in Workers \ {w} : job'[v] = job[v],
         UNCHANGED <<raised, alerts, evictions, rollbacks>>,
         ~At(w, "alerting"), ~At(w, "committing"), ~At(w, "committing")',
         evictions = 0 => \A kind \in Kinds : Beyond(kind)' => Beyond(kind) \/ Raising(w, kind)'
  PROVE  RaisedOnce' /\ Noticed'
  <1>1. \A v \in Workers, kind \in Kinds : Holds(v, kind)' <=> Holds(v, kind)
    BY DEF Holds, At
  <1>2. \A v \in Workers, kind \in Kinds : Raising(v, kind) => Raising(v, kind)'
    BY DEF Raising, At
  <1>3. RaisedOnce'
    BY <1>1 DEF RaisedOnce
  <1>4. ASSUME evictions + rollbacks = 0, NEW kind \in Kinds
        PROVE  /\ Beyond(kind)' => kind \in raised' \/ \E v \in Workers : Raising(v, kind)'
               /\ kind \in raised' => alerts'[kind] = 1 \/ \E v \in Workers : Holds(v, kind)'
    <2>1. evictions = 0
      BY <1>4 DEF TypeOK
    <2> QED BY <1>1, <1>2, <1>4, <2>1 DEF Noticed
  <1>5. Noticed'
    BY <1>4 DEF Noticed
  <1> QED BY <1>3, <1>5

LEMMA SameAlerts ==
  ASSUME RaisedOnce, Noticed, UNCHANGED <<counter, raised, alerts, evictions, rollbacks, job>>
  PROVE  RaisedOnce' /\ Noticed'
  BY DEF RaisedOnce, Noticed, Holds, Raising, Beyond, At

LEMMA EvictAlerts ==
  ASSUME TypeOK, RaisedOnce, Evict
  PROVE  RaisedOnce' /\ Noticed'
  <1>1. RaisedOnce'
    BY DEF Evict, RaisedOnce, Holds, At
  <1>2. evictions' + rollbacks' # 0
    BY DEF Evict, TypeOK
  <1> QED BY <1>1, <1>2 DEF Noticed

LEMMA TakeAlertsAlerts ==
  ASSUME TypeOK, RaisedOnce, Noticed, NEW w \in Workers, TakeAlerts(w),
         \A v \in Workers \ {w} : job'[v] = job[v]
  PROVE  RaisedOnce' /\ Noticed'
  <1>1. /\ job[w].at = "alerting" /\ job'[w].at = "committing" /\ job'[w].alerts = Reached(w)
        /\ raised' = raised \cup Reached(w)
        /\ UNCHANGED <<counter, alerts, evictions, rollbacks>>
    BY DEF TakeAlerts, At, TypeOK, JobsFit, Job, faults
  <1>2. \A kind \in Kinds : Holds(w, kind)' <=> kind \in Reached(w)
    BY <1>1 DEF Holds, At
  <1>3. \A v \in Workers \ {w}, kind \in Kinds : Holds(v, kind)' <=> Holds(v, kind)
    BY DEF Holds, At
  <1>4. \A kind \in Kinds : ~Holds(w, kind)
    BY <1>1 DEF Holds, At
  <1>5. \A kind \in Reached(w) : kind \notin raised
    BY DEF Reached
  <1>6. RaisedOnce'
    <2> SUFFICES ASSUME NEW kind \in Kinds
                 PROVE  /\ alerts'[kind] <= 1
                        /\ kind \notin raised' =>
                             alerts'[kind] = 0 /\ \A v \in Workers : ~Holds(v, kind)'
                        /\ \A v \in Workers : Holds(v, kind)' =>
                             alerts'[kind] = 0 /\ \A u \in Workers : Holds(u, kind)' => u = v
      BY DEF RaisedOnce
    <2>1. CASE kind \in Reached(w)
      <3>1. alerts[kind] = 0 /\ \A v \in Workers : ~Holds(v, kind)
        BY <1>5, <2>1 DEF RaisedOnce
      <3> QED BY <1>1, <1>3, <2>1, <3>1
    <2>2. CASE kind \notin Reached(w)
      <3>1. \A v \in Workers : Holds(v, kind)' <=> Holds(v, kind)
        BY <1>2, <1>3, <1>4, <2>2
      <3> QED BY <1>1, <2>2, <3>1 DEF RaisedOnce
    <2> QED BY <2>1, <2>2
  <1>7. ASSUME evictions + rollbacks = 0, NEW kind \in Kinds
        PROVE  /\ Beyond(kind)' => kind \in raised' \/ \E v \in Workers : Raising(v, kind)'
               /\ kind \in raised' => alerts'[kind] = 1 \/ \E v \in Workers : Holds(v, kind)'
    <2>1. Beyond(kind)' => kind \in raised \/ \E v \in Workers : Raising(v, kind)
      BY <1>1, <1>7 DEF Noticed, Beyond
    <2>2. Raising(w, kind) => kind \in raised'
      BY <1>1 DEF Raising, Reached
    <2>3. \A v \in Workers \ {w} : Raising(v, kind)' <=> Raising(v, kind)
      BY DEF Raising, At
    <2>4. kind \in raised' => alerts'[kind] = 1 \/ \E v \in Workers : Holds(v, kind)'
      BY <1>1, <1>2, <1>3, <1>4, <1>7 DEF Noticed
    <2> QED BY <1>1, <2>1, <2>2, <2>3, <2>4
  <1>8. Noticed'
    BY <1>1, <1>7 DEF Noticed
  <1> QED BY <1>6, <1>8

LEMMA CommitAlerts ==
  ASSUME TypeOK, RaisedOnce, Noticed, NEW w \in Workers, Commit(w),
         \A v \in Workers \ {w} : job'[v] = job[v]
  PROVE  RaisedOnce' /\ Noticed'
  <1>1. /\ job[w].at = "committing" /\ job'[w].at = "parsing"
        /\ UNCHANGED <<counter, raised, evictions, rollbacks>>
        /\ \A kind \in Kinds : alerts'[kind] = IF kind \in job[w].alerts THEN alerts[kind] + 1
                                               ELSE alerts[kind]
    BY ResumeFits DEF Commit, At, faults
  <1>2. \A kind \in Kinds : ~Holds(w, kind)' /\ (Holds(w, kind) <=> kind \in job[w].alerts)
    BY <1>1 DEF Holds, At
  <1>3. \A v \in Workers \ {w}, kind \in Kinds : Holds(v, kind)' <=> Holds(v, kind)
    BY DEF Holds, At
  <1>4. RaisedOnce'
    <2> SUFFICES ASSUME NEW kind \in Kinds
                 PROVE  /\ alerts'[kind] <= 1
                        /\ kind \notin raised' =>
                             alerts'[kind] = 0 /\ \A v \in Workers : ~Holds(v, kind)'
                        /\ \A v \in Workers : Holds(v, kind)' =>
                             alerts'[kind] = 0 /\ \A u \in Workers : Holds(u, kind)' => u = v
      BY DEF RaisedOnce
    <2>1. CASE Holds(w, kind)
      <3>1. /\ alerts[kind] = 0 /\ kind \in raised
            /\ \A v \in Workers : Holds(v, kind) => v = w
        BY <2>1 DEF RaisedOnce
      <3>2. alerts'[kind] = 1 /\ \A v \in Workers : ~Holds(v, kind)'
        BY <1>1, <1>2, <1>3, <2>1, <3>1
      <3> QED BY <1>1, <3>1, <3>2
    <2>2. CASE ~Holds(w, kind)
      <3>1. alerts'[kind] = alerts[kind] /\ \A v \in Workers : Holds(v, kind)' <=> Holds(v, kind)
        BY <1>1, <1>2, <1>3, <2>2
      <3> QED BY <1>1, <3>1 DEF RaisedOnce
    <2> QED BY <2>1, <2>2
  <1>5. ASSUME evictions + rollbacks = 0, NEW kind \in Kinds
        PROVE  /\ Beyond(kind)' => kind \in raised' \/ \E v \in Workers : Raising(v, kind)'
               /\ kind \in raised' => alerts'[kind] = 1 \/ \E v \in Workers : Holds(v, kind)'
    <2>1. \A v \in Workers : Raising(v, kind) => v # w /\ Raising(v, kind)'
      BY <1>1 DEF Raising, At
    <2>2. Beyond(kind)' => kind \in raised' \/ \E v \in Workers : Raising(v, kind)'
      BY <1>1, <1>5, <2>1 DEF Noticed, Beyond
    <2>3. CASE Holds(w, kind)
      <3>1. alerts'[kind] = 1
        BY <1>1, <1>2, <2>3 DEF RaisedOnce
      <3> QED BY <2>2, <3>1
    <2>4. CASE ~Holds(w, kind)
      <3>1. alerts'[kind] = alerts[kind] /\ \A v \in Workers : Holds(v, kind)' <=> Holds(v, kind)
        BY <1>1, <1>2, <1>3, <2>4
      <3> QED BY <1>1, <1>5, <2>2, <3>1 DEF Noticed
    <2> QED BY <2>3, <2>4
  <1>6. Noticed'
    BY <1>1, <1>5 DEF Noticed
  <1> QED BY <1>4, <1>6

LEMMA RollBackAlerts ==
  ASSUME TypeOK, RaisedOnce, NEW w \in Workers, RollBack(w),
         \A v \in Workers \ {w} : job'[v] = job[v]
  PROVE  RaisedOnce' /\ Noticed'
  <1>1. /\ job'[w].at \in {"parsing", "idle"} /\ UNCHANGED <<raised, alerts>>
        /\ evictions' + rollbacks' # 0
    <2>1. job'[w].at \in {"parsing", "idle"}
      <3>1. job[w].at # "idle"
        BY DEF RollBack, Recording
      <3>2. CASE Resume(w, "parsing", FALSE)
        BY <3>1, <3>2, ResumeFits
      <3>3. CASE Leave(w)
        BY <3>3, IdleFits DEF Leave, TypeOK, JobsFit
      <3> QED BY <3>2, <3>3 DEF RollBack
    <2>2. rollbacks' = rollbacks + 1 /\ evictions' = evictions /\ UNCHANGED <<raised, alerts>>
      BY DEF RollBack, money
    <2> QED BY <2>1, <2>2 DEF TypeOK
  <1>2. \A v \in Workers, kind \in Kinds : Holds(v, kind)' => Holds(v, kind)
    BY <1>1 DEF Holds, At
  <1>3. RaisedOnce'
    BY <1>1, <1>2 DEF RaisedOnce
  <1> QED BY <1>1, <1>3 DEF Noticed

LEMMA HandlerAlerts ==
  ASSUME TypeOK, Budgeted, RaisedOnce, Noticed, NEW w \in Workers, Handler(w)
  PROVE  RaisedOnce' /\ Noticed'
  <1>1. /\ HandlerMoves(w) /\ job \in [Workers -> Job] /\ Fits(job[w])
        /\ \A v \in Workers \ {w} : job'[v] = job[v]
        /\ counter \in Nat \cup {Cold} /\ ledger \in Nat
    BY HandlerMovesItsOwn DEF TypeOK, JobsFit, HandlerMoves
  <1>2. CASE AskCache(w) \/ Check(w) \/ Fail(w) \/ Call(w) \/ ReadCounter(w) \/ Parse(w)
    <2>1. /\ UNCHANGED <<counter, raised, alerts, evictions, rollbacks>>
          /\ ~At(w, "alerting") /\ ~At(w, "committing")
      BY <1>2 DEF AskCache, Check, Fail, Call, ReadCounter, Parse, At, money, faults
    <2>2. ~At(w, "committing")'
      <3>1. ASSUME NEW ok \in BOOLEAN, NEW step \in {"calling", "parsing", "answered"},
                   Resume(w, step, ok)
            PROVE  job'[w].at # "committing"
        <4>1. job[w].at # "idle"
          BY <1>1 DEF HandlerMoves, HandlerSteps, RecordingSteps
        <4> QED BY <3>1, <4>1, ResumeFits
      <3>2. CASE AskCache(w)
        BY <1>1, <3>1, <3>2 DEF AskCache, Answer, Go, At, Job
      <3>3. CASE Check(w)
        BY <1>1, <3>1, <3>3 DEF Check, Decide, Answer, At, Job
      <3>4. CASE Fail(w)
        BY <3>1, <3>4 DEF Fail, Answer, At
      <3>5. CASE Call(w)
        BY <1>1, <3>1, <3>5 DEF Call, At, Job
      <3>6. CASE ReadCounter(w)
        BY <1>1, <3>6 DEF ReadCounter, At, Job
      <3>7. CASE Parse(w)
        BY <3>1, <3>7 DEF Parse, Answer, At
      <3> QED BY <1>2, <3>2, <3>3, <3>4, <3>5, <3>6, <3>7
    <2>3. \A kind \in Kinds : Beyond(kind)' => Beyond(kind)
      BY <2>1 DEF Beyond
    <2> QED BY <1>1, <2>1, <2>2, <2>3, QuietAlerts
  <1>3. CASE Seed(w)
    <2>1. /\ job[w].at = "seeding" /\ counter' = Seeded(job[w].sum)
          /\ UNCHANGED <<raised, alerts, evictions, rollbacks>>
      BY <1>3 DEF Seed, At, faults
    <2>2. job'[w].at \in {"calling", "answered"}
      BY <1>3, <2>1, ResumeFits DEF Seed, Decide, Answer
    <2>3. ASSUME evictions = 0, NEW kind \in Kinds, Beyond(kind)' PROVE Beyond(kind)
      <3>1. counter = Cold => counter' = 0
        BY <2>1, <2>3 DEF Seeded, Budgeted, Untouched, At
      <3>2. counter # Cold
        BY <2>3, <3>1, LevelType DEF Beyond
      <3> QED BY <2>1, <2>3, <3>2 DEF Seeded, Beyond
    <2>4. ~At(w, "alerting") /\ ~At(w, "committing") /\ ~At(w, "committing")'
      BY <2>1, <2>2 DEF At
    <2> QED BY <1>1, <2>1, <2>3, <2>4, QuietAlerts
  <1>4. CASE SetCounter(w)
    <2>1. /\ job[w].at = "summing" /\ job'[w].at = "alerting"
          /\ UNCHANGED <<raised, alerts, evictions, rollbacks>>
      BY <1>1, <1>4 DEF SetCounter, Go, At, Job, faults
    <2>2. evictions # 0
      BY <2>1 DEF Budgeted, Untouched, Summing, At
    <2>3. ~At(w, "alerting") /\ ~At(w, "committing") /\ ~At(w, "committing")'
      BY <2>1 DEF At
    <2> QED BY <1>1, <2>1, <2>2, <2>3, QuietAlerts
  <1>5. CASE Increment(w)
    <2>1. /\ job[w].at = "counting" /\ job'[w].at = "alerting" /\ job'[w].sum = counter'
          /\ UNCHANGED <<raised, alerts, evictions, rollbacks>>
      BY <1>1, <1>5 DEF Increment, At, Job, faults
    <2>2. ~At(w, "alerting") /\ ~At(w, "committing") /\ ~At(w, "committing")'
      BY <2>1 DEF At
    <2>3. \A kind \in Kinds : Beyond(kind)' => Raising(w, kind)'
      BY <2>1 DEF Beyond, Raising, At
    <2> QED BY <1>1, <2>1, <2>2, <2>3, QuietAlerts
  <1> QED BY <1>1, <1>2, <1>3, <1>4, <1>5, TakeAlertsAlerts, CommitAlerts, RollBackAlerts
          DEF Handler

LEMMA OutsideAlerts ==
  ASSUME TypeOK, RaisedOnce, Noticed, NEW w \in Workers, UNCHANGED <<money, results, faults>>,
         Middleware(w) \/ (~Recording(w) /\ Die(w))
  PROVE  RaisedOnce' /\ Noticed'
  <1>1. job \in [Workers -> Job]
        /\ UNCHANGED <<counter, raised, alerts, evictions, rollbacks>>
    BY DEF TypeOK, JobsFit, money, faults
  <1>2. \A v \in Workers \ {w} : job'[v] = job[v]
    <2>1. \E j : job' = [job EXCEPT ![w] = j]
      BY DEF Middleware, Arrive, Miss, Replay, Acquire, Conflict, Respond, Release, Die, Leave, Go
    <2> QED BY <1>1, <2>1
  <1>3. ~At(w, "alerting") /\ ~At(w, "committing")
    BY DEF Middleware, Arrive, Miss, Replay, Acquire, Conflict, Respond, Release, Recording, At
  <1>4. ~At(w, "committing")'
    <2>1. ASSUME Leave(w) PROVE job'[w].at = "idle"
      BY <1>1, <2>1, IdleFits DEF Leave
    <2>2. CASE Arrive(w)
      BY <1>1, <2>2 DEF Arrive, IdleJob, At
    <2>3. CASE Miss(w) \/ Acquire(w)
      BY <1>1, <2>3 DEF Miss, Acquire, Go, At, Job
    <2>4. CASE Replay(w) \/ Conflict(w) \/ Release(w) \/ Die(w)
      BY <2>1, <2>4 DEF Replay, Conflict, Release, Die, At
    <2>5. CASE Respond(w)
      BY <1>1, <2>1, <2>5 DEF Respond, Go, At, Job
    <2> QED BY <2>2, <2>3, <2>4, <2>5 DEF Middleware
  <1>5. \A kind \in Kinds : Beyond(kind)' => Beyond(kind)
    BY <1>1 DEF Beyond
  <1> QED BY <1>1, <1>2, <1>3, <1>4, <1>5, QuietAlerts

LEMMA AlertsStep ==
  TypeOK /\ Budgeted /\ RaisedOnce /\ Noticed /\ [Next]_vars => RaisedOnce' /\ Noticed'
  <1> SUFFICES ASSUME TypeOK, Budgeted, RaisedOnce, Noticed, [Next]_vars
               PROVE  RaisedOnce' /\ Noticed'
    OBVIOUS
  <1>1. ASSUME NEW k \in Keys, Expire(k), UNCHANGED <<money, results, faults>>
        PROVE  RaisedOnce' /\ Noticed'
    BY <1>1, SameAlerts DEF Expire, money, faults
  <1>2. CASE UNCHANGED vars
    BY <1>2, SameAlerts DEF vars
  <1> QED BY <1>1, <1>2, HandlerAlerts, OutsideAlerts, EvictAlerts DEF Next

(* No alert is sent twice, whatever fails: the kind is raised in the cache *)
(* before its row is written, by one transaction.  And none is missed when *)
(* nothing fails: some call has carried the counter over the level, and    *)
(* the counter is never behind the ledger.                                 *)
THEOREM AlertsOnceAndAlways == Spec => []AlertsAreRaisedOnce
  <1>1. Init => RaisedOnce /\ Noticed
    BY IdleFits DEF Init, InitMiddleware, RaisedOnce, Noticed, Holds, Beyond, At
  <1>2. TypeOK /\ Budgeted /\ RaisedOnce /\ Noticed => AlertsAreRaisedOnce
    <2> SUFFICES ASSUME TypeOK, Budgeted, RaisedOnce, Noticed, NEW kind \in Kinds
                 PROVE  /\ alerts[kind] <= 1
                        /\ evictions + rollbacks = 0 /\ ledger >= Level[kind]
                           /\ ~(\E w \in Workers : Recording(w)) => alerts[kind] = 1
      BY DEF AlertsAreRaisedOnce
    <2> SUFFICES ASSUME evictions + rollbacks = 0, ledger >= Level[kind],
                        ~(\E w \in Workers : Recording(w))
                 PROVE  alerts[kind] = 1
      BY DEF RaisedOnce
    <2>1. evictions = 0 /\ ledger \in Nat /\ Summing = {}
      BY DEF TypeOK, Budgeted, Untouched
    <2>2. counter # Cold
      BY <2>1, LevelType DEF Budgeted, Untouched
    <2>3. Losses = 0 /\ Most * Losses = 0
      <3>1. Stale = {} /\ Threads \in Nat
        BY <2>1, <2>2, BudgetTypes DEF Stale
      <3>2. Cardinality(Stale) = 0 /\ evictions * Threads = 0
        BY <2>1, <3>1, FS_EmptySet
      <3> QED BY <3>2, BudgetTypes DEF Losses
    <2>4. PICK total \in Nat : ledger + total <= counter + Most * Losses
      BY <2>2 DEF Budgeted, Covered
    <2>5. Beyond(kind)
      BY <2>1, <2>2, <2>3, <2>4, LevelType DEF Beyond, TypeOK
    <2>6. \A w \in Workers : ~Raising(w, kind) /\ ~Holds(w, kind)
      BY DEF Raising, Holds, Recording, At
    <2> QED BY <2>5, <2>6 DEF Noticed
  <1> QED BY <1>1, <1>2, InitTypes, StepTypes, InitBudget, BudgetStep, AlertsStep, PTL DEF Spec
===============================================================================
