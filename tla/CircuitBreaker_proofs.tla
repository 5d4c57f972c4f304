------------------------- MODULE CircuitBreaker_proofs ------------------------
(***************************************************************************)
(* Type correctness of the circuit breaker, and its single probes, for any *)
(* number of processes and threads, any threshold and any timeouts.        *)
(***************************************************************************)
EXTENDS CircuitBreaker, TLAPS

LEMMA NewTypes == NoCall \in Call /\ NewLocal \in Local
  BY BreakerAssumption DEF NoCall, Call, NewLocal, Local

LEMMA CallFields ==
  ASSUME TypeOK, NEW c \in Calls
  PROVE  /\ call[c] \in Call
         /\ call[c].phase \in {"idle", "asked", "running", "clear", "unlock", "count", "reopen"}
         /\ call[c].probe \in {"none", "shared", "local"}
         /\ call[c].age \in 0..RecoveryTimeout
  BY DEF TypeOK, Call

LEMMA LocalFields ==
  ASSUME TypeOK, NEW p \in Processes
  PROVE  /\ local[p] \in Local
         /\ local[p].state \in {"closed", "open", "half_open"}
         /\ local[p].failures \in 0..Threshold
         /\ local[p].since \in 0..RecoveryTimeout
         /\ local[p].probing \in BOOLEAN
  BY DEF TypeOK, Local

LEMMA ProcessType == ASSUME NEW c \in Calls PROVE ProcessOf[c] \in Processes
  BY BreakerAssumption

(* What the two ways of moving a call on do to its record.                 *)
LEMMA BeginEffect ==
  ASSUME TypeOK, NEW c \in Calls, NEW phase, NEW probe, Begin(c, phase, probe)
  PROVE  /\ call'[c].phase = phase /\ call'[c].probe = probe /\ call'[c].age = 0
         /\ \A d \in Calls \ {c} : call'[d] = call[d]
<1>1. call'[c] = [phase |-> phase, probe |-> probe, age |-> 0]
  BY DEF Begin, TypeOK
<1>2. \A d \in Calls \ {c} : call'[d] = call[d]
  BY DEF Begin, TypeOK
<1> QED BY <1>1, <1>2

LEMMA ProceedEffect ==
  ASSUME TypeOK, NEW c \in Calls, NEW phase, Proceed(c, phase)
  PROVE  /\ call'[c].phase = phase
         /\ phase # "idle" => /\ call'[c].age = call[c].age
                              /\ call'[c].probe = call[c].probe
         /\ \A d \in Calls \ {c} : call'[d] = call[d]
<1>1. \A d \in Calls \ {c} : call'[d] = call[d]
  BY DEF Proceed, TypeOK
<1>2. CASE phase = "idle"
  <2>1. call'[c] = NoCall
    BY <1>2 DEF Proceed, TypeOK
  <2> QED BY <1>1, <1>2, <2>1 DEF NoCall
<1>3. CASE phase # "idle"
  <2>1. call'[c] = [call[c] EXCEPT !.phase = phase]
    BY <1>3 DEF Proceed, TypeOK
  <2> QED BY <1>1, <1>3, <2>1, CallFields DEF Call
<1> QED BY <1>2, <1>3

LEMMA BeginType ==
  ASSUME TypeOK, NEW c \in Calls,
         NEW phase \in {"asked", "running", "clear"}, NEW probe \in {"none", "shared", "local"},
         Begin(c, phase, probe)
  PROVE  call' \in [Calls -> Call]
<1>1. [phase |-> phase, probe |-> probe, age |-> 0] \in Call
  BY BreakerAssumption DEF Call
<1> QED BY <1>1 DEF Begin, TypeOK

LEMMA ProceedType ==
  ASSUME TypeOK, NEW c \in Calls,
         NEW phase \in {"idle", "running", "clear", "unlock", "count", "reopen"},
         Proceed(c, phase)
  PROVE  call' \in [Calls -> Call]
<1>1. [call[c] EXCEPT !.phase = phase] \in Call
  BY CallFields DEF Call
<1> QED BY <1>1, NewTypes DEF Proceed, TypeOK

LEMMA AtMostType ==
  ASSUME NEW n \in Nat, NEW bound \in Nat
  PROVE  AtMost(n, bound) \in 0..bound
  BY DEF AtMost

LEMMA ExpiringType ==
  ASSUME NEW bound \in Nat, NEW left \in 0..bound
  PROVE  Expiring(left) \in 0..bound
  BY DEF Expiring

LEMMA ClosedType ==
  ASSUME NEW l \in Local
  PROVE  [l EXCEPT !.state = "closed", !.failures = 0, !.probing = FALSE] \in Local
<1>1. ASSUME NEW k \in Local PROVE [k EXCEPT !.state = "closed"] \in Local
  BY DEF Local
<1>2. ASSUME NEW k \in Local PROVE [k EXCEPT !.failures = 0] \in Local
  BY BreakerAssumption DEF Local
<1>3. ASSUME NEW k \in Local PROVE [k EXCEPT !.probing = FALSE] \in Local
  BY DEF Local
<1> QED BY <1>1, <1>2, <1>3

LEMMA RefreshedType == ASSUME NEW l \in Local PROVE Refreshed(l) \in Local
  BY DEF Refreshed, Local

-------------------------------------------------------------------------------

LEMMA TypeInit == Init => TypeOK
  BY BreakerAssumption, NewTypes DEF Init, TypeOK

LEMMA TypeNext == TypeOK /\ [Next]_vars => TypeOK'
<1> SUFFICES ASSUME TypeOK, [Next]_vars PROVE TypeOK'
  OBVIOUS
<1> USE BreakerAssumption
<1>1. ASSUME NEW c \in Calls, Enter(c) PROVE TypeOK'
  <2>1. call' \in [Calls -> Call]
    BY <1>1, BeginType DEF Enter
  <2> QED BY <1>1, <2>1 DEF Enter, shared, TypeOK
<1>2. ASSUME NEW c \in Calls, EnterLocal(c) PROVE TypeOK'
  <2> DEFINE p == ProcessOf[c]
             l == Refreshed(local[p])
             next == [l EXCEPT !.probing = @ \/ l.state = "half_open"]
  <2>1. p \in Processes /\ l \in Local
    BY LocalFields, RefreshedType
  <2> HIDE DEF p, l
  <2>2. next \in Local
    BY <2>1 DEF Local
  <2> HIDE DEF next
  <2>3. local' = [local EXCEPT ![p] = next]
    BY <1>2 DEF EnterLocal, p, l, next
  <2>4. call' \in [Calls -> Call]
    BY <1>2, BeginType DEF EnterLocal
  <2> QED BY <1>2, <2>1, <2>2, <2>3, <2>4 DEF EnterLocal, shared, TypeOK
<1>3. ASSUME NEW c \in Calls, AcquireProbe(c) PROVE TypeOK'
  <2>1. call' \in [Calls -> Call]
    BY <1>3, ProceedType DEF AcquireProbe
  <2> QED BY <1>3, <2>1 DEF AcquireProbe, TypeOK
<1>4. ASSUME NEW c \in Calls, Succeed(c) PROVE TypeOK'
  <2>1. call' \in [Calls -> Call]
    BY <1>4, ProceedType DEF Succeed
  <2> DEFINE l == local[ProcessOf[c]]
             next == [l EXCEPT !.state = "closed", !.failures = 0, !.probing = FALSE]
  <2>2. ProcessOf[c] \in Processes /\ next \in Local
    <3>1. ProcessOf[c] \in Processes /\ l \in Local
      BY ProcessType, LocalFields
    <3> QED BY <3>1, ClosedType
  <2> HIDE DEF next
  <2>3. local' = [local EXCEPT ![ProcessOf[c]] = next]
    BY <1>4 DEF Succeed, next
  <2> QED BY <1>4, <2>1, <2>2, <2>3 DEF Succeed, shared, TypeOK
<1>5. ASSUME NEW c \in Calls, Clear(c) PROVE TypeOK'
  <2>1. call' \in [Calls -> Call]
    BY <1>5, ProceedType DEF Clear
  <2> QED BY <1>5, <2>1 DEF Clear, shared, TypeOK
<1>6. ASSUME NEW c \in Calls, Fail(c) PROVE TypeOK'
  <2>1. call' \in [Calls -> Call]
    BY <1>6, ProceedType DEF Fail
  <2> DEFINE l == local[ProcessOf[c]]
             count == AtMost(l.failures + 1, Threshold)
  <2>2. ProcessOf[c] \in Processes /\ l \in Local /\ l.failures \in 0..Threshold
        /\ l.state \in {"closed", "open", "half_open"}
    BY ProcessType, LocalFields
  <2>3. count \in 0..Threshold
    <3>1. l.failures + 1 \in Nat /\ Threshold \in Nat
      BY <2>2
    <3> HIDE DEF l
    <3> QED BY <3>1, AtMostType
  <2> HIDE DEF count
  <2>4. PICK state \in {"closed", "open", "half_open"} :
          local' = [local EXCEPT ![ProcessOf[c]] =
                      [state |-> state, failures |-> count, since |-> 0, probing |-> FALSE]]
    BY <1>6, <2>2 DEF Fail, count
  <2>5. [state |-> state, failures |-> count, since |-> 0, probing |-> FALSE] \in Local
    BY <2>3 DEF Local
  <2>6. local' \in [Processes -> Local]
    BY <2>2, <2>4, <2>5 DEF TypeOK
  <2> QED BY <1>6, <2>1, <2>6 DEF Fail, shared, TypeOK
<1>7. ASSUME NEW c \in Calls, Unlock(c) PROVE TypeOK'
  <2>1. call' \in [Calls -> Call]
    BY <1>7, ProceedType DEF Unlock
  <2> QED BY <1>7, <2>1 DEF Unlock, TypeOK
<1>8. ASSUME NEW c \in Calls, Count(c) PROVE TypeOK'
  <2>1. call' \in [Calls -> Call]
    BY <1>8, ProceedType DEF Count
  <2>2. AtMost(failures + 1, Threshold) \in 0..Threshold
    BY AtMostType DEF TypeOK
  <2> QED BY <1>8, <2>1, <2>2 DEF Count, TypeOK
<1>9. ASSUME NEW c \in Calls, Reopen(c) PROVE TypeOK'
  <2>1. call' \in [Calls -> Call]
    BY <1>9, ProceedType DEF Reopen
  <2> QED BY <1>9, <2>1 DEF Reopen, TypeOK
<1>10. ASSUME NEW c \in Calls, Reset(c) PROVE TypeOK'
  <2>1. call' \in [Calls -> Call]
    BY <1>10, BeginType DEF Reset
  <2> QED BY <1>10, <2>1, NewTypes DEF Reset, shared, TypeOK
<1>11. ASSUME NEW p \in Processes, Crash(p) PROVE TypeOK'
  BY <1>11, NewTypes DEF Crash, shared, TypeOK
<1>12. ASSUME Tick PROVE TypeOK'
  <2>1. \A c \in Calls : Aged(c) \in Call
    <3> TAKE c \in Calls
    <3>1. AtMost(call[c].age + 1, RecoveryTimeout) \in 0..RecoveryTimeout
      <4>1. call[c].age + 1 \in Nat
        BY CallFields
      <4> QED BY <4>1, AtMostType
    <3> DEFINE age == AtMost(call[c].age + 1, RecoveryTimeout)
    <3> HIDE DEF age
    <3>2. [call[c] EXCEPT !.age = age] \in Call
      BY <3>1, CallFields DEF Call, age
    <3> QED BY <3>2, CallFields DEF Aged, age
  <2>2. \A p \in Processes :
          [local[p] EXCEPT !.since = AtMost(@ + 1, RecoveryTimeout)] \in Local
    <3> TAKE p \in Processes
    <3>1. AtMost(local[p].since + 1, RecoveryTimeout) \in 0..RecoveryTimeout
      BY LocalFields, AtMostType
    <3> QED BY <3>1, LocalFields DEF Local
  <2>3. /\ Expiring(openTTL) \in 0..StateTTL /\ Expiring(failuresTTL) \in 0..StateTTL
        /\ Expiring(lockFor) \in 0..RecoveryTimeout
    BY ExpiringType DEF TypeOK
  <2> QED BY <1>12, <2>1, <2>2, <2>3 DEF Tick, TypeOK
<1>13. ASSUME UNCHANGED vars PROVE TypeOK'
  BY <1>13 DEF vars, TypeOK
<1>14. ASSUME NEW p \in Processes, Observe(p) PROVE TypeOK'
  <2>1. Refreshed(local[p]) \in Local
    BY LocalFields, RefreshedType
  <2> QED BY <1>14, <2>1 DEF Observe, shared, TypeOK
<1> QED BY <1>1, <1>2, <1>3, <1>4, <1>5, <1>6, <1>7, <1>8, <1>9, <1>10, <1>11, <1>12, <1>13, <1>14
     DEF Next, Finish

(* Every state of the breaker is well typed: counters, windows and ages    *)
(* stay in their ranges whatever Redis does (CircuitBreaker).              *)
THEOREM BreakerTypeCorrect == Spec => []TypeOK
  BY TypeInit, TypeNext, PTL DEF Spec

-------------------------------------------------------------------------------
(* Prompt calls: the age of a call bounds what can have happened since it  *)
(* was admitted.                                                           *)

Busy(c) == call[c].phase # "idle"

(* Calls that rely on the probe lock, if the circuit is half open.         *)
Holding(c) == call[c].phase \in {"running", "unlock"}

Young == \A c \in Calls : Busy(c) => call[c].age < RecoveryTimeout

(* A call in flight was admitted before the open window began, so that it  *)
(* ends before the window does; a half-open circuit only has calls that    *)
(* were admitted since, and the lock covers whatever age they can reach.   *)
Flight ==
    /\ Young
    /\ openFor > 0 => openTTL > openFor
    /\ openFor > 0 => \A c \in Calls : Busy(c) /\ call[c].phase # "clear"
                                          => openFor + call[c].age >= RecoveryTimeout
    /\ openFor = 0 /\ openTTL > 0 =>
         /\ \A c \in Calls : Holding(c) => lockFor + call[c].age >= RecoveryTimeout
         /\ \A c, d \in Calls : Holding(c) /\ Holding(d) => c = d

LEMMA FlightInit == Init => Flight
  BY DEF Init, Flight, Young, Busy, Holding, NoCall

(* A step that leaves the windows alone and only moves one call on.        *)
LEMMA FlightMove ==
  ASSUME TypeOK, Flight, NEW c \in Calls, NEW phase, Busy(c), Proceed(c, phase),
         UNCHANGED <<openFor, openTTL, lockFor>>,
         phase # "idle" => call[c].phase # "clear",
         phase \in {"running", "unlock"} => Holding(c)
  PROVE  Flight'
<1>1. /\ \A d \in Calls \ {c} : call'[d] = call[d]
      /\ phase = "idle" => call'[c].phase = "idle"
      /\ phase # "idle" => call'[c].phase = phase /\ call'[c].age = call[c].age
  BY ProceedEffect
<1>2. \A d \in Calls : Busy(d)' => Busy(d) /\ call'[d].age = call[d].age
  BY <1>1 DEF Busy
<1>3. \A d \in Calls : Holding(d)' => Holding(d)
  BY <1>1 DEF Holding
<1>4. \A d \in Calls : Busy(d)' /\ call'[d].phase # "clear" => call[d].phase # "clear"
  BY <1>1 DEF Busy
<1>5. \A d \in Calls : Holding(d)' => Busy(d)'
  BY DEF Holding, Busy
<1>6. Young'
  BY <1>2 DEF Flight, Young
<1> QED BY <1>2, <1>3, <1>4, <1>5, <1>6 DEF Flight

LEMMA FlightNext ==
  ASSUME Prompt
  PROVE  TypeOK /\ reliable /\ Flight /\ [Next]_vars => Flight'
<1> SUFFICES ASSUME TypeOK, reliable, Flight, [Next]_vars PROVE Flight'
  OBVIOUS
<1> USE BreakerAssumption
<1>1. ASSUME NEW c \in Calls, Enter(c) PROVE Flight'
  <2>1. PICK phase, probe : /\ Begin(c, phase, probe)
                            /\ \/ phase = "running" /\ openTTL = 0
                               \/ phase = "asked" /\ openFor = 0
    BY <1>1 DEF Enter, SharedState, TypeOK
  <2>2. /\ call'[c].phase = phase /\ call'[c].age = 0
        /\ \A d \in Calls \ {c} : call'[d] = call[d]
        /\ UNCHANGED <<openFor, openTTL, lockFor>>
    BY <1>1, <2>1, BeginEffect DEF Enter, shared
  <2>3. openFor = 0
    BY <2>1 DEF Flight, TypeOK
  <2>4. Young'
    BY <2>2 DEF Flight, Young, Busy
  <2> QED BY <2>1, <2>2, <2>3, <2>4 DEF Flight, Holding, TypeOK
<1>2. ASSUME NEW c \in Calls, EnterLocal(c) PROVE Flight'
  BY <1>2 DEF EnterLocal
<1>3. ASSUME NEW c \in Calls, AcquireProbe(c) PROVE Flight'
  <2>1. /\ call[c].phase = "asked"
        /\ lockFor' = IF lockFor = 0 THEN RecoveryTimeout ELSE lockFor
        /\ Proceed(c, IF lockFor = 0 THEN "running" ELSE "idle")
        /\ UNCHANGED <<openFor, openTTL>>
    BY <1>3 DEF AcquireProbe, Replies, Effective, Raises, LockFree
  <2>2. CASE lockFor # 0
    BY <2>1, <2>2, FlightMove DEF Busy
  <2>3. CASE lockFor = 0
    <3>1. /\ \A d \in Calls \ {c} : call'[d] = call[d]
          /\ call'[c].phase = "running" /\ call'[c].age = call[c].age
      BY <2>1, <2>3, ProceedEffect
    <3>2. lockFor' = RecoveryTimeout
      BY <2>1, <2>3
    <3>3. Young' /\ \A d \in Calls : Busy(d)' => Busy(d) /\ call'[d].age = call[d].age
      BY <2>1, <3>1 DEF Flight, Young, Busy
    <3>4. \A d \in Calls : call[d].age \in Nat
      BY CallFields
    <3>5. openFor = 0 /\ openTTL > 0 => \A d \in Calls : ~Holding(d)
      BY <2>3, <3>4 DEF Flight, Young, Busy, Holding
    <3>6. \A d \in Calls : Holding(d)' /\ d # c => Holding(d)
      BY <3>1 DEF Holding
    <3>7. \A d \in Calls : Busy(d)' /\ call'[d].phase # "clear" => call[d].phase # "clear"
      BY <2>1, <3>1 DEF Busy
    <3>8. openFor' > 0 => openTTL' > openFor'
      BY <2>1 DEF Flight
    <3>9. openFor' > 0 => \A d \in Calls : Busy(d)' /\ call'[d].phase # "clear"
                                             => openFor' + call'[d].age >= RecoveryTimeout
      BY <2>1, <3>3, <3>7 DEF Flight
    <3>10. openFor = 0 /\ openTTL > 0 => \A d \in Calls : Holding(d)' => d = c
      BY <3>5, <3>6
    <3>11. lockFor' + call'[c].age >= RecoveryTimeout
      BY <3>1, <3>2, <3>4
    <3> QED BY <2>1, <3>3, <3>8, <3>9, <3>10, <3>11 DEF Flight
  <2> QED BY <2>2, <2>3
<1>4. ASSUME NEW c \in Calls, Succeed(c) PROVE Flight'
  BY <1>4, FlightMove DEF Succeed, shared, Busy
<1>5. ASSUME NEW c \in Calls, Clear(c) PROVE Flight'
  <2>1. /\ openFor' = 0 /\ openTTL' = 0
        /\ \A d \in Calls : Busy(d)' => call'[d] = call[d] /\ Busy(d)
    BY <1>5, ProceedEffect DEF Clear, Busy
  <2> QED BY <2>1 DEF Flight, Young
<1>6. ASSUME NEW c \in Calls, Fail(c) PROVE Flight'
  BY <1>6, FlightMove DEF Fail, shared, Busy, Holding
<1>7. ASSUME NEW c \in Calls, Unlock(c) PROVE Flight'
  <2>1. /\ call[c].phase = "unlock" /\ Proceed(c, "count")
        /\ UNCHANGED <<openFor, openTTL>>
    BY <1>7 DEF Unlock, Replies, Raises
  <2>2. /\ \A d \in Calls \ {c} : call'[d] = call[d]
        /\ call'[c].phase = "count" /\ call'[c].age = call[c].age
    BY <2>1, ProceedEffect
  <2>3. Young' /\ \A d \in Calls : Busy(d)' => Busy(d) /\ call'[d].age = call[d].age
    BY <2>1, <2>2 DEF Flight, Young, Busy
  <2>4. openFor = 0 /\ openTTL > 0 => \A d \in Calls : ~Holding(d)'
    BY <2>1, <2>2 DEF Flight, Holding
  <2>5. \A d \in Calls : Busy(d)' /\ call'[d].phase # "clear" => call[d].phase # "clear"
    BY <2>1, <2>2
  <2> QED BY <2>1, <2>3, <2>4, <2>5 DEF Flight
<1>8. ASSUME NEW c \in Calls, Count(c) PROVE Flight'
  <2>1. PICK phase \in {"reopen", "idle"} : Proceed(c, phase)
    BY <1>8 DEF Count
  <2> QED BY <1>8, <2>1, FlightMove DEF Count, Busy
<1>9. ASSUME NEW c \in Calls, Reopen(c) PROVE Flight'
  <2>1. /\ openFor' = RecoveryTimeout /\ openTTL' = StateTTL
        /\ \A d \in Calls : Busy(d)' => call'[d] = call[d] /\ Busy(d)
    BY <1>9, ProceedEffect DEF Reopen, Busy
  <2>2. \A d \in Calls : call[d].age \in Nat
    BY CallFields
  <2> QED BY <2>1, <2>2 DEF Flight, Young
<1>10. ASSUME NEW c \in Calls, Reset(c) PROVE Flight'
  <2>1. /\ call'[c].phase = "clear" /\ call'[c].age = 0
        /\ \A d \in Calls \ {c} : call'[d] = call[d]
        /\ UNCHANGED <<openFor, openTTL, lockFor>>
    BY <1>10, BeginEffect DEF Reset, shared
  <2>2. Young'
    BY <2>1 DEF Flight, Young, Busy
  <2>3. \A d \in Calls : Holding(d)' => d # c
    BY <2>1 DEF Holding
  <2> QED BY <2>1, <2>2, <2>3 DEF Flight, Busy, Holding
<1>11. ASSUME NEW p \in Processes, Crash(p) PROVE Flight'
  <2>1. /\ UNCHANGED <<openFor, openTTL, lockFor>>
        /\ \A d \in Calls : call'[d] = call[d] \/ call'[d].phase = "idle"
    BY <1>11 DEF Crash, shared, NoCall
  <2>2. \A d \in Calls : Busy(d)' => call'[d] = call[d] /\ Busy(d)
    BY <2>1 DEF Busy
  <2>3. \A d \in Calls : Holding(d)' => call'[d] = call[d] /\ Holding(d)
    BY <2>1 DEF Holding
  <2> QED BY <2>1, <2>2, <2>3 DEF Flight, Young
<1>12. ASSUME Tick PROVE Flight'
  <2>1. /\ openFor' = IF openFor > 0 THEN openFor - 1 ELSE 0
        /\ openTTL' = IF openTTL > 0 THEN openTTL - 1 ELSE 0
        /\ lockFor' = IF lockFor > 0 THEN lockFor - 1 ELSE 0
        /\ \A c \in Calls : Busy(c) => call[c].age + 1 < RecoveryTimeout
    BY <1>12 DEF Tick, Expiring, Busy
  <2>2. \A c \in Calls :
          /\ call'[c].phase = call[c].phase
          /\ Busy(c) => call'[c].age = call[c].age + 1
    <3> TAKE c \in Calls
    <3>1. call'[c] = Aged(c)
      BY <1>12 DEF Tick
    <3>2. Busy(c) => AtMost(call[c].age + 1, RecoveryTimeout) = call[c].age + 1
      BY <2>1, CallFields DEF AtMost
    <3> QED BY <3>1, <3>2, CallFields DEF Aged, Busy, Call
  <2>3. \A c \in Calls : (Busy(c)' <=> Busy(c)) /\ (Holding(c)' <=> Holding(c))
    BY <2>2 DEF Busy, Holding
  <2>4. \A c \in Calls : Holding(c) => Busy(c)
    BY DEF Holding, Busy
  <2>5. \A c \in Calls : call[c].age \in Nat
    BY CallFields
  <2>6. Young'
    BY <2>1, <2>2, <2>3 DEF Young
  <2>7. CASE openFor = 0
    BY <2>1, <2>2, <2>3, <2>4, <2>5, <2>6, <2>7 DEF Flight, TypeOK
  <2>8. CASE openFor > 1
    BY <2>1, <2>2, <2>3, <2>5, <2>6, <2>8 DEF Flight, TypeOK
  <2>9. CASE openFor = 1
    <3>1. \A c \in Calls : ~Holding(c)
      BY <2>1, <2>4, <2>5, <2>9 DEF Flight, Holding
    <3> QED BY <2>1, <2>3, <2>6, <2>9, <3>1 DEF Flight, TypeOK
  <2> QED BY <2>7, <2>8, <2>9 DEF TypeOK
<1>13. ASSUME UNCHANGED vars PROVE Flight'
  BY <1>13 DEF vars, Flight, Young, Busy, Holding
<1>14. ASSUME NEW p \in Processes, Observe(p) PROVE Flight'
  BY <1>14 DEF Observe
<1> QED BY <1>1, <1>2, <1>3, <1>4, <1>5, <1>6, <1>7, <1>8, <1>9, <1>10, <1>11, <1>12, <1>13, <1>14
     DEF Next, Finish

LEMMA ReliableStays == [Next]_vars => UNCHANGED reliable
  BY DEF Next, Finish, vars, Enter, EnterLocal, AcquireProbe, Succeed, Clear, Fail, Unlock,
         Count, Reopen, Reset, Crash, Observe, Tick

(* While Redis answers and no call lasts as long as recovery_timeout, a    *)
(* half-open circuit has at most one call with the provider, for any       *)
(* number of processes, threads, resets and crashes (CircuitBreaker.call). *)
THEOREM FlightIsSingle == ASSUME Prompt PROVE Spec => []SingleFlight
<1>1. Init => (reliable => Flight)
  BY FlightInit
<1>2. TypeOK /\ (reliable => Flight) /\ [Next]_vars => (reliable => Flight)'
  BY FlightNext, ReliableStays
<1>3. TypeOK /\ (reliable => Flight) => SingleFlight
  BY DEF SingleFlight, Flight, SharedState, Running, Holding, TypeOK
<1> QED BY <1>1, <1>2, <1>3, BreakerTypeCorrect, PTL DEF Spec

-------------------------------------------------------------------------------
(* The in-memory fallback.                                                 *)

LocalProbe(c) == Running(c) /\ call[c].probe = "local"

(* What a running probe leaves in the memory of its process: the mark of   *)
(* the probe, or an open window that began after the probe did and so is   *)
(* not over before it.                                                     *)
Guarded(c) ==
    /\ local[ProcessOf[c]].state = "half_open" => local[ProcessOf[c]].probing
    /\ local[ProcessOf[c]].state = "open" => local[ProcessOf[c]].since <= call[c].age

Asking == \A c \in Calls : call[c].phase = "asked" => call[c].probe # "local"

LocalFlight ==
    /\ Young
    /\ Asking
    /\ \A c \in Calls : LocalProbe(c) => Guarded(c)
    /\ SingleLocalProbe

LEMMA LocalFlightInit == Init => LocalFlight
  BY DEF Init, LocalFlight, Asking, Young, Busy, LocalProbe, Running, SingleLocalProbe, NoCall

(* A step that starts no local probe and keeps the memory of the processes *)
(* of the probes that go on guarded.                                       *)
LEMMA LocalFlightMove ==
  ASSUME LocalFlight, Asking',
         \A d \in Calls : Busy(d)' => call'[d].age < RecoveryTimeout,
         \A d \in Calls : LocalProbe(d)' => LocalProbe(d) /\ Guarded(d)'
  PROVE  LocalFlight'
  BY DEF LocalFlight, Young, LocalProbe, SingleLocalProbe

(* The same for a step of one call.                                        *)
LEMMA LocalFlightProceed ==
  ASSUME TypeOK, LocalFlight, NEW c \in Calls, NEW phase, phase \notin {"asked", "running"}, Busy(c),
         Proceed(c, phase),
         \A d \in Calls \ {c} : LocalProbe(d) =>
             LET l == local'[ProcessOf[d]] IN
               \/ l = local[ProcessOf[d]]
               \/ l.state = "closed"
               \/ l.state = "open" /\ l.since = 0
  PROVE  LocalFlight'
<1>1. /\ \A d \in Calls \ {c} : call'[d] = call[d]
      /\ call'[c].phase = phase
      /\ phase # "idle" => call'[c].age = call[c].age
  BY ProceedEffect
<1>2. \A d \in Calls : Busy(d)' => call'[d].age < RecoveryTimeout
  BY <1>1 DEF LocalFlight, Young, Busy
<1>3. \A d \in Calls : LocalProbe(d)' => d # c /\ LocalProbe(d)
  BY <1>1 DEF LocalProbe, Running
<1>4. ASSUME NEW d \in Calls, LocalProbe(d)' PROVE Guarded(d)'
  <2>1. d # c /\ Guarded(d) /\ call'[d] = call[d] /\ call[d].age \in Nat
    BY <1>1, <1>3, <1>4, CallFields DEF LocalFlight
  <2> QED BY <1>3, <1>4, <2>1 DEF Guarded
<1>5. Asking'
  BY <1>1 DEF LocalFlight, Asking
<1> QED BY <1>2, <1>3, <1>4, <1>5, LocalFlightMove

LEMMA LocalFlightNext ==
  ASSUME Prompt
  PROVE  TypeOK /\ LocalFlight /\ [Next]_vars => LocalFlight'
<1> SUFFICES ASSUME TypeOK, LocalFlight, [Next]_vars PROVE LocalFlight'
  OBVIOUS
<1> USE BreakerAssumption
<1>1. ASSUME NEW c \in Calls, Enter(c) PROVE LocalFlight'
  <2>1. PICK phase, probe : Begin(c, phase, probe) /\ probe \in {"none", "shared"}
    BY <1>1 DEF Enter
  <2>2. /\ call'[c].age = 0 /\ call'[c].probe # "local"
        /\ \A d \in Calls \ {c} : call'[d] = call[d]
        /\ UNCHANGED local
    BY <1>1, <2>1, BeginEffect DEF Enter
  <2>3. \A d \in Calls : LocalProbe(d)' => LocalProbe(d) /\ Guarded(d)'
    BY <2>2 DEF LocalFlight, LocalProbe, Running, Guarded
  <2>4. \A d \in Calls : Busy(d)' => call'[d].age < RecoveryTimeout
    BY <2>2 DEF LocalFlight, Young, Busy
  <2>5. Asking'
    BY <2>2 DEF LocalFlight, Asking
  <2> QED BY <2>3, <2>4, <2>5, LocalFlightMove
<1>2. ASSUME NEW c \in Calls, EnterLocal(c) PROVE LocalFlight'
  <2> DEFINE p == ProcessOf[c]
             l == Refreshed(local[p])
             probe == l.state = "half_open"
  <2>1. p \in Processes /\ l \in Local
    BY ProcessType, LocalFields, RefreshedType
  <2>2. Admits(l) /\ local' = [local EXCEPT ![p] = [l EXCEPT !.probing = @ \/ probe]]
    BY <1>2 DEF EnterLocal
  <2>3. /\ call'[c].phase = "running" /\ call'[c].age = 0
        /\ call'[c].probe = "local" => probe
        /\ \A d \in Calls \ {c} : call'[d] = call[d]
    <3>1. PICK origin : /\ Begin(c, "running", origin)
                        /\ origin = IF probe THEN "local" ELSE "none"
      BY <1>2 DEF EnterLocal
    <3> HIDE DEF probe
    <3> QED BY <3>1, BeginEffect
  <2>4. call[c].phase = "idle"
    BY <1>2 DEF EnterLocal
  <2>5. \A d \in Calls : Busy(d)' => call'[d].age < RecoveryTimeout
    BY <2>3 DEF LocalFlight, Young, Busy
  <2>6. ASSUME NEW d \in Calls, LocalProbe(d), ProcessOf[d] = p PROVE l.state = "closed"
    <3>1. /\ local[p].state = "half_open" => local[p].probing
          /\ local[p].state = "open" => local[p].since < RecoveryTimeout
      <4>1. Guarded(d) /\ call[d].age < RecoveryTimeout
        BY <2>6 DEF LocalFlight, Young, LocalProbe, Running, Busy
      <4> QED BY <2>1, <2>6, <4>1, CallFields, LocalFields DEF Guarded
    <3>2. l = local[p]
      BY <2>1, <3>1, LocalFields DEF Refreshed
    <3> QED BY <2>2, <3>1, <3>2 DEF Admits
  <2> HIDE DEF l, p
  <2>7. /\ local'[p] = [l EXCEPT !.probing = @ \/ probe]
        /\ \A q \in Processes \ {p} : local'[q] = local[q]
    BY <2>1, <2>2 DEF TypeOK
  <2>8. local'[p].state = l.state /\ (probe => local'[p].probing)
    <3>1. local'[p].state = l.state /\ local'[p].probing = (l.probing \/ probe)
      BY <2>1, <2>7 DEF Local
    <3> QED BY <3>1
  <2>9. \A d \in Calls : LocalProbe(d)' => Guarded(d)'
    <3> SUFFICES ASSUME NEW d \in Calls, LocalProbe(d)' PROVE Guarded(d)'
      OBVIOUS
    <3>1. CASE d = c
      BY <2>3, <2>8, <3>1 DEF LocalProbe, Guarded, p
    <3>2. CASE d # c
      <4>1. call'[d] = call[d] /\ LocalProbe(d) /\ Guarded(d)
        BY <2>3, <3>2 DEF LocalProbe, Running, LocalFlight
      <4>2. CASE ProcessOf[d] = p
        BY <2>6, <2>8, <4>1, <4>2 DEF Guarded
      <4>3. CASE ProcessOf[d] # p
        BY <2>7, <4>1, <4>3, ProcessType DEF Guarded
      <4> QED BY <4>2, <4>3
    <3> QED BY <3>1, <3>2
  <2>10. SingleLocalProbe'
    <3> SUFFICES ASSUME NEW d \in Calls, NEW e \in Calls, LocalProbe(d)', LocalProbe(e)',
                        ProcessOf[d] = ProcessOf[e], d # e
                 PROVE FALSE
      BY DEF SingleLocalProbe, LocalProbe, Running
    <3>1. CASE d # c /\ e # c
      BY <2>3, <3>1 DEF LocalFlight, SingleLocalProbe, LocalProbe, Running
    <3>2. CASE d = c
      BY <2>3, <2>6, <3>2 DEF LocalProbe, Running, p
    <3>3. CASE e = c
      BY <2>3, <2>6, <3>3 DEF LocalProbe, Running, p
    <3> QED BY <3>1, <3>2, <3>3
  <2>11. Young'
    BY <2>5 DEF Young
  <2>12. Asking'
    BY <2>3 DEF LocalFlight, Asking
  <2> QED BY <2>9, <2>10, <2>11, <2>12 DEF LocalFlight
<1>3. ASSUME NEW c \in Calls, AcquireProbe(c) PROVE LocalFlight'
  <2>1. PICK phase : /\ Proceed(c, phase) /\ UNCHANGED local /\ call[c].phase = "asked"
                     /\ phase \in {"running", "idle"}
    BY <1>3 DEF AcquireProbe
  <2>2. /\ \A d \in Calls \ {c} : call'[d] = call[d]
        /\ call'[c].phase = phase
        /\ phase # "idle" => call'[c].age = call[c].age /\ call'[c].probe = call[c].probe
    BY <2>1, ProceedEffect
  <2>3. ~LocalProbe(c)'
    BY <2>1, <2>2 DEF LocalFlight, Asking, LocalProbe, Running
  <2>4. \A d \in Calls : LocalProbe(d)' => LocalProbe(d) /\ Guarded(d)'
    BY <2>1, <2>2, <2>3 DEF LocalFlight, LocalProbe, Running, Guarded
  <2>5. \A d \in Calls : Busy(d)' => call'[d].age < RecoveryTimeout
    BY <2>1, <2>2 DEF LocalFlight, Young, Busy
  <2>6. Asking'
    BY <2>1, <2>2 DEF LocalFlight, Asking
  <2> QED BY <2>4, <2>5, <2>6, LocalFlightMove
<1>4. ASSUME NEW c \in Calls, Succeed(c) PROVE LocalFlight'
  <2>1. local'[ProcessOf[c]].state = "closed"
    <3>1. local'[ProcessOf[c]] = [local[ProcessOf[c]] EXCEPT
                                    !.state = "closed", !.failures = 0, !.probing = FALSE]
      BY <1>4, ProcessType DEF Succeed, TypeOK
    <3> QED BY <3>1, ProcessType, LocalFields DEF Local
  <2>2. \A q \in Processes : q = ProcessOf[c] \/ local'[q] = local[q]
    BY <1>4 DEF Succeed, TypeOK
  <2> QED BY <1>4, <2>1, <2>2, ProcessType, LocalFlightProceed DEF Succeed, Busy
<1>5. ASSUME NEW c \in Calls, Clear(c) PROVE LocalFlight'
  BY <1>5, LocalFlightProceed DEF Clear, Busy
<1>6. ASSUME NEW c \in Calls, Fail(c) PROVE LocalFlight'
  <2>1. PICK state, count :
          /\ local' = [local EXCEPT ![ProcessOf[c]] =
                         [state |-> state, failures |-> count, since |-> 0, probing |-> FALSE]]
          /\ state = "open" \/ (state = local[ProcessOf[c]].state /\ state # "half_open")
    BY <1>6 DEF Fail
  <2>2. local'[ProcessOf[c]] =
          [state |-> state, failures |-> count, since |-> 0, probing |-> FALSE]
    BY <2>1, ProcessType DEF TypeOK
  <2>3. local'[ProcessOf[c]].state \in {"open", "closed"} /\ local'[ProcessOf[c]].since = 0
    BY <2>1, <2>2, ProcessType, LocalFields
  <2>4. \A q \in Processes : q = ProcessOf[c] \/ local'[q] = local[q]
    BY <2>1 DEF TypeOK
  <2> QED BY <1>6, <2>3, <2>4, ProcessType, LocalFlightProceed DEF Fail, Busy
<1>7. ASSUME NEW c \in Calls, Unlock(c) PROVE LocalFlight'
  <2>1. PICK phase \in {"idle", "count"} : Proceed(c, phase)
    BY <1>7 DEF Unlock
  <2> QED BY <1>7, <2>1, LocalFlightProceed DEF Unlock, Busy
<1>8. ASSUME NEW c \in Calls, Count(c) PROVE LocalFlight'
  <2>1. PICK phase \in {"reopen", "idle"} : Proceed(c, phase)
    BY <1>8 DEF Count
  <2> QED BY <1>8, <2>1, LocalFlightProceed DEF Count, Busy
<1>9. ASSUME NEW c \in Calls, Reopen(c) PROVE LocalFlight'
  BY <1>9, LocalFlightProceed DEF Reopen, Busy
<1>10. ASSUME NEW c \in Calls, Reset(c) PROVE LocalFlight'
  <2>1. /\ call'[c].phase = "clear" /\ call'[c].age = 0
        /\ \A d \in Calls \ {c} : call'[d] = call[d]
    BY <1>10, BeginEffect DEF Reset
  <2>2. \A q \in Processes : local'[q] = local[q] \/ local'[q].state = "closed"
    BY <1>10 DEF Reset, TypeOK, NewLocal
  <2>3. \A d \in Calls : LocalProbe(d)' => LocalProbe(d) /\ call'[d] = call[d]
    BY <2>1 DEF LocalProbe, Running
  <2>4. \A d \in Calls : LocalProbe(d)' => LocalProbe(d) /\ Guarded(d)'
    BY <2>2, <2>3, ProcessType DEF LocalFlight, Guarded
  <2>5. \A d \in Calls : Busy(d)' => call'[d].age < RecoveryTimeout
    BY <2>1 DEF LocalFlight, Young, Busy
  <2>6. Asking'
    BY <2>1 DEF LocalFlight, Asking
  <2> QED BY <2>4, <2>5, <2>6, LocalFlightMove
<1>11. ASSUME NEW p \in Processes, Crash(p) PROVE LocalFlight'
  <2>1. \A d \in Calls : IF ProcessOf[d] = p THEN call'[d].phase = "idle" ELSE call'[d] = call[d]
    BY <1>11 DEF Crash, NoCall
  <2>2. \A q \in Processes \ {p} : local'[q] = local[q]
    BY <1>11 DEF Crash, TypeOK
  <2>3. \A d \in Calls : LocalProbe(d)' => LocalProbe(d) /\ Guarded(d)'
    BY <2>1, <2>2, ProcessType DEF LocalFlight, LocalProbe, Running, Guarded
  <2>4. \A d \in Calls : Busy(d)' => call'[d].age < RecoveryTimeout
    BY <2>1 DEF LocalFlight, Young, Busy
  <2>5. Asking'
    BY <2>1 DEF LocalFlight, Asking
  <2> QED BY <2>3, <2>4, <2>5, LocalFlightMove
<1>12. ASSUME NEW p \in Processes, Observe(p) PROVE LocalFlight'
  <2>1. \A d \in Calls : LocalProbe(d) /\ ProcessOf[d] = p => Refreshed(local[p]) = local[p]
    <3> TAKE d \in Calls
    <3> HAVE LocalProbe(d) /\ ProcessOf[d] = p
    <3>1. Guarded(d) /\ call[d].age < RecoveryTimeout
      BY DEF LocalFlight, Young, LocalProbe, Running, Busy
    <3>2. local[p].state = "open" => local[p].since < RecoveryTimeout
      BY <3>1, CallFields, LocalFields DEF Guarded
    <3> QED BY <3>2, LocalFields DEF Refreshed
  <2>2. \A d \in Calls : LocalProbe(d) => local'[ProcessOf[d]] = local[ProcessOf[d]]
    BY <1>12, <2>1, ProcessType DEF Observe, TypeOK
  <2> QED BY <1>12, <2>2 DEF Observe, LocalFlight, Asking, Young, Busy, LocalProbe, Running,
                              Guarded, SingleLocalProbe
<1>13. ASSUME Tick PROVE LocalFlight'
  <2>1. \A c \in Calls :
          /\ call'[c].phase = call[c].phase /\ call'[c].probe = call[c].probe
          /\ Busy(c) => call'[c].age = call[c].age + 1 /\ call'[c].age < RecoveryTimeout
    <3> TAKE c \in Calls
    <3>1. call'[c] = Aged(c)
      BY <1>13 DEF Tick
    <3>2. Busy(c) => /\ call[c].age + 1 < RecoveryTimeout
                     /\ AtMost(call[c].age + 1, RecoveryTimeout) = call[c].age + 1
      BY <1>13, CallFields DEF Tick, Busy, AtMost
    <3> QED BY <3>1, <3>2, CallFields DEF Aged, Busy, Call
  <2>2. \A q \in Processes : /\ local'[q].state = local[q].state
                             /\ local'[q].probing = local[q].probing
                             /\ local'[q].since <= local[q].since + 1
    <3> TAKE q \in Processes
    <3>1. local'[q] = [local[q] EXCEPT !.since = AtMost(local[q].since + 1, RecoveryTimeout)]
      BY <1>13 DEF Tick
    <3>2. AtMost(local[q].since + 1, RecoveryTimeout) <= local[q].since + 1
      BY LocalFields DEF AtMost
    <3> QED BY <3>1, <3>2, LocalFields DEF Local
  <2>3. \A c \in Calls : LocalProbe(c)' => LocalProbe(c) /\ Busy(c)
    BY <2>1 DEF LocalProbe, Running, Busy
  <2>4. ASSUME NEW c \in Calls, LocalProbe(c)' PROVE Guarded(c)'
    <3>1. /\ Guarded(c) /\ call'[c].age = call[c].age + 1 /\ call[c].age \in Nat
          /\ local[ProcessOf[c]].since \in Nat /\ ProcessOf[c] \in Processes
      BY <2>1, <2>3, <2>4, CallFields, LocalFields, ProcessType DEF LocalFlight
    <3>2. local'[ProcessOf[c]].since \in Nat
      <4>1. local'[ProcessOf[c]] \in Local
        BY TypeNext, <3>1 DEF TypeOK
      <4> QED BY <4>1 DEF Local
    <3> QED BY <2>2, <3>1, <3>2 DEF Guarded
  <2>5. Asking' /\ \A c \in Calls : Busy(c)' => call'[c].age < RecoveryTimeout
    BY <2>1 DEF LocalFlight, Asking, Busy
  <2> QED BY <2>3, <2>4, <2>5, LocalFlightMove
<1>14. ASSUME UNCHANGED vars PROVE LocalFlight'
  BY <1>14 DEF vars, LocalFlight, Asking, Young, Busy, LocalProbe, Running, Guarded,
              SingleLocalProbe
<1> QED BY <1>1, <1>2, <1>3, <1>4, <1>5, <1>6, <1>7, <1>8, <1>9, <1>10, <1>11, <1>12, <1>13, <1>14
     DEF Next, Finish

(* While no call lasts as long as recovery_timeout, the in-memory fallback *)
(* of each process lets one probe through at a time, whether Redis answers *)
(* or not (CircuitBreaker.call, _refresh_state_unlocked).                  *)
THEOREM LocalProbeIsSingle == ASSUME Prompt PROVE Spec => []SingleLocalProbe
<1>1. TypeOK /\ LocalFlight /\ [Next]_vars => LocalFlight'
  BY LocalFlightNext
<1>2. LocalFlight => SingleLocalProbe
  BY DEF LocalFlight
<1> QED BY <1>1, <1>2, LocalFlightInit, BreakerTypeCorrect, PTL DEF Spec
===============================================================================
