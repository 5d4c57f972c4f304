---------------------------- MODULE CircuitBreaker ----------------------------
(***************************************************************************)
(* The circuit breaker in front of the LLM provider: threads of several    *)
(* processes share its state through Redis and fall back on a copy per     *)
(* process when Redis does not answer.                                     *)
(*                                                                         *)
(* Every cache command is a step of its own.  Time is discrete and appears *)
(* as the time left: of the open window, of the keys, and as the age of    *)
(* calls and failures, so the model needs no bound on the clock.           *)
(***************************************************************************)
EXTENDS Integers

CONSTANTS
    Processes, Calls,    \* web and Celery processes, and their threads
    ProcessOf,           \* [Calls -> Processes]
    Threshold,           \* failure_threshold
    RecoveryTimeout,     \* recovery_timeout; also the time to live of the probe lock
    StateTTL,            \* _state_ttl()
    Prompt               \* does every call end within RecoveryTimeout?

ASSUME BreakerAssumption ==
    /\ ProcessOf \in [Calls -> Processes]
    /\ Threshold \in Nat \ {0} /\ RecoveryTimeout \in Nat \ {0}
    /\ StateTTL \in Nat /\ StateTTL > RecoveryTimeout
    /\ Prompt \in BOOLEAN

VARIABLES
    openFor,     \* time left until open_until, 0 when it has passed
    openTTL,     \* time left of the key open_until, 0 without the key
    lockFor,     \* time left of the key probe_lock, 0 without the key
    failures,    \* the key failures, up to Threshold; 0 without the key
    failuresTTL, \* its time left
    local,       \* the in-memory state of each process
    call,        \* what each thread is in the middle of
    reliable     \* does Redis answer every command?

shared == <<openFor, openTTL, lockFor, failures, failuresTTL>>
vars == <<openFor, openTTL, lockFor, failures, failuresTTL, local, call, reliable>>

-------------------------------------------------------------------------------
(* Data                                                                    *)

(* since: time since the last failure, up to RecoveryTimeout.              *)
Local == [state : {"closed", "open", "half_open"}, failures : 0..Threshold,
          since : 0..RecoveryTimeout, probing : BOOLEAN]

NewLocal == [state |-> "closed", failures |-> 0, since |-> RecoveryTimeout, probing |-> FALSE]

(* probe: where was_half_open comes from, if it is true.                   *)
Call == [phase : {"idle", "asked", "running", "clear", "unlock", "count", "reopen"},
         probe : {"none", "shared", "local"}, age : 0..RecoveryTimeout]

NoCall == [phase |-> "idle", probe |-> "none", age |-> 0]

Init ==
    /\ openFor = 0 /\ openTTL = 0 /\ lockFor = 0 /\ failures = 0 /\ failuresTTL = 0
    /\ local = [p \in Processes |-> NewLocal]
    /\ call = [c \in Calls |-> NoCall]
    /\ reliable \in BOOLEAN

SharedState == IF openTTL = 0 THEN "closed" ELSE IF openFor > 0 THEN "open" ELSE "half_open"

(* A command is executed, or fails before or after its effect.             *)
Replies == IF reliable THEN {"done"} ELSE {"done", "lost", "refused"}

Raises(reply) == reply # "done"

Effective(reply) == reply # "refused"

AtMost(n, bound) == IF n < bound THEN n ELSE bound

(* Keys without a time to live.                                            *)
Kept(left) == left

Expiring(left) == IF left > 0 THEN left - 1 ELSE 0

Begin(c, phase, probe) ==
    call' = [call EXCEPT ![c] = [phase |-> phase, probe |-> probe, age |-> 0]]

Proceed(c, phase) == call' = [call EXCEPT ![c] = IF phase = "idle" THEN NoCall
                                                 ELSE [@ EXCEPT !.phase = phase]]

-------------------------------------------------------------------------------
(* call()                                                                  *)

(* A call in the open state is refused and leaves no trace.                *)
Enter(c) ==
    /\ call[c].phase = "idle"
    /\ \/ SharedState = "closed" /\ Begin(c, "running", "none")
       \/ SharedState = "half_open" /\ Begin(c, "asked", "shared")
    /\ UNCHANGED <<shared, local, reliable>>

Refreshed(l) ==
    IF l.state = "open" /\ l.since >= RecoveryTimeout
    THEN [l EXCEPT !.state = "half_open", !.probing = FALSE] ELSE l

(* Half-open calls all pass.                                               *)
AdmitsAll(l) == l.state # "open"

Admits(l) == l.state = "closed" \/ (l.state = "half_open" /\ ~l.probing)

(* open_until cannot be read.                                              *)
EnterLocal(c) ==
    LET p == ProcessOf[c]
        l == Refreshed(local[p])
        probe == l.state = "half_open" IN
    /\ call[c].phase = "idle" /\ ~reliable
    /\ Admits(l)
    /\ local' = [local EXCEPT ![p] = [l EXCEPT !.probing = @ \/ probe]]
    /\ Begin(c, "running", IF probe THEN "local" ELSE "none")
    /\ UNCHANGED <<shared, reliable>>

(* cache.set in the place of cache.add.                                    *)
LockTaken == TRUE

LockFree == lockFor = 0

(* cache.add of the probe lock; without an answer the call goes ahead.     *)
AcquireProbe(c) ==
    /\ call[c].phase = "asked"
    /\ \E reply \in Replies :
         /\ lockFor' = IF LockFree /\ Effective(reply) THEN RecoveryTimeout ELSE lockFor
         /\ Proceed(c, IF LockFree \/ Raises(reply) THEN "running" ELSE "idle")
    /\ UNCHANGED <<openFor, openTTL, failures, failuresTTL, local, reliable>>

(* func returned; the locked half of _on_success.                          *)
Succeed(c) ==
    /\ call[c].phase = "running"
    /\ local' = [local EXCEPT ![ProcessOf[c]] =
           [@ EXCEPT !.state = "closed", !.failures = 0, !.probing = FALSE]]
    /\ Proceed(c, "clear")
    /\ UNCHANGED <<shared, reliable>>

(* delete_many of the three keys.                                          *)
Clear(c) ==
    /\ call[c].phase = "clear"
    /\ \/ /\ openFor' = 0 /\ openTTL' = 0 /\ lockFor' = 0 /\ failures' = 0 /\ failuresTTL' = 0
       \/ ~reliable /\ UNCHANGED shared
    /\ Proceed(c, "idle")
    /\ UNCHANGED <<local, reliable>>

(* func raised; the locked half of _on_failure.                            *)
Fail(c) ==
    LET p == ProcessOf[c]
        l == local[p]
        count == AtMost(l.failures + 1, Threshold)
        opens == call[c].probe # "none" \/ l.state = "half_open" \/ count >= Threshold IN
    /\ call[c].phase = "running"
    /\ local' = [local EXCEPT ![p] =
           [state |-> IF opens THEN "open" ELSE l.state, failures |-> count,
            since |-> 0, probing |-> FALSE]]
    /\ Proceed(c, "unlock")
    /\ UNCHANGED <<shared, reliable>>

(* The probe lock names no owner: any failure deletes it.                  *)
Unlock(c) ==
    /\ call[c].phase = "unlock"
    /\ \E reply \in Replies :
         /\ lockFor' = IF Effective(reply) THEN 0 ELSE lockFor
         /\ Proceed(c, IF Raises(reply) THEN "idle" ELSE "count")
    /\ UNCHANGED <<openFor, openTTL, failures, failuresTTL, local, reliable>>

(* _incr_shared_failures: incr keeps the time to live, add sets it.        *)
Count(c) ==
    LET count == AtMost(failures + 1, Threshold) IN
    /\ call[c].phase = "count"
    /\ \E reply \in Replies :
         /\ failures' = IF Effective(reply) THEN count ELSE failures
         /\ failuresTTL' = IF Effective(reply) /\ failures = 0 THEN StateTTL ELSE failuresTTL
         /\ Proceed(c, IF \/ call[c].probe # "none"
                          \/ ~Raises(reply) /\ count >= Threshold
                       THEN "reopen" ELSE "idle")
    /\ UNCHANGED <<openFor, openTTL, lockFor, local, reliable>>

Reopen(c) ==
    /\ call[c].phase = "reopen"
    /\ \/ openFor' = RecoveryTimeout /\ openTTL' = StateTTL
       \/ ~reliable /\ UNCHANGED <<openFor, openTTL>>
    /\ Proceed(c, "idle")
    /\ UNCHANGED <<lockFor, failures, failuresTTL, local, reliable>>

-------------------------------------------------------------------------------
(* reset(): in memory, then the keys.                                      *)
Reset(c) ==
    /\ call[c].phase = "idle"
    /\ local' = [local EXCEPT ![ProcessOf[c]] = NewLocal]
    /\ Begin(c, "clear", "none")
    /\ UNCHANGED <<shared, reliable>>

(* A process dies and is replaced.                                         *)
Crash(p) ==
    /\ \E c \in Calls : ProcessOf[c] = p /\ call[c].phase # "idle"
    /\ local' = [local EXCEPT ![p] = NewLocal]
    /\ call' = [c \in Calls |-> IF ProcessOf[c] = p THEN NoCall ELSE call[c]]
    /\ UNCHANGED <<shared, reliable>>

(* The property state, read by get_status for the health checks.           *)
Observe(p) ==
    /\ ~reliable
    /\ local' = [local EXCEPT ![p] = Refreshed(@)]
    /\ UNCHANGED <<shared, call, reliable>>

Aged(c) == IF call[c].phase = "idle" THEN call[c]
           ELSE [call[c] EXCEPT !.age = AtMost(@ + 1, RecoveryTimeout)]

Tick ==
    /\ Prompt => \A c \in Calls : call[c].phase # "idle" => call[c].age + 1 < RecoveryTimeout
    /\ openFor' = IF openFor > 0 THEN openFor - 1 ELSE 0
    /\ openTTL' = Expiring(openTTL)
    /\ lockFor' = Expiring(lockFor)
    /\ failuresTTL' = Expiring(failuresTTL)
    /\ failures' = IF Expiring(failuresTTL) = 0 THEN 0 ELSE failures
    /\ local' = [p \in Processes |->
                    [local[p] EXCEPT !.since = AtMost(@ + 1, RecoveryTimeout)]]
    /\ call' = [c \in Calls |-> Aged(c)]
    /\ UNCHANGED reliable

Finish(c) ==
    \/ AcquireProbe(c)
    \/ Succeed(c) \/ Clear(c)
    \/ Fail(c) \/ Unlock(c) \/ Count(c) \/ Reopen(c)

Next ==
    \/ \E c \in Calls : Enter(c) \/ EnterLocal(c) \/ Finish(c) \/ Reset(c)
    \/ \E p \in Processes : Crash(p) \/ Observe(p)
    \/ Tick

(* Time passes and a call that was admitted ends; nobody has to call.      *)
Fairness ==
    /\ SF_vars(Tick)
    /\ \A c \in Calls : WF_vars(Finish(c))

Spec == Init /\ [][Next]_vars

FairSpec == Spec /\ Fairness

-------------------------------------------------------------------------------
(* Properties                                                              *)

TypeOK ==
    /\ openFor \in 0..RecoveryTimeout /\ openTTL \in 0..StateTTL
    /\ lockFor \in 0..RecoveryTimeout
    /\ failures \in 0..Threshold /\ failuresTTL \in 0..StateTTL
    /\ local \in [Processes -> Local]
    /\ call \in [Calls -> Call]
    /\ reliable \in BOOLEAN

Running(c) == call[c].phase = "running"

(* "Strictly one probe request allowed at a time" in HALF_OPEN, across all *)
(* processes: while the recovery test is due or running, at most one call  *)
(* is with the provider, whatever late failures, resets and crashes do to  *)
(* the ownerless lock.                                                     *)
SingleFlight ==
    reliable /\ SharedState = "half_open" =>
        \A c, d \in Calls : Running(c) /\ Running(d) => c = d

(* The in-memory fallback lets one probe of a process through at a time,   *)
(* also when Redis comes and goes between the calls of its threads.        *)
SingleLocalProbe ==
    \A c, d \in Calls :
        /\ Running(c) /\ call[c].probe = "local"
        /\ Running(d) /\ call[d].probe = "local"
        /\ ProcessOf[c] = ProcessOf[d]
        => c = d

(* When failures end the circuit ends closed for good: no killed probe,    *)
(* lost command or missing traffic keeps it open.                          *)
Recovers == <>[][\A c \in Calls : ~Fail(c)]_vars => <>[](SharedState = "closed")
===============================================================================
