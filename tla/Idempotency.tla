----------------------------- MODULE Idempotency ------------------------------
(***************************************************************************)
(* IdempotencyKeyMiddleware around the handler of a POST request.  What    *)
(* the handler does between "handling" and "answered" is another module's; *)
(* a request without the header (NoKey) only runs its handler.             *)
(*                                                                         *)
(* The record of an answer and the lock of a running request are two cache *)
(* keys.  A record outlives a run: it is kept for 24 hours.                *)
(***************************************************************************)
EXTENDS Naturals, FiniteSets

CONSTANTS
    Workers,    \* server threads, each serving one request at a time
    Keys,       \* cache digests of caller, path and Idempotency-Key
    Payloads,   \* body hashes
    NoKey, NoPayload, NoOne,
    Slow        \* may a handler outlive IDEMPOTENCY_LOCK_SECONDS?

ASSUME IdempotencyAssumption ==
    /\ IsFiniteSet(Workers) /\ NoOne \notin Workers
    /\ NoKey \notin Keys /\ NoPayload \notin Payloads
    /\ Slow \in BOOLEAN

VARIABLES
    record,     \* body hash stored with the answer of each key
    lock,       \* the worker whose lock is in the cache, for each key
    job,        \* the request each worker serves
    executed    \* successful executions under each key

(* sum, cost and alerts belong to the handler.                             *)
IdleJob == [at |-> "idle", key |-> NoKey, body |-> NoPayload, ok |-> FALSE,
            sum |-> 0, cost |-> 0, alerts |-> {}]

InitMiddleware ==
    /\ record = [k \in Keys |-> NoPayload]
    /\ lock = [k \in Keys |-> NoOne]
    /\ job = [w \in Workers |-> IdleJob]
    /\ executed = [k \in Keys |-> 0]

At(w, step) == job[w].at = step

Go(w, step) == job' = [job EXCEPT ![w].at = step]

Leave(w) == job' = [job EXCEPT ![w] = IdleJob]

(* On to a step that needs only the request.                               *)
Resume(w, step, ok) ==
    job' = [job EXCEPT ![w] =
        [IdleJob EXCEPT !.at = step, !.key = job[w].key, !.body = job[w].body, !.ok = ok]]

Answer(w, ok) == Resume(w, "answered", ok)

(* From the handler's first step until the middleware is through.          *)
Serving(w) == job[w].at \notin {"idle", "arrived", "looked"}

-------------------------------------------------------------------------------
(* process_request                                                         *)

Arrive(w) ==
    /\ At(w, "idle")
    /\ \E k \in Keys \cup {NoKey}, p \in Payloads :
         job' = [job EXCEPT ![w] =
             [IdleJob EXCEPT !.at = IF k = NoKey THEN "handling" ELSE "arrived",
                             !.key = k, !.body = p]]
    /\ UNCHANGED <<record, lock, executed>>

(* The record is not consulted.                                            *)
LookedPast(w) == FALSE

Answered(w) == record[job[w].key] # NoPayload

Miss(w) ==
    /\ At(w, "arrived") /\ ~Answered(w)
    /\ Go(w, "looked")
    /\ UNCHANGED <<record, lock, executed>>

(* 422 for another payload, else the stored answer.                        *)
Replay(w) ==
    /\ At(w, "arrived") /\ Answered(w)
    /\ Leave(w)
    /\ UNCHANGED <<record, lock, executed>>

(* cache.set instead of cache.add.                                         *)
Stolen(k) == TRUE

Free(k) == lock[k] = NoOne

Acquire(w) ==
    /\ At(w, "looked") /\ Free(job[w].key)
    /\ lock' = [lock EXCEPT ![job[w].key] = w]
    /\ Go(w, "handling")
    /\ UNCHANGED <<record, executed>>

(* 409.                                                                    *)
Conflict(w) ==
    /\ At(w, "looked") /\ ~Free(job[w].key)
    /\ Leave(w)
    /\ UNCHANGED <<record, lock, executed>>

-------------------------------------------------------------------------------
(* process_response                                                        *)

(* Only a success is stored; the handler's effects are there already.      *)
Respond(w) ==
    /\ At(w, "answered")
    /\ IF job[w].key = NoKey
       THEN Leave(w) /\ UNCHANGED <<record, executed>>
       ELSE /\ Go(w, "release")
            /\ record' = [record EXCEPT ![job[w].key] = IF job[w].ok THEN job[w].body ELSE @]
            /\ executed' = [executed EXCEPT ![job[w].key] = IF job[w].ok THEN @ + 1 ELSE @]
    /\ UNCHANGED lock

(* The lock is deleted, whoever's it is now.                               *)
Release(w) ==
    /\ At(w, "release")
    /\ lock' = [lock EXCEPT ![job[w].key] = NoOne]
    /\ Leave(w)
    /\ UNCHANGED <<record, executed>>

(* The timeout of the lock.                                                *)
Expire(k) ==
    /\ lock[k] # NoOne
    /\ Slow \/ ~(Serving(lock[k]) /\ job[lock[k]].key = k)
    /\ lock' = [lock EXCEPT ![k] = NoOne]
    /\ UNCHANGED <<record, job, executed>>

(* The server dies: its lock stays until it expires.                       *)
Die(w) ==
    /\ ~At(w, "idle")
    /\ Leave(w)
    /\ UNCHANGED <<record, lock, executed>>

Middleware(w) ==
    Arrive(w) \/ Miss(w) \/ Replay(w) \/ Acquire(w) \/ Conflict(w) \/ Respond(w) \/ Release(w)

-------------------------------------------------------------------------------
(* Properties                                                              *)

(* "Blocks concurrent duplicate in-flight mutations": no two requests with *)
(* one key are handled at a time, as long as no handler outlives the lock. *)
InFlightOnce ==
    \A v, w \in Workers :
        v # w /\ Serving(v) /\ Serving(w) /\ job[v].key # NoKey => job[v].key # job[w].key

(* A key is executed once more only by a request that had read the record  *)
(* before it was first stored: however often a client retries, its answer  *)
(* is produced at most once per thread.                                    *)
RetriesRarelyExecute == \A k \in Keys : executed[k] <= Cardinality(Workers)
===============================================================================
