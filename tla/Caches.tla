-------------------------------- MODULE Caches --------------------------------
(***************************************************************************)
(* The read-through caches in front of the database: the lists and details *)
(* of the tasks of one scope, the escalation threshold of one domain, and  *)
(* the AI limits of one organization.  They share no state, so a behaviour *)
(* is about one of them.                                                   *)
(*                                                                         *)
(* A thread that misses reads the database and then fills the entry; a     *)
(* writer commits and then deletes entries, one by one.  Nothing keeps the *)
(* two apart.                                                              *)
(***************************************************************************)
EXTENDS Naturals, FiniteSets

CONSTANTS
    Threads,        \* web workers and Celery workers
    FixedKeys,      \* task keys an invalidation names itself: the plain lists, the task's detail
    Variants,       \* keys of filtered lists, known through the index only
    Threshold,      \* the key of a domain's escalation threshold
    Limits,         \* the key of an organization's AI limits
    Index,          \* the key of the scope's index
    None,
    MaxWrites       \* bound on commits

ASSUME CachesAssumption ==
    /\ IsFiniteSet(Threads) /\ IsFiniteSet(FixedKeys) /\ IsFiniteSet(Variants)
    /\ FixedKeys \cap Variants = {}
    /\ {Threshold, Limits, Index, None} \cap (FixedKeys \cup Variants) = {}
    /\ Cardinality({Threshold, Limits, Index, None}) = 4
    /\ MaxWrites \in Nat

VARIABLES
    cache,      \* the cache the behaviour is about
    version,    \* commits to what it caches
    entry,      \* what is cached: the version it shows, and whether the fill was overtaken
    index,      \* keys the scope's index lists; empty when it is missing
    job,        \* what each thread is at
    policy,     \* the domain's policy: when its threshold was chosen, and whether it is pinned
    upserted,   \* what the last administrator left there, and whether that was overtaken
    evicted     \* the newest commit whose invalidation is complete

vars == <<cache, version, entry, index, job, policy, upserted, evicted>>

TaskKeys == FixedKeys \cup Variants

Keys == TaskKeys \cup {Threshold, Limits}

KeysOf(c) == CASE c = "tasks" -> TaskKeys
               [] c = "threshold" -> {Threshold}
               [] c = "limits" -> {Limits}

Nothing == [version |-> 0, overtaken |-> FALSE, empty |-> TRUE]

Idle == [at |-> "idle", key |-> None, version |-> 0, overtaken |-> FALSE, keys |-> {},
         policy |-> [chosen |-> 0, pinned |-> FALSE]]

Init ==
    /\ cache \in {"tasks", "threshold", "limits"}
    /\ version = 0
    /\ entry = [k \in Keys |-> Nothing]
    /\ index = {}
    /\ job = [w \in Threads |-> Idle]
    /\ policy = Idle.policy
    /\ upserted = [chosen |-> 0, pinned |-> FALSE, overtaken |-> FALSE]
    /\ evicted = 0

At(w, step) == job[w].at = step

Return(w) == job' = [job EXCEPT ![w] = Idle]

-------------------------------------------------------------------------------
(* Reading through                                                         *)

(* A hit changes nothing.                                                  *)
Miss(w) ==
    /\ At(w, "idle")
    /\ \E k \in KeysOf(cache) :
         /\ entry[k].empty
         /\ job' = [job EXCEPT ![w] = [Idle EXCEPT !.at = "reading", !.key = k]]
    /\ UNCHANGED <<cache, version, entry, index, policy, upserted, evicted>>

ReadDatabase(w) ==
    /\ At(w, "reading")
    /\ job' = [job EXCEPT ![w].at = "filling", ![w].version = version]
    /\ UNCHANGED <<cache, version, entry, index, policy, upserted, evicted>>

(* cache.set with a timeout; task keys are entered in the index next.      *)
Fill(w) ==
    LET k == job[w].key IN
    /\ At(w, "filling")
    /\ entry' = [entry EXCEPT ![k] = [version |-> job[w].version,
                                      overtaken |-> job[w].overtaken, empty |-> FALSE]]
    /\ IF cache = "tasks" THEN job' = [job EXCEPT ![w].at = "registering"] ELSE Return(w)
    /\ UNCHANGED <<cache, version, index, policy, upserted, evicted>>

(* register_scope_cache_key: the index is read, extended and written back; *)
(* its timeout starts anew only when a key is added.                       *)
ReadIndex(w) ==
    /\ At(w, "registering")
    /\ IF job[w].key \in index
       THEN Return(w)
       ELSE job' = [job EXCEPT ![w].at = "listing", ![w].keys = index \cup {job[w].key}]
    /\ UNCHANGED <<cache, version, entry, index, policy, upserted, evicted>>

WriteIndex(w) ==
    /\ At(w, "listing")
    /\ index' = job[w].keys
    /\ Return(w)
    /\ UNCHANGED <<cache, version, entry, policy, upserted, evicted>>

(* Limits without a timeout, trusting in the invalidation.                 *)
LimitsNeverExpire(k) == ~entry[k].empty /\ k # Limits

Expiring(k) == ~entry[k].empty

Expire(k) ==
    /\ Expiring(k)
    /\ entry' = [entry EXCEPT ![k] = Nothing]
    /\ UNCHANGED <<cache, version, index, job, policy, upserted, evicted>>

ExpireIndex ==
    /\ index # {}
    /\ index' = {}
    /\ UNCHANGED <<cache, version, entry, job, policy, upserted, evicted>>

-------------------------------------------------------------------------------
(* Invalidation                                                            *)

(* The commit of a write, after which the keys are deleted.                *)
Commit(w, keys, step) ==
    /\ version < MaxWrites
    /\ version' = version + 1
    /\ job' = [job EXCEPT ![w] = [Idle EXCEPT !.at = step, !.version = version + 1, !.keys = keys]]

(* Any write to a task of the scope.                                       *)
WriteTask(w) ==
    /\ cache = "tasks"
    /\ At(w, "idle")
    /\ Commit(w, {}, "invalidating")
    /\ UNCHANGED <<cache, entry, index, policy, upserted, evicted>>

(* The listed keys, as if every key were listed.                           *)
ListedKeys == index \cup {Index}

DoomedKeys == FixedKeys \cup index \cup {Index}

(* invalidate_task_caches_for_scopes.                                      *)
CollectKeys(w) ==
    /\ At(w, "invalidating")
    /\ job' = [job EXCEPT ![w].at = "deleting", ![w].keys = DoomedKeys]
    /\ UNCHANGED <<cache, version, entry, index, policy, upserted, evicted>>

(* Fills of k under way have read what the deletion is to hide.            *)
Overtaken(k) ==
    [w \in Threads |-> IF job[w].at = "filling" /\ job[w].key = k
                       THEN [job[w] EXCEPT !.overtaken = TRUE] ELSE job[w]]

DeleteKey(w) ==
    /\ At(w, "deleting")
    /\ \E k \in job[w].keys :
         LET rest == job[w].keys \ {k} IN
         /\ job' = [Overtaken(k) EXCEPT ![w] = IF rest = {} THEN Idle ELSE [@ EXCEPT !.keys = rest]]
         /\ evicted' = IF rest = {} /\ job[w].version > evicted THEN job[w].version ELSE evicted
         /\ IF k = Index
            THEN index' = {} /\ UNCHANGED entry
            ELSE entry' = [entry EXCEPT ![k] = Nothing] /\ UNCHANGED index
    /\ UNCHANGED <<cache, version, policy, upserted>>

-------------------------------------------------------------------------------
(* Escalation thresholds                                                   *)

(* upsert_domain_uncertainty_policy: either field, or both.                *)
Upsert(w) ==
    /\ cache = "threshold"
    /\ At(w, "idle")
    /\ Commit(w, {Threshold}, "deleting")
    /\ \E chosen \in {policy.chosen, version + 1}, pinned \in BOOLEAN :
         /\ policy' = [chosen |-> chosen, pinned |-> pinned]
         /\ upserted' = [chosen |-> chosen, pinned |-> pinned, overtaken |-> FALSE]
    /\ UNCHANGED <<cache, entry, index, evicted>>

(* The policies are read before the transaction that rewrites them.        *)
ReadPolicy(w) ==
    /\ cache = "threshold"
    /\ At(w, "idle")
    /\ job' = [job EXCEPT ![w] = [Idle EXCEPT !.at = "calibrating", !.version = version,
                                              !.policy = policy]]
    /\ UNCHANGED <<cache, version, entry, index, policy, upserted, evicted>>

(* A calibration that adapts every threshold.                              *)
CalibratedAll(read) == {read, [read EXCEPT !.chosen = version + 1]}

(* What a calibration writes over the policy it read: a pinned threshold   *)
(* stays as read, another may move.                                        *)
Calibrated(read) ==
    {read} \cup IF read.pinned THEN {} ELSE {[read EXCEPT !.chosen = version + 1]}

(* calibrate_organization_domain_thresholds writes the flag back as well.  *)
Calibrate(w) ==
    /\ At(w, "calibrating")
    /\ Commit(w, {Threshold}, "deleting")
    /\ policy' \in Calibrated(job[w].policy)
    /\ upserted' = IF job[w].policy # policy THEN [upserted EXCEPT !.overtaken = TRUE] ELSE upserted
    /\ UNCHANGED <<cache, entry, index, evicted>>

-------------------------------------------------------------------------------
(* AI limits                                                               *)

(* The PATCH of the limits is one transaction: it saves, which locks the   *)
(* organization's row, deletes the entry, and only then commits.           *)
SaveLimits(w) ==
    /\ cache = "limits"
    /\ At(w, "idle")
    /\ \A v \in Threads : job[v].at \notin {"patching", "patched"}
    /\ job' = [job EXCEPT ![w] = [Idle EXCEPT !.at = "patching"]]
    /\ UNCHANGED <<cache, version, entry, index, policy, upserted, evicted>>

DeleteLimits(w) ==
    /\ At(w, "patching")
    /\ job' = [job EXCEPT ![w].at = "patched"]
    /\ entry' = [entry EXCEPT ![Limits] = Nothing]
    /\ UNCHANGED <<cache, version, index, policy, upserted, evicted>>

CommitLimits(w) ==
    /\ At(w, "patched")
    /\ version < MaxWrites
    /\ version' = version + 1
    /\ Return(w)
    /\ UNCHANGED <<cache, entry, index, policy, upserted, evicted>>

(* A process dies, or the cache refuses a call: what was not committed is  *)
(* rolled back, what was not deleted stays.                                *)
Die(w) ==
    /\ ~At(w, "idle")
    /\ Return(w)
    /\ UNCHANGED <<cache, version, entry, index, policy, upserted, evicted>>

-------------------------------------------------------------------------------

Read(w) == Miss(w) \/ ReadDatabase(w) \/ Fill(w) \/ ReadIndex(w) \/ WriteIndex(w)

Write(w) ==
    \/ WriteTask(w) \/ CollectKeys(w) \/ DeleteKey(w)
    \/ Upsert(w) \/ ReadPolicy(w) \/ Calibrate(w)
    \/ SaveLimits(w) \/ DeleteLimits(w) \/ CommitLimits(w)

Next ==
    \/ \E w \in Threads : Read(w) \/ Write(w) \/ Die(w)
    \/ \E k \in Keys : Expire(k)
    \/ ExpireIndex

(* Entries have a timeout.  Nothing is assumed of the threads.             *)
Spec == Init /\ [][Next]_vars /\ \A k \in Keys : WF_vars(Expire(k))

-------------------------------------------------------------------------------
(* Properties                                                              *)

(* After a complete invalidation, a plain list, a detail or a threshold    *)
(* older than the write is cached only when its fill had read the database *)
(* before the deletion and stored it after: neither lost updates of the    *)
(* index nor other invalidations at the same time let one survive.         *)
EvictedAnswersStayAway ==
    \A k \in FixedKeys \cup {Threshold} :
        ~entry[k].empty /\ ~entry[k].overtaken => entry[k].version >= evicted

(* What an administrator pins stays as it was pinned, except where a       *)
(* calibration was already running that had read the policy before.        *)
PinsHold ==
    upserted.pinned /\ ~upserted.overtaken =>
        policy = [chosen |-> upserted.chosen, pinned |-> TRUE]

(* Once writing ends, every stale answer goes away: those of overtaken     *)
(* fills, of keys the index forgot, of limits cached before their commit,  *)
(* and of writers that died before the deletion.                           *)
StaleAnswersEnd ==
    \A k \in Keys : <>[](entry[k].empty \/ entry[k].version = version)
===============================================================================
