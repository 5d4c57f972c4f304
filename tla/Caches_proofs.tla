----------------------------- MODULE Caches_proofs -----------------------------
(***************************************************************************)
(* Proofs about Caches for any number of threads, keys and writes: what a  *)
(* complete invalidation guarantees although fills and deletions overlap,  *)
(* and that calibrations respect a pin.                                    *)
(***************************************************************************)
EXTENDS Caches, FiniteSetTheorems, TLAPS

-------------------------------------------------------------------------------
(* Types                                                                   *)

Policy == [chosen : Nat, pinned : BOOLEAN]

(* What a thread may be at while a behaviour is about each cache.          *)
Steps == {"idle", "reading", "filling", "registering", "listing", "invalidating", "deleting",
          "calibrating", "patching", "patched"}

StepsOf(c) ==
    IF c = "tasks" THEN Steps \ {"calibrating", "patching", "patched"}
    ELSE IF c = "threshold" THEN {"idle", "reading", "filling", "calibrating", "deleting"}
    ELSE {"idle", "reading", "filling", "patching", "patched"}

Job == [at : Steps, key : Keys \cup {None}, version : Nat, overtaken : BOOLEAN,
        keys : SUBSET (Keys \cup {Index}), policy : Policy]

(* A thread works for the cache the behaviour is about.                    *)
Works(w) ==
    /\ job[w].at \in StepsOf(cache)
    /\ job[w].at \in {"reading", "filling", "registering", "listing"} => job[w].key \in KeysOf(cache)
    /\ job[w].at = "listing" => job[w].keys \subseteq Keys

JobsFit ==
    /\ job \in [Threads -> Job]
    /\ \A w \in Threads : Works(w) /\ job[w].version <= version

(* The types of the state, and versions that have been committed.          *)
TypeOK ==
    /\ cache \in {"tasks", "threshold", "limits"}
    /\ version \in Nat
    /\ entry \in [Keys -> [version : Nat, overtaken : BOOLEAN, empty : BOOLEAN]]
    /\ index \subseteq Keys
    /\ JobsFit
    /\ policy \in Policy
    /\ upserted \in [chosen : Nat, pinned : BOOLEAN, overtaken : BOOLEAN]
    /\ evicted \in 0..version

(* The keys of the caches are told apart from that of the index.           *)
LEMMA KeysApart ==
  /\ Threshold # Index /\ Threshold \notin TaskKeys
  /\ Index \notin TaskKeys /\ FixedKeys \subseteq TaskKeys
  <1>1. ASSUME Threshold = Index PROVE FALSE
    <2>1. ASSUME NEW S, NEW n \in Nat, NEW x, IsFiniteSet(S), Cardinality(S) \in 0..n
          PROVE  IsFiniteSet(S \cup {x}) /\ Cardinality(S \cup {x}) \in 0..(n + 1)
      <3>1. /\ IsFiniteSet(S \cup {x})
            /\ Cardinality(S \cup {x}) = IF x \in S THEN Cardinality(S) ELSE Cardinality(S) + 1
        BY <2>1, FS_AddElement, Zenon
      <3> QED BY <2>1, <3>1
    <2>2. IsFiniteSet({None}) /\ Cardinality({None}) \in 0..1
      <3>1. IsFiniteSet({None}) /\ Cardinality({None}) = 1
        BY FS_Singleton
      <3> QED BY <3>1
    <2>3. IsFiniteSet({None} \cup {Limits}) /\ Cardinality({None} \cup {Limits}) \in 0..2
      <3>1. /\ IsFiniteSet({None} \cup {Limits})
            /\ Cardinality({None} \cup {Limits}) \in 0..(1 + 1)
        BY <2>1, <2>2
      <3>2. 1 + 1 = 2
        OBVIOUS
      <3> QED BY <3>1, <3>2, Zenon
    <2>4. Cardinality(({None} \cup {Limits}) \cup {Index}) \in 0..(2 + 1)
      BY <2>1, <2>3
    <2>5. {Threshold, Limits, Index, None} = {None} \cup {Limits} \cup {Index}
      BY <1>1
    <2>6. Cardinality({Threshold, Limits, Index, None}) \in 0..3
      BY <2>4, <2>5
    <2> QED BY <2>1, <2>6, CachesAssumption
  <1> QED BY <1>1, CachesAssumption DEF TaskKeys

(* The keys of a cache.                                                    *)
LEMMA CacheKeys ==
  ASSUME TypeOK
  PROVE  KeysOf(cache) \subseteq Keys
  BY DEF TypeOK, KeysOf, Keys

(* An idle thread, and the empty caches, are well typed.                   *)
LEMMA IdleTypes ==
  /\ Idle \in Job /\ Idle.at = "idle" /\ Idle.version = 0
  /\ Idle.policy \in Policy /\ \A c : "idle" \in StepsOf(c)
  <1>1. Idle.policy \in Policy
    BY DEF Idle, Policy
  <1>2. Idle \in Job
    BY <1>1 DEF Idle, Job, Steps
  <1>3. \A c : "idle" \in StepsOf(c)
    BY DEF StepsOf, Steps
  <1> QED BY <1>1, <1>2, <1>3 DEF Idle

LEMMA InitTypes == Init => TypeOK
  <1> SUFFICES ASSUME Init PROVE TypeOK
    OBVIOUS
  <1>1. JobsFit
    BY IdleTypes DEF Init, Works, JobsFit
  <1>2. entry \in [Keys -> [version : Nat, overtaken : BOOLEAN, empty : BOOLEAN]]
    BY DEF Init, Nothing
  <1>3. upserted \in [chosen : Nat, pinned : BOOLEAN, overtaken : BOOLEAN]
    BY DEF Init
  <1> QED BY <1>1, <1>2, <1>3, IdleTypes DEF Init, TypeOK

(* A step of one thread, to a job that fits.                               *)
LEMMA JobTypes ==
  ASSUME TypeOK, NEW w \in Threads, NEW j \in Job, job' = [job EXCEPT ![w] = j],
         cache' = cache, version' \in Nat, version' >= version,
         j.at \in StepsOf(cache),
         j.at \in {"reading", "filling", "registering", "listing"} => j.key \in KeysOf(cache),
         j.at = "listing" => j.keys \subseteq Keys,
         j.version <= version'
  PROVE  JobsFit'
  <1>1. job' \in [Threads -> Job]
    BY DEF TypeOK, JobsFit
  <1>2. ASSUME NEW v \in Threads PROVE Works(v)' /\ job'[v].version <= version'
    <2>1. CASE v = w
      <3>1. job'[v] = j
        BY <2>1 DEF TypeOK, JobsFit
      <3> QED BY <3>1 DEF Works
    <2>2. CASE v # w
      <3>1. job'[v] = job[v] /\ Works(v) /\ job[v].version <= version /\ job[v].version \in Nat
        BY <2>2 DEF TypeOK, JobsFit, Job
      <3>2. version \in Nat
        BY DEF TypeOK
      <3> QED BY <3>1, <3>2 DEF Works
    <2> QED BY <2>1, <2>2
  <1> QED BY <1>1, <1>2 DEF JobsFit

(* A thread that ends, for whatever reason.                                *)
LEMMA ReturnTypes ==
  ASSUME TypeOK, NEW w \in Threads, Return(w), cache' = cache, version' \in Nat, version' >= version
  PROVE  JobsFit'
  <1>1. job' = [job EXCEPT ![w] = Idle]
    BY DEF Return
  <1>2. /\ Idle \in Job /\ Idle.at = "idle" /\ Idle.at \in StepsOf(cache)
        /\ Idle.version <= version'
    BY IdleTypes
  <1>3. Idle.at \notin {"reading", "filling", "registering", "listing"}
    BY <1>2
  <1> QED BY <1>1, <1>2, <1>3, JobTypes, Zenon

LEMMA ReadTypes ==
  ASSUME TypeOK, NEW w \in Threads, Read(w)
  PROVE  TypeOK'
  <1>1. CASE Miss(w)
    <2>1. PICK k \in KeysOf(cache) : job' = [job EXCEPT ![w] = [Idle EXCEPT !.at = "reading", !.key = k]]
      BY <1>1 DEF Miss
    <2> DEFINE j == [Idle EXCEPT !.at = "reading", !.key = k]
    <2>2. j \in Job /\ j.at = "reading" /\ j.key = k /\ j.version = 0
      BY CacheKeys, IdleTypes DEF Idle, Job, Steps
    <2> HIDE DEF j
    <2>3. JobsFit'
      <3>1. job' = [job EXCEPT ![w] = j]
        BY <2>1 DEF j
      <3>2. j.at \in StepsOf(cache) /\ cache' = cache /\ version' = version /\ version \in Nat
        BY <1>1, <2>2 DEF Miss, TypeOK, StepsOf, Steps
      <3>3. /\ version' \in Nat /\ version' >= version /\ j.version <= version'
            /\ j.at # "listing"
        BY <2>2, <3>2
      <3> QED BY <2>2, <3>1, <3>2, <3>3, JobTypes, Zenon
    <2> QED BY <1>1, <2>3 DEF Miss, TypeOK
  <1>2. CASE ReadDatabase(w)
    <2> DEFINE j == [job[w] EXCEPT !.at = "filling", !.version = version]
    <2>1. job[w] \in Job /\ job[w].key \in KeysOf(cache)
      BY <1>2 DEF ReadDatabase, At, TypeOK, JobsFit, Works
    <2>2. j \in Job /\ j.at = "filling" /\ j.key = job[w].key /\ j.version = version
      BY <2>1 DEF Job, Steps, TypeOK
    <2>3. job' = [job EXCEPT ![w] = j]
      BY <1>2 DEF ReadDatabase, TypeOK, JobsFit
    <2> HIDE DEF j
    <2>4. JobsFit'
      <3>1. j.at \in StepsOf(cache) /\ cache' = cache /\ version' = version /\ version \in Nat
        BY <1>2, <2>2 DEF ReadDatabase, TypeOK, StepsOf, Steps
      <3>2. /\ version' \in Nat /\ version' >= version /\ j.version <= version'
            /\ j.at # "listing"
        BY <2>2, <3>1
      <3> QED BY <2>1, <2>2, <2>3, <3>1, <3>2, JobTypes, Zenon
    <2> QED BY <1>2, <2>4 DEF ReadDatabase, TypeOK
  <1>3. CASE Fill(w)
    <2> DEFINE j == [job[w] EXCEPT !.at = "registering"]
    <2>1. job[w] \in Job /\ job[w].key \in KeysOf(cache) /\ job[w].version <= version
      BY <1>3 DEF Fill, At, TypeOK, JobsFit, Works
    <2>2. j \in Job /\ j.at = "registering" /\ j.key = job[w].key /\ j.version = job[w].version
      BY <2>1 DEF Job, Steps
    <2>3. (cache = "tasks" /\ job' = [job EXCEPT ![w] = j]) \/ Return(w)
      BY <1>3 DEF Fill
    <2> HIDE DEF j
    <2>4. JobsFit'
      BY <1>3, <2>1, <2>2, <2>3, JobTypes, ReturnTypes DEF Fill, TypeOK, StepsOf, Steps
    <2>5. entry' \in [Keys -> [version : Nat, overtaken : BOOLEAN, empty : BOOLEAN]]
      BY <1>3, <2>1 DEF Fill, TypeOK, Job
    <2> QED BY <1>3, <2>4, <2>5 DEF Fill, TypeOK
  <1>4. CASE ReadIndex(w)
    <2> DEFINE j == [job[w] EXCEPT !.at = "listing", !.keys = index \cup {job[w].key}]
    <2>1. job[w] \in Job /\ job[w].key \in KeysOf(cache) /\ job[w].version <= version /\ cache = "tasks"
      BY <1>4 DEF ReadIndex, At, TypeOK, JobsFit, Works, StepsOf, Steps
    <2>2. index \cup {job[w].key} \subseteq Keys
      BY <2>1, CacheKeys DEF TypeOK
    <2>3. j \in Job /\ j.at = "listing" /\ j.key = job[w].key /\ j.version = job[w].version
          /\ j.keys \subseteq Keys
      BY <2>1, <2>2 DEF Job, Steps
    <2>4. job' = [job EXCEPT ![w] = j] \/ Return(w)
      BY <1>4 DEF ReadIndex, TypeOK, JobsFit
    <2> HIDE DEF j
    <2>5. JobsFit'
      BY <1>4, <2>1, <2>3, <2>4, JobTypes, ReturnTypes DEF ReadIndex, TypeOK, StepsOf, Steps
    <2> QED BY <1>4, <2>5 DEF ReadIndex, TypeOK
  <1>5. CASE WriteIndex(w)
    <2>1. job[w].keys \subseteq Keys
      BY <1>5 DEF WriteIndex, At, TypeOK, JobsFit, Works
    <2>2. JobsFit'
      BY <1>5, ReturnTypes DEF WriteIndex, TypeOK
    <2> QED BY <1>5, <2>1, <2>2 DEF WriteIndex, TypeOK
  <1> QED BY <1>1, <1>2, <1>3, <1>4, <1>5 DEF Read

(* The job of a writer after its commit.                                   *)
LEMMA CommitTypes ==
  ASSUME TypeOK, NEW w \in Threads, NEW keys \in SUBSET (Keys \cup {Index}),
         NEW step \in {"invalidating", "deleting"}, step \in StepsOf(cache),
         Commit(w, keys, step), cache' = cache
  PROVE  JobsFit' /\ version' = version + 1 /\ version' \in Nat
  <1> DEFINE j == [Idle EXCEPT !.at = step, !.version = version + 1, !.keys = keys]
  <1>1. version \in Nat /\ version' = version + 1 /\ job' = [job EXCEPT ![w] = j]
    BY DEF Commit, TypeOK
  <1>2. j \in Job /\ j.at = step /\ j.version = version + 1
    <2>1. step \in Steps /\ version + 1 \in Nat /\ keys \in SUBSET (Keys \cup {Index})
      BY <1>1 DEF Steps
    <2>2. Idle \in Job
      BY IdleTypes
    <2> QED BY <2>1, <2>2 DEF Job
  <1> HIDE DEF j
  <1>3. /\ version' \in Nat /\ version' >= version /\ j.version <= version'
        /\ j.at \notin {"reading", "filling", "registering", "listing"} /\ j.at # "listing"
        /\ j.at \in StepsOf(cache)
    BY <1>1, <1>2
  <1>4. JobsFit'
    BY <1>1, <1>2, <1>3, JobTypes, Zenon
  <1> QED BY <1>1, <1>3, <1>4

(* A thread that goes on: only its step, and what it carries, changes.     *)
LEMMA GoTypes ==
  ASSUME TypeOK, NEW w \in Threads, NEW j \in Job, job' = [job EXCEPT ![w] = j],
         cache' = cache, version' = version,
         j.at \in StepsOf(cache) \ {"reading", "filling", "registering", "listing"},
         j.version <= version
  PROVE  JobsFit'
  <1>1. /\ version' \in Nat /\ version' >= version /\ j.version <= version'
        /\ j.at \notin {"reading", "filling", "registering", "listing"} /\ j.at # "listing"
    BY DEF TypeOK
  <1> QED BY <1>1, JobTypes, Zenon

LEMMA DeleteTypes ==
  ASSUME TypeOK, NEW w \in Threads, DeleteKey(w)
  PROVE  TypeOK'
  <1>1. PICK k \in job[w].keys :
          LET rest == job[w].keys \ {k} IN
          /\ job' = [Overtaken(k) EXCEPT ![w] = IF rest = {} THEN Idle ELSE [@ EXCEPT !.keys = rest]]
          /\ evicted' = IF rest = {} /\ job[w].version > evicted THEN job[w].version ELSE evicted
          /\ IF k = Index
             THEN index' = {} /\ UNCHANGED entry
             ELSE entry' = [entry EXCEPT ![k] = Nothing] /\ UNCHANGED index
    BY DEF DeleteKey
  <1>2. job[w] \in Job /\ job[w].at = "deleting" /\ job[w].version <= version
        /\ job[w].keys \subseteq Keys \cup {Index} /\ "deleting" \in StepsOf(cache)
    BY DEF DeleteKey, At, TypeOK, JobsFit, Works, Job
  <1>3. UNCHANGED <<cache, version, policy, upserted>> /\ version \in Nat /\ evicted \in 0..version
    BY DEF DeleteKey, TypeOK
  <1>4. ASSUME NEW v \in Threads PROVE job'[v] \in Job /\ Works(v)' /\ job'[v].version <= version'
    <2>1. job[v] \in Job /\ Works(v) /\ job[v].version <= version
      BY DEF TypeOK, JobsFit
    <2>2. CASE v = w
      <3> DEFINE rest == job[w].keys \ {k}
      <3>1. job'[w] = Idle \/ job'[w] = [job[w] EXCEPT !.keys = rest]
        BY <1>1, <1>2 DEF Overtaken
      <3>2. [job[w] EXCEPT !.keys = rest] \in Job
        BY <1>2 DEF Job
      <3>3. /\ job'[w] \in Job /\ job'[w].at \in {"idle", "deleting"}
            /\ job'[w].version <= version
        BY <1>2, <1>3, <3>1, <3>2, IdleTypes DEF Job
      <3> QED BY <1>2, <1>3, <2>2, <3>3, IdleTypes DEF Works
    <2>3. CASE v # w
      <3>1. job'[v] = job[v] \/ job'[v] = [job[v] EXCEPT !.overtaken = TRUE]
        BY <1>1, <2>3 DEF Overtaken
      <3>2. /\ [job[v] EXCEPT !.overtaken = TRUE] \in Job
            /\ job'[v].at = job[v].at /\ job'[v].key = job[v].key /\ job'[v].keys = job[v].keys
            /\ job'[v].version = job[v].version
        BY <2>1, <3>1 DEF Job
      <3> QED BY <1>3, <2>1, <3>1, <3>2 DEF Works
    <2> QED BY <2>2, <2>3
  <1>5. JobsFit'
    <2>1. job' = [v \in Threads |-> job'[v]]
      BY <1>1 DEF Overtaken
    <2> QED BY <1>4, <2>1 DEF JobsFit
  <1>6. entry' \in [Keys -> [version : Nat, overtaken : BOOLEAN, empty : BOOLEAN]]
    <2>1. Nothing \in [version : Nat, overtaken : BOOLEAN, empty : BOOLEAN]
      BY DEF Nothing
    <2>2. entry' = entry \/ entry' = [entry EXCEPT ![k] = Nothing]
      BY <1>1
    <2> QED BY <2>1, <2>2 DEF TypeOK
  <1>7. evicted' \in 0..version' /\ index' \subseteq Keys
    BY <1>1, <1>2, <1>3 DEF TypeOK, Job
  <1> QED BY <1>3, <1>5, <1>6, <1>7 DEF TypeOK

LEMMA WriteTypes ==
  ASSUME TypeOK, NEW w \in Threads, Write(w)
  PROVE  TypeOK'
  <1>1. CASE WriteTask(w)
    <2>1. "invalidating" \in StepsOf(cache) /\ cache' = cache /\ Commit(w, {}, "invalidating")
      BY <1>1 DEF WriteTask, StepsOf, Steps
    <2>2. JobsFit' /\ version' = version + 1 /\ version' \in Nat
      BY <2>1, CommitTypes
    <2> QED BY <1>1, <2>2 DEF WriteTask, TypeOK
  <1>2. CASE CollectKeys(w)
    <2> DEFINE j == [job[w] EXCEPT !.at = "deleting", !.keys = DoomedKeys]
    <2>1. job[w] \in Job /\ job[w].version <= version /\ cache = "tasks"
      BY <1>2 DEF CollectKeys, At, TypeOK, JobsFit, Works, StepsOf, Steps
    <2>2. DoomedKeys \subseteq Keys \cup {Index}
      BY KeysApart DEF DoomedKeys, TypeOK, Keys
    <2>3. j \in Job /\ j.at = "deleting" /\ j.version = job[w].version
      BY <2>1, <2>2 DEF Job, Steps
    <2>4. job' = [job EXCEPT ![w] = j] /\ "deleting" \in StepsOf(cache)
      BY <1>2, <2>1 DEF CollectKeys, TypeOK, JobsFit, StepsOf, Steps
    <2> HIDE DEF j
    <2>5. JobsFit'
      BY <1>2, <2>1, <2>3, <2>4, GoTypes DEF CollectKeys
    <2> QED BY <1>2, <2>5 DEF CollectKeys, TypeOK
  <1>3. CASE Upsert(w)
    <2>1. "deleting" \in StepsOf(cache) /\ cache' = cache /\ Commit(w, {Threshold}, "deleting")
          /\ {Threshold} \in SUBSET (Keys \cup {Index})
      BY <1>3 DEF Upsert, StepsOf, Keys
    <2>2. JobsFit' /\ version' = version + 1 /\ version' \in Nat
      BY <2>1, CommitTypes
    <2>3. policy' \in Policy /\ upserted' \in [chosen : Nat, pinned : BOOLEAN, overtaken : BOOLEAN]
      <3>1. version + 1 \in Nat /\ policy.chosen \in Nat
        BY DEF TypeOK, Policy
      <3> QED BY <1>3, <3>1 DEF Upsert, Policy
    <2> QED BY <1>3, <2>2, <2>3 DEF Upsert, TypeOK
  <1>4. CASE ReadPolicy(w)
    <2> DEFINE j == [Idle EXCEPT !.at = "calibrating", !.version = version, !.policy = policy]
    <2>1. j \in Job /\ j.at = "calibrating" /\ j.version = version
      BY IdleTypes DEF Job, Steps, TypeOK, Idle
    <2>2. job' = [job EXCEPT ![w] = j] /\ "calibrating" \in StepsOf(cache) /\ version \in Nat
      BY <1>4 DEF ReadPolicy, StepsOf, TypeOK
    <2> HIDE DEF j
    <2>3. JobsFit'
      <3>1. /\ cache' = cache /\ version' = version /\ j.version <= version
            /\ j.at \in StepsOf(cache) \ {"reading", "filling", "registering", "listing"}
        BY <1>4, <2>1, <2>2 DEF ReadPolicy
      <3> QED BY <2>1, <2>2, <3>1, GoTypes, Zenon
    <2> QED BY <1>4, <2>3 DEF ReadPolicy, TypeOK
  <1>5. CASE Calibrate(w)
    <2>1. cache = "threshold" /\ job[w].policy \in Policy
      BY <1>5 DEF Calibrate, At, TypeOK, JobsFit, Works, StepsOf, Steps, Job
    <2>2. "deleting" \in StepsOf(cache) /\ cache' = cache /\ Commit(w, {Threshold}, "deleting")
          /\ {Threshold} \in SUBSET (Keys \cup {Index})
      BY <1>5, <2>1 DEF Calibrate, StepsOf, Keys
    <2>3. JobsFit' /\ version' = version + 1 /\ version' \in Nat
      BY <2>2, CommitTypes
    <2>4. policy' \in Policy
      BY <1>5, <2>1, <2>3 DEF Calibrate, Calibrated, Policy, TypeOK
    <2>5. upserted' \in [chosen : Nat, pinned : BOOLEAN, overtaken : BOOLEAN]
      BY <1>5 DEF Calibrate, TypeOK
    <2> QED BY <1>5, <2>3, <2>4, <2>5 DEF Calibrate, TypeOK
  <1>6. CASE SaveLimits(w)
    <2> DEFINE j == [Idle EXCEPT !.at = "patching"]
    <2>1. j \in Job /\ j.at = "patching" /\ j.version = 0
      BY IdleTypes DEF Job, Steps, Idle
    <2>2. job' = [job EXCEPT ![w] = j] /\ "patching" \in StepsOf(cache) /\ version \in Nat
      BY <1>6 DEF SaveLimits, StepsOf, TypeOK
    <2> HIDE DEF j
    <2>3. JobsFit'
      <3>1. /\ cache' = cache /\ version' = version /\ j.version <= version
            /\ j.at \in StepsOf(cache) \ {"reading", "filling", "registering", "listing"}
        BY <1>6, <2>1, <2>2 DEF SaveLimits
      <3> QED BY <2>1, <2>2, <3>1, GoTypes, Zenon
    <2> QED BY <1>6, <2>3 DEF SaveLimits, TypeOK
  <1>7. CASE DeleteLimits(w)
    <2> DEFINE j == [job[w] EXCEPT !.at = "patched"]
    <2>1. job[w] \in Job /\ job[w].version <= version /\ cache = "limits"
      BY <1>7 DEF DeleteLimits, At, TypeOK, JobsFit, Works, StepsOf, Steps
    <2>2. j \in Job /\ j.at = "patched" /\ j.version = job[w].version
      BY <2>1 DEF Job, Steps
    <2>3. job' = [job EXCEPT ![w] = j] /\ "patched" \in StepsOf(cache)
      BY <1>7, <2>1 DEF DeleteLimits, TypeOK, JobsFit, StepsOf
    <2> HIDE DEF j
    <2>4. JobsFit'
      BY <1>7, <2>1, <2>2, <2>3, GoTypes DEF DeleteLimits
    <2>5. entry' \in [Keys -> [version : Nat, overtaken : BOOLEAN, empty : BOOLEAN]]
      BY <1>7 DEF DeleteLimits, TypeOK, Nothing
    <2> QED BY <1>7, <2>4, <2>5 DEF DeleteLimits, TypeOK
  <1>8. CASE CommitLimits(w)
    <2>1. version \in Nat /\ version' = version + 1 /\ Return(w) /\ cache' = cache
      BY <1>8 DEF CommitLimits, TypeOK
    <2>2. JobsFit'
      BY <2>1, ReturnTypes
    <2> QED BY <1>8, <2>1, <2>2 DEF CommitLimits, TypeOK
  <1> QED BY <1>1, <1>2, <1>3, <1>4, <1>5, <1>6, <1>7, <1>8, DeleteTypes DEF Write

(* Every step keeps the types.                                             *)
LEMMA StepTypes == TypeOK /\ [Next]_vars => TypeOK'
  <1> SUFFICES ASSUME TypeOK, [Next]_vars PROVE TypeOK'
    OBVIOUS
  <1>1. ASSUME NEW w \in Threads, Die(w) PROVE TypeOK'
    <2>1. JobsFit'
      BY <1>1, ReturnTypes DEF Die, TypeOK
    <2> QED BY <1>1, <2>1 DEF Die, TypeOK
  <1>2. ASSUME UNCHANGED <<job, cache, version>> PROVE JobsFit'
    BY <1>2 DEF TypeOK, JobsFit, Works
  <1>3. ASSUME NEW k \in Keys, Expire(k) PROVE TypeOK'
    <2>1. entry' \in [Keys -> [version : Nat, overtaken : BOOLEAN, empty : BOOLEAN]]
      BY <1>3 DEF Expire, TypeOK, Nothing
    <2> QED BY <1>2, <1>3, <2>1 DEF Expire, TypeOK
  <1>4. CASE ExpireIndex
    BY <1>2, <1>4 DEF ExpireIndex, TypeOK
  <1>5. CASE UNCHANGED vars
    BY <1>2, <1>5 DEF vars, TypeOK
  <1> QED BY <1>1, <1>3, <1>4, <1>5, ReadTypes, WriteTypes DEF Next

(* The caches and the jobs of the threads stay well typed.                 *)
THEOREM CachesTypeCorrect == Spec => []TypeOK
  <1> QED BY InitTypes, StepTypes, PTL DEF Spec

-------------------------------------------------------------------------------
(* Pins                                                                    *)

(* Unless a calibration overtook it, the policy is what was upserted: the  *)
(* flag, and below a pin the threshold.                                    *)
Pinned ==
    ~upserted.overtaken =>
        /\ policy.pinned = upserted.pinned
        /\ upserted.pinned => policy.chosen = upserted.chosen

(* PinsHold: a pinned threshold stays where the administrator put it, for  *)
(* any number of calibrations that read the policy after that.             *)
THEOREM PinsStay == Spec => []PinsHold
  <1>1. Init => Pinned
    <2>1. Idle.policy = [chosen |-> 0, pinned |-> FALSE]
      BY DEF Idle
    <2> QED BY <2>1 DEF Init, Pinned
  <1>2. TypeOK /\ Pinned /\ [Next]_vars => Pinned'
    <2> SUFFICES ASSUME TypeOK, Pinned, [Next]_vars PROVE Pinned'
      OBVIOUS
    <2>1. ASSUME NEW w \in Threads, Upsert(w) PROVE Pinned'
      BY <2>1 DEF Upsert, Pinned
    <2>2. ASSUME NEW w \in Threads, Calibrate(w) PROVE Pinned'
      <3>1. policy \in Policy /\ upserted \in [chosen : Nat, pinned : BOOLEAN, overtaken : BOOLEAN]
        BY DEF TypeOK
      <3>2. CASE job[w].policy # policy
        BY <2>2, <3>1, <3>2 DEF Calibrate, Pinned
      <3>3. CASE job[w].policy = policy
        BY <2>2, <3>1, <3>3 DEF Calibrate, Calibrated, Policy, Pinned
      <3> QED BY <3>2, <3>3
    <2>3. CASE UNCHANGED <<policy, upserted>>
      BY <2>3 DEF Pinned
    <2>4. \/ \E w \in Threads : Upsert(w) \/ Calibrate(w)
          \/ UNCHANGED <<policy, upserted>>
      BY DEF Next, vars, Read, Miss, ReadDatabase, Fill, ReadIndex, WriteIndex, Write, WriteTask,
         CollectKeys, DeleteKey, ReadPolicy, SaveLimits, DeleteLimits, CommitLimits, Die, Expire,
         ExpireIndex
    <2> QED BY <2>1, <2>2, <2>3, <2>4
  <1>3. TypeOK /\ Pinned => PinsHold
    BY DEF TypeOK, Policy, Pinned, PinsHold
  <1> QED BY <1>1, <1>2, <1>3, CachesTypeCorrect, PTL DEF Spec

-------------------------------------------------------------------------------
(* Invalidation                                                            *)

(* The keys that an invalidation names without asking the index.           *)
Watched == (FixedKeys \cup {Threshold}) \cap KeysOf(cache)

(* What is cached under k, or about to be, and was read before commit v    *)
(* has been overtaken by a deletion.                                       *)
Current(k, v) ==
    /\ ~entry[k].empty /\ ~entry[k].overtaken => entry[k].version >= v
    /\ \A w \in Threads :
         job[w].at = "filling" /\ job[w].key = k /\ ~job[w].overtaken => job[w].version >= v

(* Current from the key's deletion on, for the invalidations under way as  *)
(* for the complete ones.                                                  *)
Swept ==
    /\ \A k \in Keys \ KeysOf(cache) : entry[k].empty
    /\ \A k \in Watched : Current(k, evicted)
    /\ \A w \in Threads :
         job[w].at = "deleting" => \A k \in Watched \ job[w].keys : Current(k, job[w].version)

(* Every step but a fill and a deletion: entries stay or vanish, and a     *)
(* thread that goes on neither stores what is old nor skips a key.         *)
LEMMA SweptFrame ==
  ASSUME TypeOK, Swept, cache' = cache, evicted' = evicted,
         \A k \in Keys : entry'[k] = entry[k] \/ entry'[k].empty,
         \A v \in Threads :
            \/ job'[v] = job[v]
            \/ job'[v].at \notin {"filling", "deleting"}
            \/ job'[v].at = "filling" /\ job'[v].version = version
            \/ job'[v].at = "deleting" /\ Watched \subseteq job'[v].keys
  PROVE  Swept'
  <1>1. version \in Nat /\ evicted \in Nat /\ evicted <= version
        /\ \A v \in Threads : job[v].version <= version /\ job[v].version \in Nat
    BY DEF TypeOK, JobsFit, Job
  <1>2. Watched' = Watched /\ KeysOf(cache') = KeysOf(cache)
    BY DEF Watched, KeysOf
  <1>3. Watched \subseteq Keys
    BY CacheKeys DEF Watched
  <1>4. ASSUME NEW k \in Keys, NEW v \in Nat, Current(k, v), v <= version
        PROVE  Current(k, v)'
    BY <1>1, <1>4 DEF Current
  <1>5. \A k \in Watched : Current(k, evicted)'
    BY <1>1, <1>3, <1>4 DEF Swept
  <1>6. ASSUME NEW w \in Threads, job'[w].at = "deleting", NEW k \in Watched \ job'[w].keys
        PROVE  Current(k, job[w].version)'
    <2>1. job'[w] = job[w]
      BY <1>6
    <2>2. Current(k, job[w].version)
      BY <1>6, <2>1 DEF Swept
    <2> QED BY <1>1, <1>3, <1>4, <1>6, <2>1, <2>2 DEF Current
  <1>7. \A k \in Keys \ KeysOf(cache) : entry'[k].empty
    BY DEF Swept
  <1> QED BY <1>2, <1>5, <1>6, <1>7 DEF Swept

LEMMA FillSwept ==
  ASSUME TypeOK, Swept, NEW w \in Threads, Fill(w)
  PROVE  Swept'
  <1> DEFINE f == job[w].key
  <1>1. /\ f \in KeysOf(cache) /\ f \in Keys /\ job[w].at = "filling"
        /\ KeysOf(cache) \subseteq Keys
    BY CacheKeys DEF Fill, At, TypeOK, JobsFit, Works
  <1>2. /\ entry' = [entry EXCEPT ![f] = [version |-> job[w].version,
                                         overtaken |-> job[w].overtaken, empty |-> FALSE]]
        /\ UNCHANGED <<cache, version, evicted>>
    BY DEF Fill
  <1> HIDE DEF f
  <1>3. /\ entry'[f] = [version |-> job[w].version, overtaken |-> job[w].overtaken, empty |-> FALSE]
        /\ \A k \in Keys \ {f} : entry'[k] = entry[k]
    BY <1>1, <1>2 DEF TypeOK
  <1>4. /\ job'[w].at \notin {"filling", "deleting"}
        /\ \A v \in Threads \ {w} : job'[v] = job[v]
    BY IdleTypes DEF Fill, Return, TypeOK, JobsFit, Job
  <1>5. Watched' = Watched /\ Watched \subseteq Keys /\ KeysOf(cache') = KeysOf(cache)
    BY <1>1, <1>2 DEF Watched
  <1>6. ASSUME NEW k \in Keys, NEW v, Current(k, v) PROVE
          /\ ~entry'[k].empty /\ ~entry'[k].overtaken => entry'[k].version >= v
          /\ \A u \in Threads : job'[u].at = "filling" /\ job'[u].key = k /\ ~job'[u].overtaken
                => job'[u].version >= v
    <2>1. CASE k = f
      BY <1>1, <1>3, <1>4, <1>6, <2>1 DEF Current, f
    <2>2. CASE k # f
      BY <1>3, <1>4, <1>6, <2>2 DEF Current
    <2> QED BY <2>1, <2>2
  <1>7. \A k \in Watched : Current(k, evicted)'
    BY <1>2, <1>5, <1>6 DEF Swept, Current
  <1>8. ASSUME NEW v \in Threads, job'[v].at = "deleting", NEW k \in Watched \ job'[v].keys
        PROVE  Current(k, job[v].version)'
    <2>1. job'[v] = job[v]
      BY <1>4, <1>8
    <2>2. Current(k, job[v].version)
      BY <1>8, <2>1 DEF Swept
    <2> QED BY <1>5, <1>6, <1>8, <2>1, <2>2 DEF Current
  <1>9. \A k \in Keys \ KeysOf(cache) : entry'[k].empty
    BY <1>1, <1>3 DEF Swept
  <1> QED BY <1>5, <1>7, <1>8, <1>9 DEF Swept

LEMMA DeleteSwept ==
  ASSUME TypeOK, Swept, NEW w \in Threads, DeleteKey(w)
  PROVE  Swept'
  <1>1. PICK d \in job[w].keys :
          LET rest == job[w].keys \ {d} IN
          /\ job' = [Overtaken(d) EXCEPT ![w] = IF rest = {} THEN Idle ELSE [@ EXCEPT !.keys = rest]]
          /\ evicted' = IF rest = {} /\ job[w].version > evicted THEN job[w].version ELSE evicted
          /\ IF d = Index
             THEN index' = {} /\ UNCHANGED entry
             ELSE entry' = [entry EXCEPT ![d] = Nothing] /\ UNCHANGED index
    BY DEF DeleteKey
  <1> DEFINE rest == job[w].keys \ {d}
  <1>2. /\ job[w] \in Job /\ job[w].at = "deleting" /\ job[w].version \in Nat
        /\ cache' = cache /\ evicted \in Nat /\ KeysOf(cache) \subseteq Keys
        /\ d \in Keys \cup {Index}
    BY CacheKeys DEF DeleteKey, At, TypeOK, JobsFit, Job
  <1>3. Watched' = Watched /\ Watched \subseteq Keys /\ KeysOf(cache') = KeysOf(cache)
        /\ Index \notin Watched
    BY <1>2, KeysApart DEF Watched
  <1>4. /\ \A k \in Keys \ {d} : entry'[k] = entry[k]
        /\ d \in Watched => entry'[d].empty
    BY <1>1, <1>2, <1>3 DEF TypeOK, Nothing
  <1>5. \A k \in Keys : entry'[k] = entry[k] \/ entry'[k].empty
    BY <1>1, <1>2 DEF TypeOK, Nothing
  <1>6. /\ job'[w] = Idle \/ job'[w] = [job[w] EXCEPT !.keys = rest]
        /\ rest = {} => job'[w] = Idle
        /\ \A v \in Threads \ {w} :
             job'[v] = IF job[v].at = "filling" /\ job[v].key = d
                       THEN [job[v] EXCEPT !.overtaken = TRUE] ELSE job[v]
    BY <1>1, <1>2 DEF Overtaken
  <1>7. job'[w].at \in {"idle", "deleting"} /\ \A v \in Threads : job[v] \in Job
    BY <1>2, <1>6, IdleTypes DEF Job, TypeOK, JobsFit
  <1>8. ASSUME NEW k \in Watched, NEW v \in Nat, Current(k, v) \/ k = d
        PROVE  Current(k, v)'
    <2>1. ~entry'[k].empty /\ ~entry'[k].overtaken => entry'[k].version >= v
      BY <1>3, <1>4, <1>8 DEF Current
    <2>2. ASSUME NEW u \in Threads, job'[u].at = "filling", job'[u].key = k, ~job'[u].overtaken
          PROVE  job'[u].version >= v
      <3>1. u # w
        BY <1>7, <2>2
      <3>2. ~(job[u].at = "filling" /\ job[u].key = d)
        BY <1>6, <1>7, <2>2, <3>1 DEF Job
      <3>3. job'[u] = job[u]
        BY <1>6, <3>1, <3>2
      <3> QED BY <1>8, <2>2, <3>2, <3>3 DEF Current
    <2> QED BY <2>1, <2>2 DEF Current
  <1>9. ASSUME NEW k \in Watched \ rest PROVE Current(k, job[w].version) \/ k = d
    BY <1>2, <1>9 DEF Swept
  <1>10. evicted' \in Nat /\ \A k \in Watched : Current(k, evicted) /\ (rest = {} => Current(k, job[w].version) \/ k = d)
    BY <1>1, <1>2, <1>9 DEF Swept
  <1>11. ASSUME NEW k \in Watched, NEW n \in Nat, n = evicted' PROVE Current(k, n)'
    BY <1>1, <1>2, <1>8, <1>10, <1>11
  <1>12. \A k \in Watched : Current(k, evicted)'
    BY <1>10, <1>11 DEF Current
  <1>13. ASSUME NEW u \in Threads, job'[u].at = "deleting", NEW k \in Watched \ job'[u].keys,
                NEW n \in Nat, n = job'[u].version
         PROVE  Current(k, n)'
    <2>1. CASE u = w
      <3>1. job'[w] = [job[w] EXCEPT !.keys = rest]
        BY <1>6, <1>13, <2>1, IdleTypes
      <3>2. job'[w].keys = rest /\ job'[w].version = job[w].version
        BY <1>2, <3>1 DEF Job
      <3> QED BY <1>8, <1>9, <1>13, <2>1, <3>2
    <2>2. CASE u # w
      <3>1. job'[u] = job[u]
        BY <1>6, <1>7, <1>13, <2>2 DEF Job
      <3>2. Current(k, n)
        BY <1>13, <3>1 DEF Swept
      <3> QED BY <1>8, <1>13, <3>2
    <2> QED BY <2>1, <2>2
  <1>14. \A u \in Threads : job'[u].at = "deleting" =>
            \A k \in Watched \ job'[u].keys : Current(k, job[u].version)'
    <2>1. \A u \in Threads : job'[u].version \in Nat
      BY StepTypes DEF TypeOK, JobsFit, Job, Next, Write
    <2> QED BY <1>13, <2>1 DEF Current
  <1>15. \A k \in Keys \ KeysOf(cache) : entry'[k].empty
    BY <1>5 DEF Swept
  <1> QED BY <1>3, <1>12, <1>14, <1>15 DEF Swept

(* Every step keeps what deletions achieved.                               *)
LEMMA StepSwept == TypeOK /\ Swept /\ [Next]_vars => Swept'
  <1> SUFFICES ASSUME TypeOK, Swept, [Next]_vars PROVE Swept'
    OBVIOUS
  <1>1. \A k \in Keys : [entry EXCEPT ![k] = Nothing][k].empty
    BY DEF TypeOK, Nothing
  <1>2. ASSUME NEW w \in Threads,
               Miss(w) \/ ReadDatabase(w) \/ ReadIndex(w) \/ WriteIndex(w) \/ Die(w)
        PROVE  Swept'
    <2>1. \A v \in Threads \ {w} : job'[v] = job[v]
      BY <1>2 DEF Miss, ReadDatabase, ReadIndex, WriteIndex, Die, Return, TypeOK, JobsFit
    <2>2. \/ job'[w] = job[w]
          \/ job'[w].at \notin {"filling", "deleting"}
          \/ job'[w].at = "filling" /\ job'[w].version = version
      <3>1. job \in [Threads -> Job] /\ job[w] \in Job /\ Idle \in Job /\ Idle.at = "idle"
        BY IdleTypes DEF TypeOK, JobsFit
      <3>2. CASE Miss(w)
        BY <3>1, <3>2 DEF Miss, Job
      <3>3. CASE ReadDatabase(w)
        BY <3>1, <3>3 DEF ReadDatabase, Job
      <3>4. CASE ReadIndex(w)
        BY <3>1, <3>4 DEF ReadIndex, Return, Job
      <3>5. CASE WriteIndex(w) \/ Die(w)
        BY <3>1, <3>5 DEF WriteIndex, Die, Return
      <3> QED BY <1>2, <3>2, <3>3, <3>4, <3>5
    <2>3. cache' = cache /\ evicted' = evicted /\ entry' = entry
      BY <1>2 DEF Miss, ReadDatabase, ReadIndex, WriteIndex, Die
    <2> QED BY <2>1, <2>2, <2>3, SweptFrame
  <1>3. ASSUME NEW w \in Threads,
               WriteTask(w) \/ ReadPolicy(w) \/ SaveLimits(w) \/ DeleteLimits(w) \/ CommitLimits(w)
        PROVE  Swept'
    <2>1. \A v \in Threads \ {w} : job'[v] = job[v]
      BY <1>3 DEF WriteTask, Commit, ReadPolicy, SaveLimits, DeleteLimits, CommitLimits, Return,
         TypeOK, JobsFit
    <2>2. job'[w].at \notin {"filling", "deleting"}
      <3>1. job \in [Threads -> Job] /\ job[w] \in Job /\ Idle \in Job /\ Idle.at = "idle"
        BY IdleTypes DEF TypeOK, JobsFit
      <3>2. CASE WriteTask(w)
        BY <3>1, <3>2 DEF WriteTask, Commit, Job
      <3>3. CASE ReadPolicy(w)
        BY <3>1, <3>3 DEF ReadPolicy, Job
      <3>4. CASE SaveLimits(w)
        BY <3>1, <3>4 DEF SaveLimits, Job
      <3>5. CASE DeleteLimits(w) \/ CommitLimits(w)
        BY <3>1, <3>5 DEF DeleteLimits, CommitLimits, Return, Job
      <3> QED BY <1>3, <3>2, <3>3, <3>4, <3>5
    <2>3. cache' = cache /\ evicted' = evicted
          /\ \A k \in Keys : entry'[k] = entry[k] \/ entry'[k].empty
      BY <1>3 DEF WriteTask, ReadPolicy, SaveLimits, DeleteLimits, CommitLimits, TypeOK, Nothing
    <2> QED BY <2>1, <2>2, <2>3, SweptFrame
  <1>4. ASSUME NEW w \in Threads, Upsert(w) \/ Calibrate(w) PROVE Swept'
    <2>1. cache = "threshold"
      BY <1>4 DEF Upsert, Calibrate, At, TypeOK, JobsFit, Works, StepsOf, Steps
    <2>2. Watched \subseteq {Threshold}
      BY <2>1 DEF Watched, KeysOf
    <2>3. /\ job' = [job EXCEPT ![w] = [Idle EXCEPT !.at = "deleting", !.version = version + 1,
                                                    !.keys = {Threshold}]]
          /\ cache' = cache /\ evicted' = evicted /\ entry' = entry
      BY <1>4 DEF Upsert, Calibrate, Commit
    <2>4. /\ \A v \in Threads \ {w} : job'[v] = job[v]
          /\ job'[w].at = "deleting" /\ job'[w].keys = {Threshold}
      BY <2>3 DEF TypeOK, JobsFit, Idle
    <2> QED BY <2>2, <2>3, <2>4, SweptFrame
  <1>5. ASSUME NEW w \in Threads, CollectKeys(w) PROVE Swept'
    <2>1. cache = "tasks" /\ job[w] \in Job
      BY <1>5 DEF CollectKeys, At, TypeOK, JobsFit, Works, StepsOf, Steps
    <2>2. Watched \subseteq DoomedKeys
      BY <2>1, KeysApart DEF Watched, KeysOf, DoomedKeys
    <2>3. /\ \A v \in Threads \ {w} : job'[v] = job[v]
          /\ job'[w].at = "deleting" /\ job'[w].keys = DoomedKeys
          /\ cache' = cache /\ evicted' = evicted /\ entry' = entry
      BY <1>5, <2>1 DEF CollectKeys, TypeOK, JobsFit, Job
    <2> QED BY <2>2, <2>3, SweptFrame
  <1>6. ASSUME NEW k \in Keys, Expire(k) PROVE Swept'
    <2>1. /\ \A j \in Keys : entry'[j] = entry[j] \/ entry'[j].empty
          /\ cache' = cache /\ evicted' = evicted /\ job' = job
      BY <1>1, <1>6 DEF Expire, TypeOK
    <2> QED BY <2>1, SweptFrame
  <1>7. CASE ExpireIndex \/ UNCHANGED vars
    BY <1>7, SweptFrame DEF ExpireIndex, vars
  <1> QED BY <1>2, <1>3, <1>4, <1>5, <1>6, <1>7, FillSwept, DeleteSwept DEF Next, Read, Write

(* EvictedAnswersStayAway: after a complete invalidation only an overtaken *)
(* fill leaves an older list, detail or threshold in the cache, however    *)
(* many invalidations and fills overlap and whatever the index lost.       *)
THEOREM EvictedStayAway == Spec => []EvictedAnswersStayAway
  <1>1. Init => Swept
    <2> SUFFICES ASSUME Init PROVE Swept
      OBVIOUS
    <2>1. \A k \in Keys : entry[k].empty
      BY DEF Init, Nothing
    <2>2. \A w \in Threads : job[w].at = "idle"
      BY IdleTypes DEF Init
    <2>3. KeysOf(cache) \subseteq Keys
      BY InitTypes, CacheKeys
    <2> QED BY <2>1, <2>2, <2>3 DEF Swept, Current, Watched
  <1>2. TypeOK /\ Swept => EvictedAnswersStayAway
    <2> SUFFICES ASSUME TypeOK, Swept, NEW k \in FixedKeys \cup {Threshold},
                        ~entry[k].empty, ~entry[k].overtaken
                 PROVE  entry[k].version >= evicted
      BY DEF EvictedAnswersStayAway
    <2>1. k \in Keys
      BY DEF Keys, TaskKeys
    <2>2. k \in Watched
      BY <2>1 DEF Watched, Swept
    <2> QED BY <2>2 DEF Swept, Current
  <1> QED BY <1>1, <1>2, StepSwept, CachesTypeCorrect, PTL DEF Spec
===============================================================================
