# TLA+ models of the multilingual task API

The repository is a multi-tenant service for collecting human feedback on
language-model outputs: Django REST views and Celery workers over PostgreSQL,
with Redis as broker, cache and lock server.  This directory holds TLA+ models
of the parts in which concurrency, time and failure decide whether the service
is right, the TLC configurations that check them on small instances, and proofs
checked by TLAPS for instances of any size.

The models are written from the code.  `PROJECT.json` maps every definition to
the lines it stands for, lists every run with its properties, the hazards each
property is aimed at, and the places where the code and a sentence of its
documentation disagree.

## 1. Inventory of the system

Handlers run without `ATOMIC_REQUESTS`: each query of a request is a transaction
of its own unless the code opens `transaction.atomic()`.  Isolation is
PostgreSQL's READ COMMITTED.  This is why the models are built from transaction
boundaries: a request is a process that remembers what it read.

| Component | State it keeps | Operations | Hard behaviour | What makes it correct | Modelled in |
|---|---|---|---|---|---|
| **Consensus rule** `tasks/consensus.py` | none | weighted majority of the ballots, rounded to four decimals | rounding at the one-half boundary, ties | the rule is the exact weighted majority; more support never unmakes a decision | `Consensus` |
| **Task workflow** `tasks/views.py`, `consensus.py`, `calibration.py`, `serializers.py`, `tasks.py` | `tasks_task`, `tasks_taskannotation`, `tasks_annotatorcalibration`, outbox rows | claim, annotate, gold evaluation, adjudicate, triage, PATCH, translate, delete, restore | stale copies saved over newer rows, overlapping transactions that do not see each other, leases that run out | decisions have a quorum or an adjudicator; nothing decided, completed or escalated goes unpublished; leases exclude | `TaskWorkflow` |
| **Outbox relay** `core/outbox.py` | `core_outboxevent` | enqueue, drain (reclaim, claim, dispatch, record), sweep, trigger, replay, prune | crashes between claim and result, lost broker, concurrent drains, late results | at-least-once: an event is owed from its commit until every subscriber has a message, or it is a dead letter | `OutboxRelay`, `RelayContract` |
| **Webhook delivery** `core/webhooks.py`, `tasks/tasks.py`, `core/tenant_views.py` | `failure_count`, `is_active` of an endpoint; delivery log | deliver, retry, auto-disable, test, replay, recover, delete | concurrent deliveries over one counter read earlier; early-acknowledged Celery messages | an endpoint is disabled only after enough failures; every message ends, with a cause | `WebhookDelivery` |
| **WebSockets** `core/consumers.py`, `core/events.py`, `tasks/signals.py` | groups, inbox and recently seen events of a connection | connect, subscribe, broadcast, de-duplicate, leave | one event by three groups, awaits inside handlers, a layer that fails | an event is shown once within the window; who is there gets it | `TaskSockets` |
| **AI circuit breaker** `ai_assist/circuit_breaker.py` | state, failure counters and probe lock in Redis; a copy per process | call, success, failure, refresh, reset | two processes, late outcomes of old calls, lock expiry | a single recovery probe at a time; the circuit recovers | `CircuitBreaker` |
| **Idempotency** `core/idempotency.py` | records and locks in the cache | look up, lock, execute, store, unlock | a record read before the lock, a lock that expires, dying servers | one request per key at a time; a late retry executes nothing | `Idempotency` |
| **AI services and budget** `ai_assist/services.py`, `core/finops.py` | usage ledger, monthly counter, alert marks, cached results | ask, check, call, record, alert | check and use far apart; a counter the cache loses | the overshoot is bounded by what was in flight; each threshold alerts once | `AIRequests` |
| **Audit chain** `core/audit_chain.py`, `core/merkle.py` | hash-linked log, checkpoints | seal, verify, checkpoint, inclusion and consistency proofs | concurrent seals, two reads of one verification, keys and accounts that go away | the log is one gapless chain; valid reports are true and alarms have a cause; proofs verify exactly | `AuditChain`, `Merkle` |
| **Organizations, SSO, SCIM** `core/models.py`, `core/tenant_views.py`, `core/sso.py` | members, roles, accounts, API keys | found, invite, change role, remove, keys, log in, provision, update, offboard | check-then-write races, several ways to one row | an organization keeps an owner; roles come from owners; offboarding takes what it must and no more | `Membership` |
| **Plan limits** `core/middleware.py`, `core/throttling.py`, `tasks/views.py`, `core/graphql/schema.py` | counts of tasks, AI counter, request times | create, restore, import, ask the AI | every limit is read first and used later, in several places | exact for requests one by one; a bounded overshoot for overlapping ones | `PlanLimits` |
| **Caches** `tasks/views.py`, `tasks/uncertainty.py`, `core/finops.py` | cached answers, an index of list keys, thresholds with pins | fill, invalidate, pin, calibrate | a fill that read before an invalidation and writes after it; index updates that get lost | an evicted answer returns only through a fill already begun; stale answers end | `Caches` |
| **Numerics** `tasks/calibration.py`, `tasks/uncertainty.py` | - | weight of an annotator, step of a threshold | rounding, clamping at both ends | answers and evidence move them in their direction, within their range | `Calibration` |
| **Gold and DPO export** `tasks/dpo_export.py` | - | pairing of a record | responses chosen and rejected the right way round | a record pairs a winner with what it beat | `DatasetExport` |
| **Row-level security** `core/rls.py`; **replica routing**; **authentication, signing**; **tracing, analytics**; **admin, settings** | little or none | translation, parsing, reading | - | see section 6 | - |

How they meet: the **task workflow** commits its outbox rows in the transactions
of its decisions; the **relay** turns committed rows into Celery messages, which
**webhook delivery** consumes; saved rows also send **WebSocket** broadcasts and
invalidate **caches**.  The workflow asks the **AI services** for translations
and judgements, through the **circuit breaker** and under the **budget**, and
keeps a row's copy across the call.  The **idempotency** middleware, the plan's
**quotas** and the **throttles** stand in front of the views.  **Members** and
their roles decide who may do what, and administrative handlers add to the
**audit chain**.

## 2. The modules

| Module | What it is |
|---|---|
| `Consensus` | The consensus rule as operators on ballots and weights (in ten-thousandths) with the code's rounding. |
| `TaskWorkflow` | Tasks, annotations, calibration counters and outbox events; `req[w]` is what web or Celery process `w` is in the middle of. |
| `OutboxRelay` | Rows of the outbox and the drains, replays and prunes that work on them. |
| `RelayContract` | The abstract promise of the outbox: none, owed, met or dead. |
| `WebhookDelivery` | The messages to one endpoint, with retries, and the endpoint's row. |
| `TaskSockets` | Broadcasts, the channel layer and the consumers of sockets. |
| `CircuitBreaker` | The breaker in front of the LLM provider: keys in Redis, a copy per process, and the threads between them. |
| `Idempotency`, `AIRequests` | The middleware, and the AI endpoints as the handlers it surrounds: result cache, budget, provider, ledger, alerts. |
| `AuditChain`, `Merkle` | The chained log with its checkpoints, over the transparency tree as pure operators. |
| `Membership` | Members, accounts and API keys of organizations. |
| `PlanLimits` | Tasks, AI requests and request rates of a plan. |
| `OrganizationLimits` | `Membership` and `PlanLimits` side by side: all limits of a plan. |
| `Caches` | Task answers, escalation thresholds and AI limits in the cache. |
| `Calibration`, `DatasetExport` | The numerics of calibration, and the pairing of a preference record. |
| `Algorithms` | All pure operators against reference definitions, one input at a time. |
| `MC*` (others) | Symmetry sets and instances for TLC. `MCMembership` extends `OrganizationLimits`. |
| `TaskWorkflow_proofs` | Type correctness, supported decisions, announced transitions, one ballot per annotator, exact calibration counters, live leases stay; then the consensus rule, calibration and the pairs of the export for inputs of any size. |
| `OutboxRelay_proofs` | Type correctness, dispatched events were sent, exclusive claims, the refinement of `RelayContract`. |
| `CircuitBreaker_proofs` | Type correctness; single probes, shared and local. |
| `Notifications_proofs` | Webhooks: ends and disabled endpoints are explained. Sockets: events are shown once. |
| `AIRequests_proofs` | Type correctness, the promises of an idempotency key, the bound on the overshoot, alerts. |
| `AuditChain_proofs` | Sealed records fit, intact tables verify, alarms have a cause, valid reports are true; then that the proofs of `Merkle` are exact in trees of every size, and that every entry is provable. |
| `Membership_proofs` | Type correctness, owners, offboarding, seats; the limits of a plan. |
| `Caches_proofs` | Type correctness, pins, evicted answers. |

`TaskWorkflow` extends `Consensus`, `AIRequests` extends `Idempotency` and
`AuditChain` extends `Merkle`; `OrganizationLimits` extends `Membership` and
instantiates `PlanLimits`; `OutboxRelay` instantiates `RelayContract` with the
refinement `life <- Life(status)`.

### Correspondence: TaskWorkflow

| In the model | In the code |
|---|---|
| `row[t]` | the columns `is_active`, `status`, `claimed_by` (`holder`), `claimed_until` (`until`), `consensus_choice`, and the pair difficulty = expert / `auto_escalated` as `escalated` |
| `annotations[t]` | the committed annotations, as pairs annotator and preference |
| `evaluated`, `correct` | `gold_evaluated_count`, `gold_correct_count` |
| `outbox` | the events committed with the transactions (type, task, choice, by whom) |
| `req[w].snap` | the task instance a handler fetched with `get_object` and keeps |
| `req[w].asOf` | `now` of a claim |
| `ClaimSelect`, `ClaimLock`, `ClaimNothing` | the two queries of `claim`: candidates without a lock, then `select_for_update(skip_locked=True)` with the lease predicate |
| `AnnotateRead` | `get_object` and the two 409 checks |
| `AnnotateInsert` | the start of the transaction up to the read of the ballots; the annotation is not visible to others yet |
| `AnnotateCommit`, `AnnotateGoldCommit` | the rest of it: `evaluate_task_consensus` or `evaluate_gold_annotation`, with its events |
| `UpdateCommit`, `TranslateCommit` | `save()` without `update_fields`: every column of the copy |
| `TriageCommit` | `save(update_fields=...)` with what changed in the copy |
| `Abandon` | a rejected body, a failed LLM call, a dead process: an open transaction rolls back |

The annotator's weight at the time of an evaluation is any value of
`CalibratedWeights` once he has answered a gold task, and the neutral 1.0
before; the Bayesian formula only decides which.  The LLM judge's answer is
nondeterministic.

### Correspondence: OutboxRelay

| In the model | In the code |
|---|---|
| `status`, `attempts` | the columns of `OutboxEvent` |
| `due[e]` | `next_attempt_at <= now` |
| `sent[e]` | the endpoints whose message the broker has accepted |
| `job[w]` | the local variables of a running `drain_outbox_batch` |
| `Start` (`Sweep`, `Trigger`) | the reclaiming UPDATE, from the 15-second Beat task or from `on_commit` |
| `Lock`, `Claim` | the SELECT FOR UPDATE SKIP LOCKED and the UPDATE with its commit |
| `Dispatch`, `Record` | one event's dispatch and its result, in the order of `created_at` |
| `BecomeDue` | time |
| `Crash` | the death of a worker, its hard time limit included |
| `ReplayRead`, `ReplayCommit` | `get_object_or_404` with the status check, and the save |

`Overrun` says whether a drain may outlive its claim.  The claim lasts
`STALE_PROCESSING_SECONDS` = 300 and Celery kills a task at
`CELERY_TASK_TIME_LIMIT` = 300, counted from before the claim, so `FALSE` is the
deployed system on a worker pool that enforces the limit; `TRUE` covers pools
that do not and clocks that disagree.

### Correspondence: CircuitBreaker

| In the model | In the code |
|---|---|
| `openFor`, `openTTL` | the time left until the value of `open_until`, and the time to live of that key: two clocks, since a circuit whose window has passed is half-open while the key lives and closed afterwards |
| `lockFor` | the time to live of `probe_lock` |
| `failures`, `failuresTTL` | the counter key; the model stops counting at the threshold, since only `>=` is asked of it |
| `local[p]` | the fields of the singleton in process `p`; `since` is the age of `_last_failure_time`, up to the timeout |
| `call[c]` | where thread `c` is: before the probe lock (`asked`), inside `func` (`running`), or before one of the commands of `_on_success` and `_on_failure`; `probe` is where `was_half_open` came from |
| `Enter`, `EnterLocal` | `call` when `open_until` can be read, and when it cannot |
| `Succeed`, `Fail` | the return of `func` with the half of the outcome under `self._lock` |
| `Clear`, `Unlock`, `Count`, `Reopen` | the cache commands, one each; `incr` with its `add` fallback is one |
| `Reset`, `Observe`, `Crash` | `reset()`, the `state` property, a restarted process |

Time passes in `Tick`, which ages calls and windows.  `reliable` is chosen at the
start: a Redis that executes every command, or one of which any command may fail
before or after its effect.  `Prompt` says that a call ends within
`recovery_timeout` of its admission: 60 seconds, which is also the time to live
of the probe lock, against a provider timeout of 30 seconds per attempt and two
attempts.  That is a narrow margin, and without it the probe lock runs out under
the probe and a second probe starts: `SingleFlight` is a promise under `Prompt`
only.  The probe lock lives `max(5, recovery_timeout)`, which is the timeout for
every configured value.

### Correspondence: WebhookDelivery

| In the model | In the code |
|---|---|
| `present`, `active`, `count` | the row of the endpoint, `is_active` and `failure_count` |
| `message[m]`, `tries[m]` | the Celery message of a delivery and `self.request.retries` |
| `job[x]` | a running delivery with the endpoint as it read it: `active` and `count` are the copy it computes from |
| `Take`, `Deliver` | the acknowledged message, the POST of seconds, the delivery row and the save of the counter, as separate steps |
| `received` | what the receiver saw; it may refuse, or answer too late to count |
| administrators' jobs | test and replay post through the same path; recover and delete write the row at once |

### Correspondence: TaskSockets

| In the model | In the code |
|---|---|
| `publisher[p]` | a thread inside `publish_task_event`, with the groups it has still to send to |
| `groups`, `inbox` | the channel layer: memberships and the queue of a channel, of limited capacity |
| `stage[s]` | where the consumer of a socket is: each `await` ends a step |
| `seen[s]`, `shown[s]` | the deque `_seen_event_ids`, and the frames sent to the client |
| `lost` | a pair of socket and event that the layer refused or a full channel dropped; the code logs such failures and goes on |

### Correspondence: Idempotency and AIRequests

| In the model | In the code |
|---|---|
| `record[k]`, `lock[k]` | the two cache keys of an idempotency key; `lock` also remembers whose it is, which the code does not |
| `executed[k]` | how often a handler answered with success under the key |
| `ledger`, `counter` | the committed `AIUsageLog` rows, and the monthly counter in the cache, `Cold` when it must be seeded from the rows |
| `raised`, `alerts` | the marks set with `cache.add`, and the alerts in the outbox |
| `Slow` | may a handler outlive the 30 seconds of the lock?  `FALSE` in the run, which is what `InFlightOnce` needs |

### Correspondence: AuditChain and Merkle

A digest is the term it was computed from, so that equal digests mean equal
contents.  A worker is a transaction that seals an entry, or a verification: two
reads, of the rows and of the checkpoints, and a report, which may go on to be
notarized.  `disturbed` is the one thing that happens behind the service: a row
edited, a row rewritten with fresh digests, rows lost, an account deleted
(`SET_NULL` on the actor), or a changed signing key.

`Merkle` follows the recursive tree, inclusion and consistency algorithms of
`core/merkle.py`.  A recursion of the code on a slice of the digests is a
function on the parts of the sequence, pairs of a first and a last position
(`TreesOver`, `PathsOver`, `PathsFrom`); the loop of a verifier is a fold of
`Climb` or `ClimbBoth` over the path, and its inner loop, which shifts while the
last bit is 0 (or 1), the division by the power of two in `Span`.

### Correspondence: Membership

| In the model | In the code |
|---|---|
| `role[o][u]` | the row of `OrganizationMember` |
| `account[u]` | the row of the user and `is_active` |
| `keys[o]` | API keys not revoked, by creator and role |
| `req[w]` | a request between its authorization, its decision and its commit |
| `Authorize`, then `Invite`, `ChangeRole`, ... | `_require_org_admin`, then the checks of the view |
| `Login`, `Provision`, `Update`, `Offboard` | the functions of `core/sso.py`; `CountElsewhere` is the count of other memberships in `_deprovision_member_locked` |
| `Commit`, `Rollback` | the writes, or an integrity error |

`Isolated` says that a removal overlaps no request on its organization or user.
The code takes no lock that would ensure it; it describes administrators and
directories that do not work against each other.  Three properties need it, and
with `Isolated = FALSE` TLC finds them violated: `OwnersRemain` (two owners demote
each other at the same moment), `OffboardedHoldNoKeys` (a key authorized before
an offboarding commits after it) and `OffboardingSparesMembers` (an invitation
commits after the other memberships were counted).

### Correspondence: PlanLimits

| In the model | In the code |
|---|---|
| `tasks`, `deleted` | rows with and without `is_active` |
| `used` | the entry `mltask:quota:ai:<org>`; 0 stands for no entry |
| `history[s]` | the list of request times of a throttle |
| `Enter`, `Count`, `StartCount` | `process_view`: the check, `cache.incr`, and `cache.set` when there was nothing to increment |
| `EnterGraphQL` | the count inside `_create_task_sync`, which no throttle precedes |
| `MaxBatch` | the rows of an import the serializer accepts |
| `Recent` | the loop that pops what has left the window: it stops at the first time that has not |
| `ReadHistory`, `WriteHistory` | the two cache commands of a throttle; every throttle of a view is asked, refused or not |
| `CountBatch`, `Create`, `Restore` | the views |

A request is charged to the AI counter before its throttles are asked, so that
requests answered with 429 use up the quota of the day; the model shows it, and
nothing in the repository says otherwise.

A `cache.set` that comes late puts the AI counter back to 1, so that more pass
than were in flight: `OvershootBounded` allows `n` workers
`n * MaxAIRequests + n * (n - 1) / 2` AI requests in a day, which two workers
reach in the run.

### Correspondence: Caches

A behaviour is about one cache, chosen at the start: task answers (`FixedKeys`,
which an invalidation names, and `Variants`, which it knows through the index
only), a threshold, or limits.  `version` counts commits, an `entry` shows the
version it was filled from, and `overtaken` marks a fill during which an
invalidation passed.

## 3. Runs

All runs check deadlock except where said.  Bounds: two workers show every pair
of overlapping requests, which is where all the races of this code are; a third
adds no new pair.

| Run | Instance | Shows |
|---|---|---|
| `decisions` | 1 task, 3 annotators, quorum 2, two requests in flight among annotate, adjudicate, PATCH and translate | decisions keep their support and are announced although stale copies are written back |
| `leases` | 2 gold tasks, 2 annotators, leases of 1 under a clock up to 1, two requests among claim, annotate, triage, delete; the instance ends when all is annotated, so deadlock is not checked | a live lease is not transferred, a double submission leaves one ballot, counters agree with ballots |
| `algorithms` | four annotators with four weights, trees of up to 9 leaves, up to 30 gold answers, thresholds at and between the clamps, three ballots of a record | the rounded consensus is the exact weighted majority and monotone, proofs verify exactly, weights and thresholds move with their evidence, records pair winners with what they beat |
| `outbox` | 2 events, 2 endpoints, 2 workers, 1 administrator, 2 attempts, 1 crash, 1 replay, with fairness | exclusive claims, settled means sent, final dispatch, and the refinement of `RelayContract` with its liveness |
| `webhooks` | 2 messages, 2 workers, 1 administrator with 2 interventions, limit 2, 1 retry, 1 crash, with fairness; it ends when the messages have, so deadlock is not checked | ends are accounted for, and messages end |
| `sockets` | 1 socket scoped or not, 2 users, 2 shared tasks, 2 publishers, 2 events, a memory of 1, with fairness; it ends with the events | no duplicates within the memory, and delivery |
| `breaker` | 1 process with 2 threads, threshold 2, timeout 2, keys that live 3, prompt calls, with fairness | single probes in Redis and in memory; recovery once failures end |
| `requests` | 2 workers, 1 key and none, 2 payloads, budget 2, costs 1 and 2, 1 lost counter, 1 rollback | one request per key at a time, bounded executions and overshoot, alerts once |
| `audit` | 2 workers, 1 user, 3 entries, 2 checkpoints, at most one disturbance of each kind | sealed records fit, intact tables verify, valid reports are true, alarms have a cause, entries are provable |
| `membership` | 3 users, 2 workers, an organization of 2 seats with every operation and one of 1 seat that its directory manages; or a plan of 2 tasks, imports of 1 or 2, 2 AI requests, rates of 1 and 2 in windows of 1 and 2 under a clock up to 2 | owners, roles, keys and accounts; all limits of a plan |
| `caches` | 2 threads, a plain list and a filtered one, a threshold, limits, 3 commits, with fairness | evicted answers, pins, and the end of staleness |
| `adjudication_is_final` | the smallest instance; expects a violation | section 5 |

`MaxAttempts` is 2 where the code has 10: the first attempt is retried and the
second is the last, the only two cases the code distinguishes; the limits of
failures and retries of `webhooks` are small for the same reason.  `BatchSize`
is 1 against two events, so a full batch, a rest and a skipped row occur.  One
crash and one replay meet every state of the relay; the theorems of section 4
have no such bound, and `DispatchedWasSent` covers overrunning drains, which the
run leaves out.  With leases of 1, a clock up to 1 lets one run out and be
granted again.

Two threads are enough for two probes at once, and in `breaker` the late failure
of one meets the probe of the other; with a timeout of 2 a call can see a window
begin and end, and keys that live 3 leave one unit of half-open circuit.
`FlightIsSingle` and `LocalProbeIsSingle` hold for any number of processes.

Three entries and two checkpoints let a checkpoint cover less than the one
before it, which a report read early can cause.  A tree of nine leaves has a full
left half and a lone right leaf.  Three users in an organization of two seats
exceed it together; two AI requests a day and two workers reach the tight bound
of five, by resets of the counter.  A memory of one event against events that
come by three groups lets copies be forgotten; two unfinished broadcasts
interleave.  Members, tasks and AI requests share no state, so that a behaviour
of `membership` is about one of them and their states add up.

### Fairness

In the relay, `WF(BecomeDue)`: time passes.  `WF(Drain(w))`: a started drain goes
on, or it crashes; crashes are bounded by `MaxCrashes` because a crash loop
starves any queue.  `SF(Sweep)`: Beat enqueues a sweep every 15 seconds and the
worker pool takes it up again and again between other jobs.  Nothing is assumed
of triggers or of the broker: a broker that never answers turns an event into a
dead letter, which settles it.

In the breaker, `SF(Tick)`: time passes, however often calls begin, which under
`Prompt` hold it up for a moment.  `WF(Finish(c))`: an admitted call ends, for
the provider's client has a timeout.  Nobody has to call, so `Recovers` does not
rest on traffic.

In webhook delivery, weak fairness of time, of the workers that take due messages
and of a delivery that has begun (the POST has a timeout), which may also crash.
The receiver promises nothing.  In the caches only `WF(Expire(k))`: Redis expires
keys; no thread has to go on, and no reader has to come.  In the sockets,
`WF(Send)` and `WF(Serve)`: a broadcast and a handler that have begun go on;
`SF(Receive)`: the consumer takes from its channel again and again between the
frames of its client.

Each property of a passing run has a mutant: an operator next to the definition
it replaces, changed as a slip in the code would, under which TLC finds the
property violated.

## 4. Proofs

TLC agrees on small instances first; TLAPS then proves these for every value of
the constants that satisfies the ASSUMEs of the module.

| Theorem | Statement | Argument |
|---|---|---|
| `TypeCorrect` | `Spec => []TypeOK` | one step per action |
| `DecisionsSupported` | `[]DecisionsAreSupported` | invariant `Backing`: besides the rows also every copy held by a request, and every verdict computed but not committed, is backed by an adjudicator's event or a winning subset of the ballots.  Without the copies the invariant is not inductive, since `UpdateCommit` and `TranslateCommit` write them back |
| `TransitionsAnnounced` | `[]TransitionsAreAnnounced` | the same invariant: what a copy shows has been announced, and events are never withdrawn |
| `OneBallot` | `[]OneBallotPerAnnotator` | invariant `Balloting`: an open vote's annotator has no committed ballot on the task, and no two open votes share task and annotator |
| `CountersAreExact` | `[]CalibrationCountsGoldBallots` | invariant `Counting`, on top of `Balloting`: the gold tasks an annotator has judged, and those judged right, are finite sets as large as the counters say; a committed gold ballot is a new element, since no two open votes share it |
| `ConsensusIsMajority`, `SupportIsMonotone` | `[]VerdictIsMajority`, `[]SupportKeepsVerdict`, for any number of annotators | the fold over a set of ballots is an additive function on its subsets (`WeightIsSum`), so the weight of a preference and that of the others add up; a rounded share above one half is a share above one half |
| `CalibrationIsMonotone` | `[]AnswersMoveWeightTheirWay` | a larger fraction is never rounded to less, whichever way halves go (`RoundingsAreMonotone`); the shares before and after an answer are compared by cross-multiplication |
| `ThresholdsFollow` | `[]ThresholdFollowsEvidence`, for any number of tasks | a lowered threshold is rounded from at most 0.03 less than it was (`LoweredIsLower`); without split votes the rate is 0 |
| `RecordsPairWinners` | `[]RecordIsAWinnersPair` | the first position that passes is a least element of the positions that do |
| `LiveLeaseStays` | `LiveLeaseIsNotTransferred`, if neither PATCH nor translation is used | invariant `Timely`: a claim's `asOf` is never in the future; a lease that is live now was live then |
| `RelayTypeCorrect` | `Spec => []TypeOK` | one step per action |
| `DispatchedWasSent` | `[]SettledIsSent`, with any number of administrators and overrunning drains | invariant `Settled`: a drain that holds a success has sent to everybody |
| `ClaimsExclude` | `[]ClaimsAreExclusive`, without overrun and with one administrator | invariant `Exclusion`: the work lists of drains are disjoint, a claimed event is processing and not due, a locked one pending, and an event about to be replayed is failed |
| `RelayKeepsContract` | the safety part of `RelayContract` | each action maps to a step of the contract or to a stutter, by `Exclusion` and `Settled` |
| `DispatchedStays` | `DispatchedIsFinal` | the same |
| `BreakerTypeCorrect` | `Spec => []TypeOK` | one step per action |
| `FlightIsSingle` | `[]SingleFlight`, if `Prompt` | invariant `Flight`: a call in flight when the window opens ends before the window does, so the late failures that delete the lock are over when the circuit is half open; from then on the lock outlives the call that took it.  The lock alone is not inductive, as anyone may delete it |
| `LocalProbeIsSingle` | `[]SingleLocalProbe`, if `Prompt` | invariant `LocalFlight`: a running probe leaves its mark in memory or an open window that began after it, which is not over before it |
| `EndsAreExplained` | `[]EndsAreAccounted` | invariant: the endpoint's counter, and every copy of it that a delivery computes from, is at most the number of failed posts; an endpoint that was disabled, or read as disabled, has a full count or an administrator behind it; a message is in one delivery at a time, and its logged attempts are its tries.  The copies are what makes it inductive, for deliveries save counters computed from stale reads |
| `EventsAreShownOnce` | `ShownOnce`, for any window above 0 | invariant `Remembered`: the memory of a connection is the end of what was shown to it, and equal events in what was shown are further apart than the window |
| `AITypeCorrect` | `[]TypeOK` | one step per action |
| `NoConcurrentDuplicates` | `[]InFlightOnce`, if `~Slow` | invariant `Exclusive`: whoever serves a key holds its lock, from `cache.add` to the deletion.  With `Slow` the lock expires under a handler |
| `RetriesExecuteOncePerThread` | `[]RetriesRarelyExecute`, slow handlers included | executions under a key are at most the threads that have got past the record while there was none; once an answer is stored, that set only shrinks |
| `OvershootStaysBounded` | `[]OvershootBounded` | invariant `Budgeted`: a counter that is there covers the ledger and every call on its way into it; a lost one is paid for by the threads that were at work.  The sums over threads are functions on prefixes of an enumeration |
| `AlertsOnceAndAlways` | `[]AlertsAreRaisedOnce` | a mark set with `cache.add` has one alert, committed or in one transaction; the counter is never behind the ledger |
| `EntriesContinueTheLog` | `[]SealedRecordsFit` | invariant `Locked`: who seals or drafts holds the advisory lock, and one worker holds it; `Continued`: what it read as the end is still the end |
| `TablesVerify` | `[]IntactTablesVerify` | invariants `Chained` (the rows are one gapless chain), `Reliable` (each checkpoint is anchored in a part of the log, also one that is being drafted from an old report), `KeysKept` |
| `AlarmsAreExplained` | `[]AlarmsHaveACause` | the same, read as of the time of each report |
| `ReportsAreTrue` | `[]ValidReportsAreTrue` | invariant `Attested`: every checkpoint, also a drafted one, was made from rows that a report without a fault was about, and these rows, like the stored ones, have numbers of their own.  The root of a tree tells apart sequences of equal length (`RootsDiffer`): a smallest part where two different sequences had equal trees would have a half that is smaller.  A resealed table is a chain again (`ResealedSpread`) |
| `ProofsConvinceOfTheTruth` | `[]ProofsAreExact`, for trees of every size | a verifier's place, an index and a last index shifted by some bits, is that of a part of the tree (`PlaceOf`), and one sibling takes it to the part around that one (`StepsLeft`, `StepsRight`), past the levels where a part at the right edge has no sibling.  So it uses up a path exactly if the path is as long as its own (`ClimbEnds`); its own path makes the tree (`PathMakesTree`), and one of equal length for another leaf would have two leaves in each other's place (`PathTells`).  A consistency proof starts from the last full subtree of the earlier tree (`PartingIs`), and where it passes the later tree is rebuilt exactly if it started right, and the earlier one then too (`BothMeet`).  Every step is by the smallest part that would not comply |
| `EveryEntryIsProvable` | `[]EntriesAreProvable` | the leaves that checkpoints cover are beginnings of one sequence (`CoveredLeaves`, by `Reliable`); then as above |
| `MembershipTypeCorrect` | `[]TypeOK`, which includes that a request names the role of an owner only by an owner's authority | one step per action |
| `OwnersMakeOwners` | `OwnersAreMadeByOwners` | the commit is the only step that makes owners |
| `LastOwnerStays`, `OffboardingTakesKeys`, `OffboardingIsTenantSafe`, `SeatsStayBounded` | `[]OwnersRemain`, `[]OffboardedHoldNoKeys`, `OffboardingSparesMembers`, `[]SeatsBounded`, if `Isolated` | invariant `Undisturbed`: what a request has read of the rows it is about to change still holds at its commit; for seats, the members plus the admissions under way exceed the limit by fewer than the workers |
| `PlanLimitsHold`, `LimitsAlwaysHold` | `[](OvershootBounded /\ ExactAlone)`; with the seats, `[]LimitsHold` | invariants `TasksGranted` and `ChargesGranted`: what has been admitted and not yet added fits the limit, up to what overlapping calls may add (a sum over calls, by induction on their number); `Alone`: while no call has overlapped another, the counters agree with what the only call has seen |
| `CachesTypeCorrect` | `[]TypeOK` | one step per action |
| `PinsStay` | `[]PinsHold` | invariant `Pinned`: unless a calibration that had read the policy earlier wrote it, the policy is what was upserted |
| `EvictedStayAway` | `[]EvictedAnswersStayAway` | invariant: an entry older than a complete invalidation was written by a fill that the invalidation overtook, or stands on the list of an invalidation that is still deleting |

The conditions are needed.  Two administrators can replay one event on top of
each other (section 5), and with overrun a second drain may hold the event; with
`Slow` or without `Isolated`, TLC finds the properties violated.  `TypeOK` of the
relay, the breaker, the AI requests, the members and the caches is proved only;
the runs spend their properties on behaviour.

Every safety property of the passing runs is a theorem.  Only model-checked is
liveness under fairness, with what rests on ENABLED, which is beyond the prover.

A failed attempt corrected the model of the plan: an earlier bound on AI requests,
which two workers do not exceed, is false for three, and the history of a throttle
loses what the loop of the code pops, which is not every entry outside the window
once overlapping writes have left the times out of order.

## 5. Where the code and its documentation disagree

One run checks a sentence of the documentation, and TLC finds a behaviour of the
code against it.  `PROJECT.json` quotes the sentence.

- `adjudication_is_final` - an annotation after an adjudication re-evaluates the
  task from its ballots alone, and clears the adjudicated choice.

The same models show four more behaviours that a reader of the code should
know.  The formulas are kept where they are named; no run spends its time on
them.

- A submission checks the lease before its transaction begins.  Annotator A's
  lease runs out, A's submission passes the check, B claims the task, and A's
  annotation is stored under B's lease (`LeaseExcludesOtherAnnotators` in
  `TaskWorkflow`, with claim and annotate in use).  No decision goes wrong by it.
- Two annotations that overlap do not see each other's ballot: both evaluate
  with one ballot less than the quorum, and a unanimous quorum stays undecided
  until someone else annotates or adjudicates (`UnanimousQuorumIsDecided`).
- A translation reads the row, asks the LLM, and saves every column.  A lease
  that was claimed meanwhile is overwritten with the old one
  (`LiveLeaseIsNotTransferred` with translate in use; the theorem excludes it).
- Two administrators read the same dead letter as failed.  The first replay
  makes it pending and a drain claims it; the second one's save makes it pending
  again, under the drain (`OnlyFailedIsReplayed` in `OutboxRelay`, with two
  administrators).

## 6. Not modelled

- Text, scores, languages, statistics and entropy values: they decide nothing
  that the properties distinguish, or are real arithmetic.
- Row-level security's session variables, the resolution of the tenant, and the
  router to a read replica: each belongs to one connection and one request, and
  replica lag is PostgreSQL's.  `AuditChain` does read from a lagging replica.
- Tokens, signatures, input validation: parsing and cryptography.
- Exports other than the pairing of a record: string work over rows that are
  only read.  GraphQL other than the creation of a task.
- Tasks of users without an organization, which have no events and no quota;
  changes of `is_gold` or `required_annotations` by PATCH.
- The anonymous, per-user and health throttles, which belong to the framework;
  the headers a throttle leaves.
- The audit chain of entries without an organization; the upload of a checkpoint,
  which changes its status only.
- Tracing, metrics, the admin site and migrations: observation and declarations.

## 7. Plan

Every component of the inventory that has state and concurrency has its module,
and the safety that its runs check is proved.  Next:

1. Two annotations of one task that overlap each count committed ballots only, so
   that a task can stay undecided with a full majority (`consensus.py:22`): a
   property that names the states in which it does, and a proof that there are no
   others.
2. An abstract specification of the idempotency middleware, at most one answer
   per key while nothing expires, that `Idempotency` refines step by step as
   `OutboxRelay` refines `RelayContract`.
3. The same for the verdict of the breaker, as one process would give it.
