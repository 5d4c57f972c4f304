------------------------------ MODULE PlanLimits ------------------------------
(***************************************************************************)
(* What the plan of an organization limits besides seats: active tasks, AI *)
(* requests a day, and requests in a window of time.                       *)
(*                                                                         *)
(* Every limit is read first and used afterwards, in a table or a cache    *)
(* entry that no lock protects, by web workers that serve one request each *)
(* at a time.  Roles and the requests that no limit refuses are left out.  *)
(***************************************************************************)
EXTENDS Naturals, Sequences, FiniteSets, FiniteSetsExt

CONSTANTS
    Workers, NoCall,
    MaxTasks, MaxAIRequests,
    MaxBatch,         \* MAX_BULK_CREATE_TASKS, of an import
    Rate, Duration,   \* [Scopes -> Nat], of the throttles
    MaxClock          \* bounds the time

Scopes == {"org_plan", "ai_assist", "ai_assist_burst"}

Kinds == {"create", "restore", "bulk", "graphql", "ai"}

(* size: the tasks it adds; seen and now: the history a throttle has read, *)
(* and when; refused: has one of the throttles said no?                    *)
Call == [kind : Kinds, size : 1..MaxBatch, throttles : Seq(Scopes), refused : BOOLEAN,
         phase : {"count", "start", "throttle", "insert", "write"},
         now : Nat, seen : Seq(Nat)]

VARIABLES
    tasks,      \* the active tasks of the organization
    deleted,    \* the soft-deleted ones
    used,       \* the AI counter in the cache, 0 without an entry
    history,    \* history[s]: the times a throttle let through, newest first
    clock,
    call,       \* what each worker is in the middle of
    passed,     \* AI requests that passed the quota since the counter expired
    overlapped, \* have two requests ever been served at the same time?
    admitted    \* the true histories, while none have

vars == <<tasks, deleted, used, history, clock, call, passed, overlapped, admitted>>

stores == <<tasks, deleted, used, history>>

-------------------------------------------------------------------------------

Init ==
    /\ tasks = 0 /\ deleted \in {0, 1} /\ used = 0 /\ clock = 0
    /\ history = [s \in Scopes |-> << >>]
    /\ call = [w \in Workers |-> NoCall]
    /\ passed = 0 /\ overlapped = FALSE
    /\ admitted = history

(* One free place is enough, however many tasks come.                      *)
RoomForOne(n) == tasks < MaxTasks

RoomFor(n) == tasks + n <= MaxTasks

(* The AI endpoints name throttles of their own; GraphQL has none.         *)
Throttles(kind) ==
    CASE kind = "ai" -> <<"ai_assist", "ai_assist_burst">>
      [] kind = "graphql" -> << >>
      [] OTHER -> <<"org_plan">>

In(w, phase) == call[w] # NoCall /\ call[w].phase = phase

Goto(w, phase) == call' = [call EXCEPT ![w].phase = phase]

Return(w) == call' = [call EXCEPT ![w] = NoCall]

Begin(w, kind, n, phase) ==
    /\ call[w] = NoCall
    /\ call' = [call EXCEPT ![w] =
           [kind |-> kind, size |-> n, phase |-> phase, throttles |-> Throttles(kind),
            refused |-> FALSE, now |-> 0, seen |-> << >>]]
    /\ overlapped' = (overlapped \/ \E v \in Workers : call[v] # NoCall)
    /\ admitted' = IF overlapped' THEN [s \in Scopes |-> << >>] ELSE admitted
    /\ UNCHANGED <<stores, clock, passed>>

(* process_view: a create or a restore needs room for one task and an AI   *)
(* request a rest of the quota; an import is counted by its view.          *)
Enter(w, kind, n) ==
    /\ kind \in {"create", "restore"} => RoomFor(n)
    /\ kind = "ai" => used < MaxAIRequests
    /\ Begin(w, kind, n, IF kind = "ai" THEN "count" ELSE "throttle")

(* The resolver counts for itself.                                         *)
EnterGraphQL(w) == RoomFor(1) /\ Begin(w, "graphql", 1, "write")

Pass(w) == passed' = passed + 1 /\ Goto(w, "throttle")

(* cache.incr raises without an entry, which cache.set then makes.         *)
Count(w) ==
    /\ In(w, "count")
    /\ IF used = 0 THEN Goto(w, "start") /\ UNCHANGED <<used, passed>>
                   ELSE Pass(w) /\ used' = used + 1
    /\ UNCHANGED <<tasks, deleted, history, clock, overlapped, admitted>>

StartCount(w) ==
    /\ In(w, "start") /\ Pass(w) /\ used' = 1
    /\ UNCHANGED <<tasks, deleted, history, clock, overlapped, admitted>>

-------------------------------------------------------------------------------
(* Throttles: each of a request is asked, whatever the others said.        *)

(* The oldest times are popped until one is recent.                        *)
Recent(times, s, now) ==
    SubSeq(times, 1, Max({i \in DOMAIN times : times[i] + Duration[s] > now} \cup {0}))

ReadHistory(w) ==
    LET s == Head(call[w].throttles)
        seen == Recent(history[s], s, clock) IN
    /\ In(w, "throttle") /\ call[w].throttles # << >>
    /\ call' = IF Len(seen) < Rate[s]
               THEN [call EXCEPT ![w].phase = "insert", ![w].now = clock, ![w].seen = seen]
               ELSE [call EXCEPT ![w].throttles = Tail(@), ![w].refused = TRUE]
    /\ UNCHANGED <<stores, clock, passed, overlapped, admitted>>

WriteHistory(w) ==
    LET s == Head(call[w].throttles) IN
    /\ In(w, "insert")
    /\ history' = [history EXCEPT ![s] = <<call[w].now>> \o call[w].seen]
    /\ admitted' = IF overlapped THEN admitted
                   ELSE [admitted EXCEPT ![s] = <<call[w].now>> \o Recent(@, s, clock)]
    /\ call' = [call EXCEPT ![w].phase = "throttle", ![w].throttles = Tail(@),
                            ![w].now = 0, ![w].seen = << >>]
    /\ UNCHANGED <<tasks, deleted, used, clock, passed, overlapped>>

Throttled(w) == In(w, "throttle") /\ call[w].throttles = << >>

(* 429, or the view finds fault with the request, or has nothing to write. *)
Refuse(w) ==
    /\ Throttled(w) \/ In(w, "write")
    /\ Return(w)
    /\ UNCHANGED <<stores, clock, passed, overlapped, admitted>>

-------------------------------------------------------------------------------
(* Views                                                                   *)

CountBatch(w) ==
    /\ Throttled(w) /\ ~call[w].refused /\ call[w].kind = "bulk" /\ RoomFor(call[w].size)
    /\ Goto(w, "write")
    /\ UNCHANGED <<stores, clock, passed, overlapped, admitted>>

Create(w) ==
    /\ \/ Throttled(w) /\ ~call[w].refused /\ call[w].kind = "create"
       \/ In(w, "write")
    /\ tasks' = tasks + call[w].size
    /\ Return(w)
    /\ UNCHANGED <<deleted, used, history, clock, passed, overlapped, admitted>>

Restore(w) ==
    /\ Throttled(w) /\ ~call[w].refused /\ call[w].kind = "restore" /\ deleted > 0
    /\ tasks' = tasks + 1 /\ deleted' = deleted - 1
    /\ Return(w)
    /\ UNCHANGED <<used, history, clock, passed, overlapped, admitted>>

(* An administrator deletes: no limit is asked.                            *)
Delete ==
    /\ tasks > 0 /\ deleted = 0
    /\ tasks' = tasks - 1 /\ deleted' = 1
    /\ UNCHANGED <<used, history, clock, call, passed, overlapped, admitted>>

-------------------------------------------------------------------------------
(* The caches                                                              *)

ExpireCount ==
    /\ used > 0 /\ used' = 0 /\ passed' = 0
    /\ UNCHANGED <<tasks, deleted, history, clock, call, overlapped, admitted>>

(* The entry of a history expires with its newest request.                 *)
Tick ==
    /\ clock < MaxClock /\ clock' = clock + 1
    /\ history' = [s \in Scopes |->
           IF Recent(history[s], s, clock') = << >> THEN << >> ELSE history[s]]
    /\ UNCHANGED <<tasks, deleted, used, call, passed, overlapped, admitted>>

Work(w) ==
    \/ \E kind \in Kinds, n \in 1..MaxBatch :
         kind # "graphql" /\ (kind # "bulk" => n = 1) /\ Enter(w, kind, n)
    \/ EnterGraphQL(w)
    \/ Count(w) \/ StartCount(w)
    \/ ReadHistory(w) \/ WriteHistory(w) \/ Refuse(w)
    \/ CountBatch(w) \/ Create(w) \/ Restore(w)

Next == Delete \/ ExpireCount \/ Tick \/ \E w \in Workers : Work(w)

Spec == Init /\ [][Next]_vars

-------------------------------------------------------------------------------
(* Properties                                                              *)

(* Requests that overlap pass a limit together, but not at will: tasks     *)
(* exceed it by at most an import of each other worker.  The AI counter is *)
(* exceeded by a request of each other worker; and when all of them race   *)
(* to set it to 1 at the first requests of a day, each one that is late    *)
(* forgets a count, up to the quota and one more for each that is through. *)
OvershootBounded ==
    LET n == Cardinality(Workers) IN
    /\ tasks <= MaxTasks + (n - 1) * MaxBatch
    /\ 2 * passed <= 2 * n * MaxAIRequests + n * (n - 1)

(* Requests that come one after the other exceed no limit: not the tasks,  *)
(* not the AI requests of a day, nor the rate of any throttle in any       *)
(* window.                                                                 *)
ExactAlone ==
    ~overlapped =>
        /\ tasks <= MaxTasks
        /\ passed <= MaxAIRequests
        /\ \A s \in Scopes : Len(Recent(admitted[s], s, clock)) <= Rate[s]
===============================================================================
