------------------------------ MODULE TaskSockets ------------------------------
(***************************************************************************)
(* Task events on their way from a saved row to the WebSockets of one      *)
(* organization: the signal, the broadcast to three groups in turn, the    *)
(* channel layer, and the consumer that serves one socket.                 *)
(*                                                                         *)
(* A consumer handles one frame or event at a time, and every handler      *)
(* awaits the database and the channel layer, while others go on.          *)
(***************************************************************************)
EXTENDS Naturals, FiniteSets, Sequences, SequencesExt

CONSTANTS
    Sockets,        \* connections; a client that reconnects is another one
    Users, Tasks,
    UserOf,         \* the user of each socket
    OwnerOf,        \* the owner of each task
    Members,        \* users that are members of the organization
    Shared,         \* tasks of the organization
    Publishers,     \* threads that save tasks
    None,
    Window,         \* maxlen of the deque of seen events
    Capacity,       \* of a channel, for each socket
    MaxSubscriptions,   \* MAX_TASK_SUBSCRIPTIONS
    MaxTasks, MaxEvents     \* bounds on subscriptions by each socket, and on events

ASSUME SocketsAssumption ==
    /\ UserOf \in [Sockets -> Users]
    /\ OwnerOf \in [Tasks -> Users] /\ Shared \subseteq Tasks /\ Members \subseteq Users
    /\ None \notin Tasks
    /\ {Window, Capacity, MaxSubscriptions} \subseteq Nat \ {0} /\ {MaxTasks, MaxEvents} \subseteq Nat

VARIABLES
    scoped,     \* sockets whose URL names the organization
    stage,      \* what each consumer is at
    wanted,     \* the task a subscription asks for
    subscribed, \* subscribed_task_groups
    groups,     \* sockets in each group, as the channel layer has it
    inbox,      \* what each channel holds
    seen,       \* _seen_event_ids
    shown,      \* events sent to each client, in order
    asked,      \* subscriptions asked for so far
    publisher,  \* the event each thread broadcasts, its task and the groups left
    sent,       \* events so far; an event's number is its event_id
    lost        \* events the layer did not take, or a full channel dropped, for each socket

socketVars == <<scoped, stage, wanted, subscribed, groups, inbox, seen, shown, asked,
          publisher, sent, lost>>
consumers == <<stage, wanted, subscribed, seen, shown, asked>>
broadcasts == <<publisher, sent>>

Org == <<"org">>
UserGroup(u) == <<"user", u>>
TaskGroup(t) == <<"task", t>>

Groups == {Org} \cup {UserGroup(u) : u \in Users} \cup {TaskGroup(t) : t \in Tasks}

Quiet == [event |-> 0, task |-> None, left |-> <<>>]

SocketsInit ==
    /\ scoped \in SUBSET Sockets
    /\ stage = [s \in Sockets |-> "new"]
    /\ wanted = [s \in Sockets |-> None]
    /\ subscribed = [s \in Sockets |-> {}]
    /\ groups = [g \in Groups |-> {}]
    /\ inbox = [s \in Sockets |-> <<>>]
    /\ seen = [s \in Sockets |-> <<>>]
    /\ shown = [s \in Sockets |-> <<>>]
    /\ asked = [s \in Sockets |-> 0]
    /\ publisher = [p \in Publishers |-> Quiet]
    /\ sent = 0
    /\ lost = {}

-------------------------------------------------------------------------------
(* Publishing                                                              *)

(* The owner left to the group of the organization.                        *)
TargetsOfOne(t) == <<IF t \in Shared THEN Org ELSE UserGroup(OwnerOf[t]), TaskGroup(t)>>

Targets(t) ==
    (IF t \in Shared THEN <<Org>> ELSE <<>>) \o <<UserGroup(OwnerOf[t]), TaskGroup(t)>>

Broadcast(e, t) == [event |-> e, task |-> t, left |-> Targets(t)]

(* task_post_save and task_post_delete: within the transaction, if there   *)
(* is one, and whether or not it commits.                                  *)
Publish(p) ==
    /\ publisher[p] = Quiet
    /\ sent < MaxEvents
    /\ sent' = sent + 1
    /\ \E t \in Tasks : publisher' = [publisher EXCEPT ![p] = Broadcast(sent + 1, t)]
    /\ UNCHANGED <<scoped, consumers, groups, inbox, lost>>

After(p) == IF Len(publisher[p].left) = 1 THEN Quiet
            ELSE [publisher[p] EXCEPT !.left = Tail(@)]

Full(s) == Len(inbox[s]) >= Capacity

(* group_send: a full channel drops the message without an error.          *)
Send(p) ==
    LET e == publisher[p].event
        receivers == groups[Head(publisher[p].left)] IN
    /\ publisher[p] # Quiet
    /\ inbox' = [s \in Sockets |-> IF s \in receivers /\ ~Full(s) THEN Append(inbox[s], e)
                                   ELSE inbox[s]]
    /\ lost' = lost \cup ({s \in receivers : Full(s)} \X {e})
    /\ publisher' = [publisher EXCEPT ![p] = After(p)]
    /\ UNCHANGED <<scoped, consumers, groups, sent>>

(* broadcast_task_websocket_event swallows every error.                    *)
GiveUp(p) ==
    /\ publisher[p] # Quiet
    /\ lost' = lost \cup (Sockets \X {publisher[p].event})
    /\ publisher' = [publisher EXCEPT ![p] = Quiet]
    /\ UNCHANGED <<scoped, consumers, groups, inbox, sent>>

-------------------------------------------------------------------------------
(* The consumer                                                            *)

AtStage(s, step) == stage[s] = step

Enter(s, step) == stage' = [stage EXCEPT ![s] = step]

Join(s, g) == groups' = [groups EXCEPT ![g] = @ \cup {s}]

Leave(s, g) == groups' = [groups EXCEPT ![g] = @ \ {s}]

(* The token is good; a stranger is closed with 4003.                      *)
Connect(s) ==
    /\ AtStage(s, "new")
    /\ Enter(s, IF s \notin scoped THEN "admitted"
                ELSE IF UserOf[s] \in Members THEN "verified" ELSE "closed")
    /\ UNCHANGED <<scoped, wanted, subscribed, groups, inbox, seen, shown, asked, broadcasts, lost>>

JoinOrg(s) ==
    /\ AtStage(s, "verified")
    /\ Join(s, Org)
    /\ Enter(s, "admitted")
    /\ UNCHANGED <<scoped, wanted, subscribed, inbox, seen, shown, asked, broadcasts, lost>>

JoinUser(s) ==
    /\ AtStage(s, "admitted")
    /\ Join(s, UserGroup(UserOf[s]))
    /\ Enter(s, "open")
    /\ UNCHANGED <<scoped, wanted, subscribed, inbox, seen, shown, asked, broadcasts, lost>>

(* _check_task_access.                                                     *)
MayFollow(u, t) == OwnerOf[t] = u \/ (t \in Shared /\ u \in Members)

AskTask(s) ==
    /\ AtStage(s, "open")
    /\ asked[s] < MaxTasks
    /\ Cardinality(subscribed[s]) < MaxSubscriptions
    /\ \E t \in Tasks : MayFollow(UserOf[s], t) /\ wanted' = [wanted EXCEPT ![s] = t]
    /\ asked' = [asked EXCEPT ![s] = @ + 1]
    /\ Enter(s, "subscribing")
    /\ UNCHANGED <<scoped, subscribed, groups, inbox, seen, shown, broadcasts, lost>>

JoinTask(s) ==
    /\ AtStage(s, "subscribing")
    /\ Join(s, TaskGroup(wanted[s]))
    /\ subscribed' = [subscribed EXCEPT ![s] = @ \cup {wanted[s]}]
    /\ wanted' = [wanted EXCEPT ![s] = None]
    /\ Enter(s, "open")
    /\ UNCHANGED <<scoped, inbox, seen, shown, asked, broadcasts, lost>>

LeaveTask(s) ==
    /\ AtStage(s, "open")
    /\ \E t \in subscribed[s] :
         /\ Leave(s, TaskGroup(t))
         /\ subscribed' = [subscribed EXCEPT ![s] = @ \ {t}]
    /\ UNCHANGED <<scoped, stage, wanted, inbox, seen, shown, asked, broadcasts, lost>>

(* _is_duplicate_event.                                                    *)
IsNew(s, e) == ~Contains(seen[s], e)

(* A full memory that takes in nothing more.                               *)
RememberFirst(s, e) == seen' = [seen EXCEPT ![s] = IF Len(@) = Window THEN @ ELSE Append(@, e)]

Remember(s, e) ==
    seen' = [seen EXCEPT ![s] = Append(IF Len(@) = Window THEN Tail(@) ELSE @, e)]

Receive(s) ==
    LET e == Head(inbox[s]) IN
    /\ AtStage(s, "open")
    /\ inbox[s] # <<>>
    /\ inbox' = [inbox EXCEPT ![s] = Tail(@)]
    /\ IF IsNew(s, e)
       THEN Remember(s, e) /\ shown' = [shown EXCEPT ![s] = Append(@, e)]
       ELSE UNCHANGED <<scoped, seen, shown>>
    /\ UNCHANGED <<scoped, stage, wanted, subscribed, groups, asked, broadcasts, lost>>

Disconnect(s) ==
    /\ AtStage(s, "open")
    /\ Enter(s, "leaving")
    /\ UNCHANGED <<scoped, wanted, subscribed, groups, inbox, seen, shown, asked, broadcasts, lost>>

(* The groups disconnect goes through, one after the other.                *)
Joined(s) ==
    {UserGroup(UserOf[s])} \cup (IF s \in scoped THEN {Org} ELSE {})
        \cup {TaskGroup(t) : t \in subscribed[s]}

LeaveNext(s) ==
    /\ AtStage(s, "leaving")
    /\ \E g \in Joined(s) : s \in groups[g] /\ Leave(s, g)
    /\ UNCHANGED <<scoped, consumers, inbox, broadcasts, lost>>

CloseSocket(s) ==
    /\ AtStage(s, "leaving")
    /\ \A g \in Joined(s) : s \notin groups[g]
    /\ Enter(s, "closed")
    /\ inbox' = [inbox EXCEPT ![s] = <<>>]
    /\ UNCHANGED <<scoped, wanted, subscribed, groups, seen, shown, asked, broadcasts, lost>>

(* The server dies: the layer keeps the channel in its groups.             *)
Die(s) ==
    /\ stage[s] \notin {"new", "closed", "dead"}
    /\ Enter(s, "dead")
    /\ UNCHANGED <<scoped, wanted, subscribed, groups, inbox, seen, shown, asked, broadcasts, lost>>

-------------------------------------------------------------------------------

Serve(s) == Connect(s) \/ JoinOrg(s) \/ JoinUser(s) \/ JoinTask(s) \/ Receive(s)

SocketsNext ==
    \/ \E p \in Publishers : Publish(p) \/ Send(p) \/ GiveUp(p)
    \/ \E s \in Sockets :
         Serve(s) \/ AskTask(s) \/ LeaveTask(s) \/ Disconnect(s) \/ LeaveNext(s) \/ CloseSocket(s) \/ Die(s)

(* A broadcast under way goes on, and consumers serve what they have: the  *)
(* event loop is fair to events even when frames keep coming.              *)
SocketsFairness ==
    /\ \A p \in Publishers : WF_socketVars(Send(p))
    /\ \A s \in Sockets : WF_socketVars(Serve(s)) /\ SF_socketVars(Receive(s))

SocketsSpec == SocketsInit /\ [][SocketsNext]_socketVars /\ SocketsFairness

-------------------------------------------------------------------------------
(* Properties                                                              *)

(* However broadcasts overlap and whatever groups a socket is in, its      *)
(* client gets an event once, unless as many others as the consumer        *)
(* remembers came between two of its copies.                               *)
ShownOnce ==
    \A s \in Sockets : \A i, j \in DOMAIN shown[s] :
        i < j /\ shown[s][i] = shown[s][j] => j - i > Window

Present(s) == AtStage(s, "open") \/ AtStage(s, "subscribing")

(* A client that is there when an event about its user's task, or about    *)
(* its organization, is published gets it, unless the layer fails or the   *)
(* client goes.                                                            *)
ClientsAreReached ==
    \A s \in Sockets, e \in 1..MaxEvents :
        /\ Present(s)
        /\ \E t \in Tasks : /\ OwnerOf[t] = UserOf[s] \/ (t \in Shared /\ s \in scoped)
                           /\ \E p \in Publishers : publisher[p] = Broadcast(e, t)
        ~> Contains(shown[s], e) \/ ~Present(s) \/ <<s, e>> \in lost
===============================================================================
