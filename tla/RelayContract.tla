---------------------------- MODULE RelayContract -----------------------------
(***************************************************************************)
(* What the transactional outbox promises of every event, whatever workers,*)
(* brokers and operators do: an event is owed from its commit on, is met   *)
(* only once every subscriber has a message of it, and given up at most    *)
(* until an operator replays it.                                           *)
(***************************************************************************)
CONSTANTS Events, Endpoints

VARIABLES
    life,    \* none, owed, met or dead
    sent     \* the subscribers for which a message of the event was queued

vars == <<life, sent>>

Init ==
    /\ life = [e \in Events |-> "none"]
    /\ sent = [e \in Events |-> {}]

Become(e, next) == life' = [life EXCEPT ![e] = next]

Accept(e) == life[e] = "none" /\ Become(e, "owed") /\ UNCHANGED sent

Send(e) ==
    /\ life[e] = "owed"
    /\ \E reached \in SUBSET Endpoints : sent' = [sent EXCEPT ![e] = @ \cup reached]
    /\ UNCHANGED life

Meet(e) == life[e] = "owed" /\ sent[e] = Endpoints /\ Become(e, "met") /\ UNCHANGED sent

GiveUp(e) == life[e] = "owed" /\ Become(e, "dead") /\ UNCHANGED sent

Replay(e) == life[e] = "dead" /\ Become(e, "owed") /\ UNCHANGED sent

Next == \E e \in Events : Accept(e) \/ Send(e) \/ Meet(e) \/ GiveUp(e) \/ Replay(e)

(* Nothing stays owed for ever.                                            *)
Spec ==
    /\ Init /\ [][Next]_vars
    /\ \A e \in Events : WF_vars(Meet(e) \/ GiveUp(e))
===============================================================================
