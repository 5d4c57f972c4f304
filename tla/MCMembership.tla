----------------------------- MODULE MCMembership -----------------------------
(* Instances of OrganizationLimits for TLC: an organization with             *)
(* administrators and one that only its directory manages; and the limits of *)
(* an organization's plan.  The members, the tasks and the AI requests share *)
(* no state, so that a run looks at one of the three.                        *)
EXTENDS OrganizationLimits, TLC

CONSTANTS u1, u2, u3, o1, o2

VARIABLE focus  \* "members", "tasks" or "ai"

MCUsers == {u1, u2, u3}

MCOrganizations == {o1, o2}

MCMaxUsers == (o1 :> 2) @@ (o2 :> 1)

MCOperations == (o1 :> AllOperations) @@ (o2 :> {"found", "provision", "offboard"})

MCRate == [org_plan |-> 2, ai_assist |-> 2, ai_assist_burst |-> 1]

MCDuration == [org_plan |-> 1, ai_assist |-> 2, ai_assist_burst |-> 1]

KindsIn(f) == IF f = "ai" THEN {"ai"} ELSE Plan!Kinds \ {"ai"}

MCInit ==
    /\ Init /\ Plan!Init /\ focus \in {"members", "tasks", "ai"}
    /\ IF focus = "members" THEN deleted = 0 ELSE \A u \in Users : account[u] = "active"

MCNext ==
    /\ \/ focus = "members" /\ Next /\ UNCHANGED planVars
       \/ focus # "members" /\ Plan!Next /\ UNCHANGED vars
    /\ \A w \in Workers : call'[w] # NoCall => call'[w].kind \in KindsIn(focus)
    /\ UNCHANGED focus

MCSpec == MCInit /\ [][MCNext]_<<vars, planVars, focus>>

Symmetry == Permutations(MCUsers) \cup Permutations(Workers)
===============================================================================
