------------------------------ MODULE Membership ------------------------------
(***************************************************************************)
(* Members, accounts and API keys of organizations: the administrators'    *)
(* endpoints, single sign-on and SCIM provisioning.                        *)
(*                                                                         *)
(* A request is a transaction under READ COMMITTED.  It authorizes its     *)
(* actor, decides what to write from what it reads, and commits; other     *)
(* requests commit in between.  Whether an organization has SSO, SCIM or   *)
(* just-in-time provisioning switched on is left open: such a request may  *)
(* always come or not come.                                                *)
(***************************************************************************)
EXTENDS Naturals, FiniteSets

CONSTANTS
    Users, Organizations, Workers,
    Assignable,  \* the roles in use besides owner
    MaxKeys,     \* bounds the keys of an organization
    MaxUsers,    \* [Organizations -> Nat], the seats of the plan
    Operations,  \* [Organizations -> SUBSET AllOperations], those in use
    Isolated,    \* do removals overlap no request on their organization or user?
    NoRequest    \* an idle worker

Roles == Assignable \cup {"owner"}

RankOf(role) == CASE role = "viewer" -> 1 [] role = "contributor" -> 2
                  [] role = "admin" -> 3 [] OTHER -> 4

AdminOperations == {"invite", "role", "remove", "key", "revoke"}

AllOperations == AdminOperations \cup {"found", "login", "provision", "update", "offboard"}

(* Those that may take a role, a key or an account away.                   *)
Removals == {"role", "remove", "revoke", "login", "provision", "update", "offboard"}

ASSUME MembershipAssumption ==
    /\ Assignable \subseteq {"viewer", "contributor", "admin"} /\ "viewer" \in Assignable
    /\ MaxKeys \in Nat
    /\ MaxUsers \in [Organizations -> Nat \ {0}]
    /\ Operations \in [Organizations -> SUBSET AllOperations]
    /\ IsFiniteSet(Users) /\ IsFiniteSet(Workers) /\ Workers # {}
    /\ Isolated \in BOOLEAN

VARIABLES
    role,        \* role[o][u]: the membership row, "none" without one
    account,     \* account[u]: the row of the user
    keys,        \* keys[o]: creator and role of the keys not revoked
    offboarded,  \* offboarded[o]: who left by SCIM and has not come back
    req          \* what each worker is in the middle of

vars == <<role, account, keys, offboarded, req>>

-------------------------------------------------------------------------------
(* Data                                                                    *)

Key == [user : Users, role : Assignable]

(* rank: the role the actor was authorized with; row, role and account:    *)
(* what to write for user; gone: has the row been deleted meanwhile?       *)
Request == [phase : {"authorized", "leaving", "decided"}, op : AllOperations,
            org : Organizations, rank : Roles, user : Users, role : Roles,
            row : {"insert", "update", "touch", "keep", "delete"},
            account : {"insert", "insert_inactive", "activate", "deactivate", "keep"},
            gone : BOOLEAN]

Init ==
    /\ role = [o \in Organizations |-> [u \in Users |-> "none"]]
    /\ account \in [Users -> {"absent", "active"}] /\ \E u \in Users : account[u] = "active"
    /\ keys = [o \in Organizations |-> {}]
    /\ offboarded = [o \in Organizations |-> {}]
    /\ req = [w \in Workers |-> NoRequest]

Members(o) == {u \in Users : role[o][u] # "none"}

Owners(o) == {u \in Users : role[o][u] = "owner"}

Idle(w) == req[w] = NoRequest

(* No removal overlaps a request on the same organization or user.         *)
Apart(op, o, u) ==
    Isolated => \A v \in Workers :
        /\ ~Idle(v)
        /\ op \in Removals \/ req[v].op \in Removals
        => req[v].org # o /\ req[v].user # u

Ask(w, r) == req' = [req EXCEPT ![w] = r]

Done(w) == req' = [req EXCEPT ![w] = NoRequest]

Unwritten == UNCHANGED <<role, account, keys, offboarded>>

-------------------------------------------------------------------------------
(* Administrators                                                          *)

(* The creator of an organization becomes its owner.                       *)
Found(o, a) ==
    /\ "found" \in Operations[o]
    /\ Members(o) = {} /\ account[a] = "active" /\ Apart("found", o, a)
    /\ role' = [role EXCEPT ![o][a] = "owner"]
    /\ UNCHANGED <<account, keys, offboarded, req>>

(* _require_org_admin: only the role of the actor is read so far.          *)
Authorize(w, op, o, a, u) ==
    /\ Idle(w) /\ op \in Operations[o] /\ op \in AdminOperations
    /\ account[a] = "active" /\ role[o][a] \in {"admin", "owner"}
    /\ op = "key" => u = a
    /\ Apart(op, o, u)
    /\ Ask(w, [phase |-> "authorized", op |-> op, org |-> o,
               rank |-> role[o][a], user |-> u, role |-> "viewer", row |-> "keep",
               account |-> "keep", gone |-> FALSE])
    /\ Unwritten

Authorized(w, op) == ~Idle(w) /\ req[w].phase = "authorized" /\ req[w].op = op

Decide(w, row, newRole) ==
    Ask(w, [req[w] EXCEPT !.phase = "decided", !.row = row, !.role = newRole])

(* Every check refuses the request: it ends without a trace.               *)
Refuse(w) == ~Idle(w) /\ req[w].phase = "authorized" /\ Done(w) /\ Unwritten

(* The seat quota is not asked.                                            *)
SeatAlways(o) == TRUE

SeatFree(o) == Cardinality(Members(o)) < MaxUsers[o]

Invite(w, newRole) ==
    LET o == req[w].org  u == req[w].user IN
    /\ Authorized(w, "invite")
    /\ newRole = "owner" => req[w].rank = "owner"
    /\ account[u] = "active" /\ role[o][u] = "none" /\ SeatFree(o)
    /\ Decide(w, "insert", newRole)
    /\ Unwritten

(* Anybody may be demoted or removed.                                      *)
ReplaceableAlways(o, u) == TRUE

Replaceable(o, u) == role[o][u] = "owner" => Cardinality(Owners(o)) > 1

ChangeRole(w, newRole) ==
    LET o == req[w].org  u == req[w].user IN
    /\ Authorized(w, "role")
    /\ role[o][u] # "none"
    /\ "owner" \in {role[o][u], newRole} => req[w].rank = "owner"
    /\ newRole # "owner" => Replaceable(o, u)
    /\ Decide(w, "update", newRole)
    /\ Unwritten

RemoveMember(w) ==
    LET o == req[w].org  u == req[w].user IN
    /\ Authorized(w, "remove")
    /\ role[o][u] # "none"
    /\ role[o][u] = "owner" => req[w].rank = "owner"
    /\ Replaceable(o, u)
    /\ Decide(w, "delete", req[w].role)
    /\ Unwritten

CreateKey(w, keyRole) ==
    /\ Authorized(w, "key")
    /\ RankOf(keyRole) <= RankOf(req[w].rank) /\ Cardinality(keys[req[w].org]) < MaxKeys
    /\ Decide(w, "keep", keyRole)
    /\ Unwritten

RevokeKey(w, keyRole) ==
    /\ Authorized(w, "revoke")
    /\ [user |-> req[w].user, role |-> keyRole] \in keys[req[w].org]
    /\ Decide(w, "keep", keyRole)
    /\ Unwritten

-------------------------------------------------------------------------------
(* The identity provider                                                   *)

(* Whatever the groups of the user are called.                             *)
AllRoles == Roles

(* Its roles, whatever the groups and the mapping: never owner.            *)
MappedRoles == Assignable

(* The roles of a SCIM resource: mapped, or named directly.                *)
ScimRoles == Assignable

(* An owner keeps the role, and so does who has it already.                *)
Synchronized(o, u, newRole, otherwise) ==
    IF role[o][u] \in {"owner", newRole} THEN otherwise ELSE "update"

Provider(w, op, o, u, newRole, row, write) ==
    /\ Idle(w) /\ op \in Operations[o] /\ Members(o) # {}
    /\ Apart(op, o, u)
    /\ Ask(w, [phase |-> IF op = "offboard" THEN "leaving" ELSE "decided", op |-> op,
               org |-> o, rank |-> "viewer", user |-> u, role |-> newRole,
               row |-> row, account |-> write, gone |-> FALSE])
    /\ Unwritten

Login(w, o, u, newRole) ==
    /\ account[u] # "inactive"
    /\ role[o][u] = "none" => SeatFree(o)
    /\ Provider(w, "login", o, u, newRole,
                IF role[o][u] = "none" THEN "insert" ELSE Synchronized(o, u, newRole, "keep"),
                IF account[u] = "absent" THEN "insert" ELSE "keep")

Provision(w, o, u, newRole, active) ==
    /\ role[o][u] = "none" => SeatFree(o)
    /\ Provider(w, "provision", o, u, newRole,
                IF role[o][u] = "none" THEN "insert" ELSE Synchronized(o, u, newRole, "touch"),
                CASE account[u] = "absent" -> IF active THEN "insert" ELSE "insert_inactive"
                  [] account[u] = "inactive" /\ active -> "activate"
                  [] OTHER -> "keep")

Update(w, o, u, newRole, otherwise, active) ==
    /\ role[o][u] # "none"
    /\ Provider(w, "update", o, u, newRole, Synchronized(o, u, newRole, otherwise),
                IF active /\ account[u] = "inactive" THEN "activate" ELSE "keep")

Offboard(w, o, u) ==
    /\ role[o][u] # "none" /\ Replaceable(o, u)
    /\ Provider(w, "offboard", o, u, "viewer", "delete",
                IF account[u] = "active" THEN "deactivate" ELSE "keep")

(* Only this organization counts.                                          *)
Nowhere(o, u) == FALSE

(* Who has a seat elsewhere keeps the account.                             *)
Elsewhere(o, u) == \E other \in Organizations \ {o} : role[other][u] # "none"

CountElsewhere(w) ==
    /\ ~Idle(w) /\ req[w].phase = "leaving"
    /\ Ask(w, [req[w] EXCEPT !.phase = "decided",
                  !.account = IF Elsewhere(req[w].org, req[w].user) THEN "keep" ELSE @])
    /\ Unwritten

-------------------------------------------------------------------------------
(* The transaction writes                                                  *)

(* Unique constraints, and updates that find no row, fail the transaction. *)
Conflicts(r) ==
    \/ r.row = "insert" /\ role[r.org][r.user] # "none"
    \/ r.account \in {"insert", "insert_inactive"} /\ account[r.user] # "absent"
    \/ r.row \in {"update", "touch"} /\ r.gone

RowWritten(r) ==
    CASE r.row \in {"insert", "update"} -> r.role
      [] r.row = "delete" /\ ~r.gone -> "none"
      [] OTHER -> role[r.org][r.user]

AccountWritten(r) ==
    CASE r.account \in {"insert", "activate"} -> "active"
      [] r.account \in {"insert_inactive", "deactivate"} -> "inactive"
      [] OTHER -> account[r.user]

(* The keys stay usable.                                                   *)
KeysKept(r) == IF r.op = "key" THEN keys[r.org] \cup {[user |-> r.user, role |-> r.role]}
               ELSE keys[r.org]

KeysWritten(r) ==
    CASE r.op = "key" -> keys[r.org] \cup {[user |-> r.user, role |-> r.role]}
      [] r.op = "revoke" -> keys[r.org] \ {[user |-> r.user, role |-> r.role]}
      [] r.op = "offboard" -> {k \in keys[r.org] : k.user # r.user}
      [] OTHER -> keys[r.org]

Commit(w) ==
    LET r == req[w] IN
    /\ ~Idle(w) /\ r.phase = "decided" /\ ~Conflicts(r)
    /\ role' = [role EXCEPT ![r.org][r.user] = RowWritten(r)]
    /\ account' = [account EXCEPT ![r.user] = AccountWritten(r)]
    /\ keys' = [keys EXCEPT ![r.org] = KeysWritten(r)]
    /\ offboarded' = [offboarded EXCEPT ![r.org] =
           IF r.op = "offboard" THEN @ \cup {r.user}
           ELSE IF r.row = "insert" THEN @ \ {r.user} ELSE @]
    /\ req' = [v \in Workers |->
           IF v = w THEN NoRequest
           ELSE IF /\ r.row = "delete" /\ ~Idle(v) /\ req[v].phase # "authorized"
                   /\ req[v].org = r.org /\ req[v].user = r.user
                THEN [req[v] EXCEPT !.gone = TRUE] ELSE req[v]]

Rollback(w) ==
    /\ ~Idle(w) /\ req[w].phase = "decided" /\ Conflicts(req[w])
    /\ Done(w) /\ Unwritten

-------------------------------------------------------------------------------

Administer(w) ==
    \/ \E o \in Organizations, a, u \in Users, op \in AdminOperations : Authorize(w, op, o, a, u)
    \/ Refuse(w)
    \/ \E newRole \in Roles : Invite(w, newRole) \/ ChangeRole(w, newRole)
    \/ RemoveMember(w)
    \/ \E keyRole \in Assignable : CreateKey(w, keyRole) \/ RevokeKey(w, keyRole)

Synchronize(w) ==
    \/ \E o \in Organizations, u \in Users, newRole \in MappedRoles : Login(w, o, u, newRole)
    \/ \E o \in Organizations, u \in Users, newRole \in ScimRoles, active \in BOOLEAN :
         \/ Provision(w, o, u, newRole, active)
         \/ \E otherwise \in {"keep", "touch"} : Update(w, o, u, newRole, otherwise, active)
    \/ \E o \in Organizations, u \in Users : Offboard(w, o, u)
    \/ CountElsewhere(w)

Next ==
    \/ \E o \in Organizations, a \in Users : Found(o, a)
    \/ \E w \in Workers : Administer(w) \/ Synchronize(w) \/ Commit(w) \/ Rollback(w)

Spec == Init /\ [][Next]_vars

-------------------------------------------------------------------------------
(* Properties                                                              *)

(* "protecting the last owner": no sequence of demotions, removals,        *)
(* directory synchronizations and offboardings leaves an organization with *)
(* members but without an owner.                                           *)
OwnersRemain == \A o \in Organizations : Members(o) # {} => Owners(o) # {}

(* clean() counts before the insert, so requests that overlap pass the     *)
(* quota together; they exceed it by no more than there are workers.       *)
SeatsBounded ==
    \A o \in Organizations :
        Cardinality(Members(o)) < MaxUsers[o] + Cardinality(Workers)

(* SCIM offboarding is final for the keys: whoever left holds none in the  *)
(* organization until he is a member again.                                *)
OffboardedHoldNoKeys ==
    \A o \in Organizations, k \in Key : k \in keys[o] => k.user \notin offboarded[o]

(* Offboarding from one organization leaves the account of a member of     *)
(* another one active ("multi-tenant-safe offboarding").                   *)
OffboardingSparesMembers ==
    [][\A u \in Users :
         account[u] = "active" /\ account'[u] = "inactive"
         => \A o \in Organizations : role'[o][u] = "none"]_vars

(* Nobody is made an owner but by a request that an owner was authorized   *)
(* for, and the directory takes the role from no owner it has seen.        *)
OwnersAreMadeByOwners ==
    [][\A o \in Organizations, u \in Users :
         role[o][u] # "owner" /\ role'[o][u] = "owner" /\ Members(o) # {}
         => \E w \in Workers : /\ req[w] # NoRequest /\ req'[w] = NoRequest
                               /\ req[w].rank = "owner" /\ req[w].op \in {"invite", "role"}]_vars
===============================================================================
