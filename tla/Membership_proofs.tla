-------------------------- MODULE Membership_proofs ---------------------------
(***************************************************************************)
(* Proofs about OrganizationLimits for any number of users, organizations  *)
(* and requests in flight: the memberships first, then the other limits of *)
(* a plan.                                                                 *)
(*                                                                         *)
(* That only owners make owners needs nothing but what a request carries.  *)
(* The other properties fail when removals overlap other requests, and are *)
(* proved for requests that Isolated keeps apart.                          *)
(***************************************************************************)
EXTENDS OrganizationLimits, FiniteSetTheorems, SequenceTheorems, WellFoundedInduction, TLAPS

-------------------------------------------------------------------------------
(* Types, and who may hand out the role of an owner                        *)

(* What a request carries, whatever has happened since it was authorized:  *)
(* it names the role of an owner only for an administrator's operation     *)
(* that an owner was authorized for, and a key has an assignable role.     *)
WellMade(r) ==
    /\ r \in Request
    /\ r.role = "owner" => r.rank = "owner" /\ r.op \in {"invite", "role"}
    /\ r.op = "key" => r.role \in Assignable

(* The types of the tables, and of the requests.                           *)
TypeOK ==
    /\ role \in [Organizations -> [Users -> Roles \cup {"none"}]]
    /\ account \in [Users -> {"absent", "active", "inactive"}]
    /\ keys \in [Organizations -> SUBSET Key]
    /\ offboarded \in [Organizations -> SUBSET Users]
    /\ req \in [Workers -> Request \cup {NoRequest}]
    /\ \A w \in Workers : ~Idle(w) => WellMade(req[w])

(* No owner is assignable.                                                 *)
LEMMA RolesKnown == Roles \subseteq {"viewer", "contributor", "admin", "owner"}
                    /\ "owner" \notin Assignable /\ "viewer" \in Assignable
  BY MembershipAssumption DEF Roles

(* The empty tables are well typed.                                        *)
LEMMA InitTypes == Init => TypeOK
  BY DEF Init, TypeOK, Idle, Roles

(* A step of a request that writes no table.                               *)
LEMMA AskTypes ==
  ASSUME TypeOK, NEW w \in Workers, NEW r, Ask(w, r), Unwritten,
         r = NoRequest \/ WellMade(r)
  PROVE  TypeOK'
  <1>1. req' \in [Workers -> Request \cup {NoRequest}]
    BY DEF Ask, TypeOK, WellMade
  <1>2. ASSUME NEW v \in Workers, ~Idle(v)' PROVE WellMade(req[v])'
    <2>1. CASE v = w
      <3>1. req'[v] = r
        BY <2>1 DEF Ask, TypeOK
      <3> QED BY <3>1, <1>2 DEF Idle, WellMade
    <2>2. CASE v # w
      <3>1. req'[v] = req[v]
        BY <2>2 DEF Ask, TypeOK
      <3> QED BY <3>1, <1>2 DEF Idle, WellMade, TypeOK
    <2> QED BY <2>1, <2>2
  <1> QED BY <1>1, <1>2 DEF Unwritten, TypeOK

(* A decided request is as well made as the authorized one.                *)
LEMMA DecideTypes ==
  ASSUME TypeOK, NEW w \in Workers, ~Idle(w), Unwritten,
         NEW row \in {"insert", "update", "touch", "keep", "delete"}, NEW newRole \in Roles,
         newRole = "owner" => req[w].rank = "owner" /\ req[w].op \in {"invite", "role"},
         req[w].op = "key" => newRole \in Assignable,
         Decide(w, row, newRole)
  PROVE  TypeOK'
  <1> DEFINE r == [req[w] EXCEPT !.phase = "decided", !.row = row, !.role = newRole]
  <1>1. req[w] \in Request
    BY DEF TypeOK, WellMade
  <1>2. r \in Request /\ r.role = newRole /\ r.rank = req[w].rank /\ r.op = req[w].op
    BY <1>1 DEF Request
  <1>3. WellMade(r)
    BY <1>2 DEF WellMade
  <1>4. Ask(w, r)
    BY DEF Decide
  <1> HIDE DEF r
  <1> QED BY <1>3, <1>4, AskTypes

(* Each step before the commit, a refusal and a rollback.                  *)
LEMMA AuthorizeTypes ==
  ASSUME TypeOK, NEW w \in Workers, NEW op \in AdminOperations, NEW o \in Organizations,
         NEW a \in Users, NEW u \in Users, Authorize(w, op, o, a, u)
  PROVE  TypeOK'
  <1> DEFINE r == [phase |-> "authorized", op |-> op, org |-> o, rank |-> role[o][a],
                   user |-> u, role |-> "viewer", row |-> "keep", account |-> "keep",
                   gone |-> FALSE]
  <1>1. role[o][a] \in Roles
    BY DEF Authorize, TypeOK, Roles
  <1>2. r \in Request
    BY <1>1, RolesKnown DEF Request, AllOperations, Roles
  <1>3. WellMade(r)
    BY <1>2, RolesKnown DEF WellMade
  <1>4. Ask(w, r) /\ Unwritten
    BY DEF Authorize
  <1> HIDE DEF r
  <1> QED BY <1>3, <1>4, AskTypes

LEMMA ProviderTypes ==
  ASSUME TypeOK, NEW w \in Workers, NEW op \in {"login", "provision", "update", "offboard"},
         NEW o \in Organizations, NEW u \in Users, NEW newRole \in Assignable,
         NEW row \in {"insert", "update", "touch", "keep", "delete"},
         NEW write \in {"insert", "insert_inactive", "activate", "deactivate", "keep"},
         Provider(w, op, o, u, newRole, row, write)
  PROVE  TypeOK'
  <1> DEFINE r == [phase |-> IF op = "offboard" THEN "leaving" ELSE "decided", op |-> op,
                   org |-> o, rank |-> "viewer", user |-> u, role |-> newRole,
                   row |-> row, account |-> write, gone |-> FALSE]
  <1>1. r \in Request
    BY RolesKnown DEF Request, AllOperations, Roles
  <1>2. WellMade(r)
    BY <1>1, RolesKnown DEF WellMade
  <1>3. Ask(w, r) /\ Unwritten
    BY DEF Provider
  <1> HIDE DEF r
  <1> QED BY <1>2, <1>3, AskTypes

(* An idle worker is well typed, after a refusal or a rollback.            *)
LEMMA DoneTypes ==
  ASSUME TypeOK, NEW w \in Workers, Done(w), Unwritten
  PROVE  TypeOK'
  BY AskTypes DEF Done, Ask

LEMMA AdministerTypes ==
  ASSUME TypeOK, NEW w \in Workers, Administer(w)
  PROVE  TypeOK'
  <1>1. ASSUME NEW o \in Organizations, NEW a \in Users, NEW u \in Users,
               NEW op \in AdminOperations, Authorize(w, op, o, a, u)
        PROVE  TypeOK'
    BY <1>1, AuthorizeTypes
  <1>2. CASE Refuse(w)
    BY <1>2, DoneTypes DEF Refuse
  <1>3. ASSUME NEW newRole \in Roles, Invite(w, newRole) PROVE TypeOK'
    BY <1>3, DecideTypes DEF Invite, Authorized
  <1>4. ASSUME NEW newRole \in Roles, ChangeRole(w, newRole) PROVE TypeOK'
    BY <1>4, DecideTypes DEF ChangeRole, Authorized
  <1>5. CASE RemoveMember(w)
    <2>1. ~Idle(w) /\ req[w].op = "remove" /\ Unwritten /\ Decide(w, "delete", req[w].role)
      BY <1>5 DEF RemoveMember, Authorized
    <2>2. req[w].role \in Roles /\ req[w].role # "owner"
      BY <2>1 DEF TypeOK, WellMade, Request
    <2> QED BY <2>1, <2>2, DecideTypes
  <1>6. ASSUME NEW keyRole \in Assignable, CreateKey(w, keyRole) \/ RevokeKey(w, keyRole)
        PROVE  TypeOK'
    <2>1. keyRole \in Roles /\ keyRole # "owner"
      BY RolesKnown DEF Roles
    <2>2. ~Idle(w) /\ Unwritten /\ Decide(w, "keep", keyRole)
      BY <1>6 DEF CreateKey, RevokeKey, Authorized
    <2> QED BY <2>1, <2>2, DecideTypes
  <1> QED BY <1>1, <1>2, <1>3, <1>4, <1>5, <1>6 DEF Administer

LEMMA SynchronizeTypes ==
  ASSUME TypeOK, NEW w \in Workers, Synchronize(w)
  PROVE  TypeOK'
  <1>1. ASSUME NEW o \in Organizations, NEW u \in Users, NEW newRole \in MappedRoles,
               Login(w, o, u, newRole)
        PROVE  TypeOK'
    BY <1>1, ProviderTypes DEF Login, MappedRoles, Synchronized
  <1>2. ASSUME NEW o \in Organizations, NEW u \in Users, NEW newRole \in ScimRoles,
               NEW active \in BOOLEAN, Provision(w, o, u, newRole, active)
        PROVE  TypeOK'
    <2> DEFINE row == IF role[o][u] = "none" THEN "insert" ELSE Synchronized(o, u, newRole, "touch")
               write == CASE account[u] = "absent" -> IF active THEN "insert" ELSE "insert_inactive"
                          [] account[u] = "inactive" /\ active -> "activate"
                          [] OTHER -> "keep"
    <2>1. row \in {"insert", "update", "touch"}
      BY DEF Synchronized
    <2>2. write \in {"insert", "insert_inactive", "activate", "keep"}
      OBVIOUS
    <2>3. Provider(w, "provision", o, u, newRole, row, write)
      BY <1>2 DEF Provision
    <2> HIDE DEF row, write
    <2> QED BY <2>1, <2>2, <2>3, ProviderTypes DEF ScimRoles
  <1>3. ASSUME NEW o \in Organizations, NEW u \in Users, NEW newRole \in ScimRoles,
               NEW active \in BOOLEAN, NEW otherwise \in {"keep", "touch"},
               Update(w, o, u, newRole, otherwise, active)
        PROVE  TypeOK'
    BY <1>3, ProviderTypes DEF Update, ScimRoles, Synchronized
  <1>4. ASSUME NEW o \in Organizations, NEW u \in Users, Offboard(w, o, u)
        PROVE  TypeOK'
    BY <1>4, ProviderTypes, RolesKnown DEF Offboard
  <1>5. CASE CountElsewhere(w)
    <2> DEFINE r == [req[w] EXCEPT !.phase = "decided",
                        !.account = IF Elsewhere(req[w].org, req[w].user) THEN "keep" ELSE @]
    <2>1. ~Idle(w) /\ Ask(w, r) /\ Unwritten
      BY <1>5 DEF CountElsewhere
    <2>2. WellMade(req[w])
      BY <2>1 DEF TypeOK
    <2>3. WellMade(r)
      BY <2>2 DEF WellMade, Request
    <2> HIDE DEF r
    <2> QED BY <2>1, <2>3, AskTypes
  <1> QED BY <1>1, <1>2, <1>3, <1>4, <1>5 DEF Synchronize

LEMMA CommitTypes ==
  ASSUME TypeOK, NEW w \in Workers, Commit(w)
  PROVE  TypeOK'
  <1> DEFINE r == req[w]
  <1>1. WellMade(r) /\ r \in Request
    BY DEF Commit, TypeOK, WellMade
  <1>2. r.org \in Organizations /\ r.user \in Users /\ r.role \in Roles
    BY <1>1 DEF Request
  <1> HIDE DEF r
  <1>3. RowWritten(r) \in Roles \cup {"none"}
    BY <1>2 DEF RowWritten, TypeOK
  <1>4. AccountWritten(r) \in {"absent", "active", "inactive"}
    BY <1>2 DEF AccountWritten, TypeOK
  <1>5. KeysWritten(r) \subseteq Key
    <2>1. keys[r.org] \subseteq Key
      BY <1>2 DEF TypeOK
    <2>2. r.op = "key" => [user |-> r.user, role |-> r.role] \in Key
      BY <1>1, <1>2 DEF WellMade, Key
    <2> QED BY <2>1, <2>2 DEF KeysWritten
  <1>6. role' \in [Organizations -> [Users -> Roles \cup {"none"}]]
    BY <1>2, <1>3 DEF Commit, TypeOK, r
  <1>7. account' \in [Users -> {"absent", "active", "inactive"}]
    BY <1>2, <1>4 DEF Commit, TypeOK, r
  <1>8. keys' \in [Organizations -> SUBSET Key]
    BY <1>2, <1>5 DEF Commit, TypeOK, r
  <1>9. offboarded' \in [Organizations -> SUBSET Users]
    BY <1>2 DEF Commit, TypeOK, r
  <1>10. ASSUME NEW v \in Workers
         PROVE  req'[v] = NoRequest \/ WellMade(req'[v])
    <2>1. \/ req'[v] = NoRequest \/ req'[v] = req[v]
          \/ ~Idle(v) /\ req'[v] = [req[v] EXCEPT !.gone = TRUE]
      BY DEF Commit
    <2>2. ~Idle(v) => WellMade(req[v]) /\ WellMade([req[v] EXCEPT !.gone = TRUE])
      BY DEF TypeOK, WellMade, Request
    <2> QED BY <2>1, <2>2 DEF Idle
  <1>11. req' \in [Workers -> Request \cup {NoRequest}]
    <2>1. \A v \in Workers : req'[v] \in Request \cup {NoRequest}
      BY <1>10 DEF WellMade
    <2>2. DOMAIN req' = Workers /\ req' = [v \in Workers |-> req'[v]]
      BY DEF Commit
    <2> QED BY <2>1, <2>2
  <1>12. \A v \in Workers : ~Idle(v)' => WellMade(req[v])'
    BY <1>10 DEF Idle, WellMade
  <1> QED BY <1>6, <1>7, <1>8, <1>9, <1>11, <1>12 DEF TypeOK

LEMMA FoundTypes ==
  ASSUME TypeOK, NEW o \in Organizations, NEW a \in Users, Found(o, a)
  PROVE  TypeOK'
  <1>1. role' \in [Organizations -> [Users -> Roles \cup {"none"}]]
    BY DEF Found, TypeOK, Roles
  <1> QED BY <1>1 DEF Found, TypeOK, Idle

(* Every step keeps the types.                                             *)
LEMMA StepTypes == TypeOK /\ [Next]_vars => TypeOK'
  <1> SUFFICES ASSUME TypeOK, [Next]_vars PROVE TypeOK'
    OBVIOUS
  <1>1. ASSUME NEW w \in Workers, Rollback(w) PROVE TypeOK'
    BY <1>1, DoneTypes DEF Rollback
  <1>2. CASE UNCHANGED vars
    BY <1>2 DEF vars, TypeOK, Idle
  <1> QED BY <1>1, <1>2, FoundTypes, AdministerTypes, SynchronizeTypes, CommitTypes DEF Next

(* The tables and requests stay well typed, and a request names the role   *)
(* of an owner only when an owner was authorized for it.                   *)
THEOREM MembershipTypeCorrect == Spec => []TypeOK
  <1> QED BY InitTypes, StepTypes, PTL DEF Spec

(* Of all steps only a commit makes an owner, besides the founding.        *)
LEMMA OwnerIsWritten ==
  ASSUME TypeOK, Next, NEW o \in Organizations, NEW u \in Users,
         role[o][u] # "owner", role'[o][u] = "owner", Members(o) # {}
  PROVE  \E w \in Workers :
            /\ Commit(w) /\ o = req[w].org /\ u = req[w].user
            /\ req[w].row \in {"insert", "update"} /\ req[w].role = "owner"
  <1>1. ASSUME NEW p \in Organizations, NEW a \in Users, Found(p, a) PROVE FALSE
    <2>1. p # o
      BY <1>1 DEF Found
    <2> QED BY <1>1, <2>1 DEF Found, TypeOK
  <1>2. ASSUME NEW w \in Workers, Administer(w) \/ Synchronize(w) \/ Rollback(w) PROVE FALSE
    <2>1. CASE Administer(w)
      BY <2>1 DEF Administer, Authorize, Refuse, Invite, ChangeRole, RemoveMember, CreateKey,
         RevokeKey, Unwritten
    <2>2. CASE Synchronize(w)
      <3>1. ASSUME NEW p \in Organizations, NEW v \in Users, NEW op, NEW newRole, NEW row,
                   NEW write, Provider(w, op, p, v, newRole, row, write)
            PROVE  FALSE
        BY <3>1 DEF Provider, Unwritten
      <3>2. CASE CountElsewhere(w)
        BY <3>2 DEF CountElsewhere, Unwritten
      <3>3. \A p \in Organizations, v \in Users :
              /\ ~Offboard(w, p, v)
              /\ \A newRole \in MappedRoles : ~Login(w, p, v, newRole)
        BY <3>1 DEF Login, Offboard
      <3>4. \A p \in Organizations, v \in Users, newRole \in ScimRoles, active \in BOOLEAN :
              ~Provision(w, p, v, newRole, active)
        BY <3>1 DEF Provision
      <3>5. \A p \in Organizations, v \in Users, newRole \in ScimRoles, active \in BOOLEAN :
              \A otherwise \in {"keep", "touch"} : ~Update(w, p, v, newRole, otherwise, active)
        BY <3>1 DEF Update
      <3> QED BY <2>2, <3>2, <3>3, <3>4, <3>5 DEF Synchronize
    <2> QED BY <1>2, <2>1, <2>2 DEF Rollback, Unwritten
  <1>3. PICK w \in Workers : Commit(w)
    BY <1>1, <1>2 DEF Next
  <1> DEFINE r == req[w]
  <1>4. r.org \in Organizations /\ r.user \in Users /\ role' = [role EXCEPT ![r.org][r.user] = RowWritten(r)]
    BY <1>3 DEF Commit, TypeOK, WellMade, Request
  <1> HIDE DEF r
  <1>5. o = r.org /\ u = r.user /\ RowWritten(r) = "owner"
    BY <1>4 DEF TypeOK
  <1>6. r.row \in {"insert", "update"} /\ r.role = "owner"
    BY <1>5 DEF RowWritten
  <1> QED BY <1>3, <1>5, <1>6 DEF r

(* OwnersAreMadeByOwners: whatever requests overlap, nobody becomes an     *)
(* owner of an organization that has members but by an invitation or a     *)
(* change of roles that an owner was authorized for.                       *)
THEOREM OwnersMakeOwners == Spec => OwnersAreMadeByOwners
  <1> DEFINE Made(o, u) ==
        role[o][u] # "owner" /\ role'[o][u] = "owner" /\ Members(o) # {}
        => \E w \in Workers : /\ req[w] # NoRequest /\ req'[w] = NoRequest
                              /\ req[w].rank = "owner" /\ req[w].op \in {"invite", "role"}
  <1>1. ASSUME TypeOK, Next, NEW o \in Organizations, NEW u \in Users
        PROVE  Made(o, u)
    <2>1. SUFFICES ASSUME role[o][u] # "owner", role'[o][u] = "owner", Members(o) # {}
                   PROVE  \E w \in Workers : /\ req[w] # NoRequest /\ req'[w] = NoRequest
                            /\ req[w].rank = "owner" /\ req[w].op \in {"invite", "role"}
      OBVIOUS
    <2>2. PICK w \in Workers : Commit(w) /\ req[w].role = "owner"
      BY <1>1, <2>1, OwnerIsWritten
    <2>3. req[w] # NoRequest /\ req'[w] = NoRequest
      BY <2>2 DEF Commit, Idle
    <2>4. WellMade(req[w])
      BY <1>1, <2>2 DEF Commit, TypeOK
    <2> QED BY <2>2, <2>3, <2>4 DEF WellMade
  <1>2. TypeOK /\ [Next]_vars => [\A o \in Organizations, u \in Users : Made(o, u)]_vars
    BY <1>1
  <1> QED BY <1>2, MembershipTypeCorrect, PTL DEF Spec, OwnersAreMadeByOwners

-------------------------------------------------------------------------------
(* Requests that removals keep apart from                                  *)

(* Does the request take the role of an owner away, if the user is one?    *)
Demotes(r) == r.row = "delete" \/ (r.row = "update" /\ r.role # "owner")

(* What a request has read still holds: its organization has an owner, who *)
(* it demotes may be replaced, who gets a key is a member, and who loses   *)
(* the account is a member of no other organization.                       *)
Prepared(r) ==
    /\ Owners(r.org) # {}
    /\ ~r.gone
    /\ r.op \notin Removals => r.row \in {"insert", "keep"}
    /\ r.op = "key" => r.row = "keep" /\ role[r.org][r.user] # "none"
    /\ r.row = "update" => role[r.org][r.user] # "none"
    /\ Demotes(r) => Replaceable(r.org, r.user)
    /\ r.op = "offboard" => r.row = "delete"
    /\ r.account = "deactivate" =>
         /\ r.op = "offboard"
         /\ r.phase = "decided" =>
              \A other \in Organizations \ {r.org} : role[other][r.user] = "none"

(* Isolated requests stay apart until they end.                            *)
StayApart ==
    \A v, w \in Workers :
        /\ v # w /\ ~Idle(v) /\ ~Idle(w)
        /\ req[v].op \in Removals \/ req[w].op \in Removals
        => req[v].org # req[w].org /\ req[v].user # req[w].user

(* The organizations: one that nobody has joined yet is empty, and no      *)
(* member counts as offboarded.                                            *)
Orderly ==
    /\ OwnersRemain
    /\ \A o \in Organizations : Members(o) = {} => keys[o] = {} /\ offboarded[o] = {}
    /\ \A o \in Organizations, u \in Users : role[o][u] # "none" => u \notin offboarded[o]
    /\ OffboardedHoldNoKeys

(* Together they are inductive.                                            *)
Undisturbed ==
    /\ TypeOK /\ StayApart /\ Orderly
    /\ \A w \in Workers : ~Idle(w) => Prepared(req[w])

(* Who is not the only owner has another one beside him.                   *)
LEMMA AnotherOwner ==
  ASSUME NEW o \in Organizations, NEW u, Replaceable(o, u), role[o][u] = "owner", u \in Users
  PROVE  \E other \in Owners(o) : other # u
  <1>1. Cardinality(Owners(o)) > 1
    BY DEF Replaceable
  <1>2. IsFiniteSet(Owners(o))
    BY MembershipAssumption, FS_Subset DEF Owners
  <1>3. u \in Owners(o)
    BY DEF Owners
  <1>4. ASSUME \A other \in Owners(o) : other = u PROVE FALSE
    <2>1. Owners(o) = {u}
      BY <1>3, <1>4
    <2> QED BY <1>1, <2>1, FS_Singleton
  <1> QED BY <1>4

(* No organization is founded yet, and no request is under way.            *)
LEMMA InitUndisturbed == Init => Undisturbed
  BY InitTypes DEF Init, Undisturbed, StayApart, Orderly, OwnersRemain, OffboardedHoldNoKeys,
     Members, Owners, Idle

(* A step of a request that writes no table.                               *)
LEMMA AskUndisturbed ==
  ASSUME Undisturbed, TypeOK', NEW w \in Workers, NEW r, Ask(w, r), Unwritten,
         \/ r = NoRequest
         \/ /\ Prepared(r)
            /\ \A v \in Workers :
                 /\ v # w /\ ~Idle(v) /\ (r.op \in Removals \/ req[v].op \in Removals)
                 => req[v].org # r.org /\ req[v].user # r.user
  PROVE  Undisturbed'
  <1>1. Orderly'
    BY DEF Undisturbed, Unwritten, Orderly, OwnersRemain, OffboardedHoldNoKeys, Members, Owners
  <1>2. req'[w] = r /\ \A v \in Workers \ {w} : req'[v] = req[v]
    BY DEF Ask, Undisturbed, TypeOK
  <1>3. StayApart'
    <2> SUFFICES ASSUME NEW v \in Workers, NEW x \in Workers, v # x, ~Idle(v)', ~Idle(x)',
                        (req[v].op \in Removals \/ req[x].op \in Removals)'
                 PROVE  (req[v].org # req[x].org /\ req[v].user # req[x].user)'
      BY DEF StayApart
    <2>1. CASE v = w
      BY <1>2, <2>1 DEF Idle, Removals
    <2>2. CASE x = w
      BY <1>2, <2>2 DEF Idle, Removals
    <2>3. CASE v # w /\ x # w
      BY <1>2, <2>3 DEF Idle, Removals, Undisturbed, StayApart
    <2> QED BY <2>1, <2>2, <2>3
  <1>4. ASSUME NEW v \in Workers, ~Idle(v)' PROVE Prepared(req[v])'
    <2>1. Prepared(req'[v])
      BY <1>2, <1>4 DEF Idle, Undisturbed
    <2> QED BY <2>1 DEF Unwritten, Prepared, Demotes, Replaceable, Owners
  <1> QED BY <1>1, <1>3, <1>4 DEF Undisturbed

(* A request that its checks let pass.                                     *)
LEMMA DecideUndisturbed ==
  ASSUME Undisturbed, TypeOK', NEW w \in Workers, ~Idle(w), req[w].op # "offboard", Unwritten,
         NEW row, NEW newRole, Decide(w, row, newRole),
         req[w].op \notin Removals => row \in {"insert", "keep"},
         req[w].op = "key" => row = "keep",
         row = "update" => role[req[w].org][req[w].user] # "none",
         row = "delete" \/ (row = "update" /\ newRole # "owner")
           => Replaceable(req[w].org, req[w].user)
  PROVE  Undisturbed'
  <1> DEFINE r == [req[w] EXCEPT !.phase = "decided", !.row = row, !.role = newRole]
  <1>1. req[w] \in Request /\ Prepared(req[w])
    BY DEF Undisturbed, TypeOK, WellMade
  <1>2. /\ r.op = req[w].op /\ r.org = req[w].org /\ r.user = req[w].user
        /\ r.row = row /\ r.role = newRole /\ r.gone = req[w].gone /\ r.account = req[w].account
    BY <1>1 DEF Request
  <1>3. Ask(w, r)
    BY DEF Decide
  <1> HIDE DEF r
  <1>4. Prepared(r)
    BY <1>1, <1>2 DEF Prepared, Demotes
  <1>5. \A v \in Workers :
          /\ v # w /\ ~Idle(v) /\ (r.op \in Removals \/ req[v].op \in Removals)
          => req[v].org # r.org /\ req[v].user # r.user
    BY <1>2 DEF Undisturbed, StayApart
  <1> QED BY <1>3, <1>4, <1>5, AskUndisturbed

(* A request of the identity provider, decided on what it reads at once.   *)
LEMMA ProviderUndisturbed ==
  ASSUME Isolated, Undisturbed, TypeOK', NEW w \in Workers,
         NEW op \in {"login", "provision", "update", "offboard"},
         NEW o \in Organizations, NEW u \in Users, NEW newRole, NEW row, NEW write,
         Provider(w, op, o, u, newRole, row, write),
         row = "update" => role[o][u] \notin {"none", "owner"},
         row = "delete" => Replaceable(o, u),
         op = "offboard" => row = "delete",
         write = "deactivate" => op = "offboard"
  PROVE  Undisturbed'
  <1> DEFINE r == [phase |-> IF op = "offboard" THEN "leaving" ELSE "decided", op |-> op,
                   org |-> o, rank |-> "viewer", user |-> u, role |-> newRole,
                   row |-> row, account |-> write, gone |-> FALSE]
  <1>1. Ask(w, r) /\ Unwritten /\ Apart(op, o, u) /\ Members(o) # {}
    BY DEF Provider
  <1>2. Owners(o) # {}
    BY <1>1 DEF Undisturbed, Orderly, OwnersRemain
  <1>3. /\ r.op = op /\ r.org = o /\ r.user = u /\ r.row = row /\ r.account = write /\ ~r.gone
        /\ op = "offboard" => r.phase = "leaving"
    OBVIOUS
  <1> HIDE DEF r
  <1>4. Prepared(r)
    BY <1>2, <1>3 DEF Prepared, Demotes, Removals, Replaceable
  <1>5. \A v \in Workers :
          /\ v # w /\ ~Idle(v) /\ (r.op \in Removals \/ req[v].op \in Removals)
          => req[v].org # r.org /\ req[v].user # r.user
    BY <1>1, <1>3 DEF Apart
  <1> QED BY <1>1, <1>4, <1>5, AskUndisturbed

LEMMA AdministerUndisturbed ==
  ASSUME Isolated, Undisturbed, TypeOK', NEW w \in Workers, Administer(w)
  PROVE  Undisturbed'
  <1>1. ASSUME NEW o \in Organizations, NEW a \in Users, NEW u \in Users,
               NEW op \in AdminOperations, Authorize(w, op, o, a, u)
        PROVE  Undisturbed'
    <2> DEFINE r == [phase |-> "authorized", op |-> op, org |-> o, rank |-> role[o][a],
                     user |-> u, role |-> "viewer", row |-> "keep", account |-> "keep",
                     gone |-> FALSE]
    <2>1. Ask(w, r) /\ Unwritten /\ Apart(op, o, u) /\ role[o][a] \in {"admin", "owner"}
      BY <1>1 DEF Authorize
    <2>2. Owners(o) # {}
      BY <2>1 DEF Undisturbed, Orderly, OwnersRemain, Members
    <2>3. op = "key" => role[o][u] # "none"
      BY <1>1, <2>1 DEF Authorize
    <2>4. /\ r.op = op /\ r.org = o /\ r.user = u /\ r.row = "keep" /\ r.account = "keep" /\ ~r.gone
          /\ op # "offboard"
      BY DEF AdminOperations
    <2> HIDE DEF r
    <2>5. Prepared(r)
      BY <2>2, <2>3, <2>4 DEF Prepared, Demotes
    <2>6. \A v \in Workers :
            /\ v # w /\ ~Idle(v) /\ (r.op \in Removals \/ req[v].op \in Removals)
            => req[v].org # r.org /\ req[v].user # r.user
      BY <2>1, <2>4 DEF Apart
    <2> QED BY <2>1, <2>5, <2>6, AskUndisturbed
  <1>2. CASE Refuse(w)
    BY <1>2, AskUndisturbed DEF Refuse, Done, Ask
  <1>3. ASSUME NEW newRole \in Roles, Invite(w, newRole) PROVE Undisturbed'
    BY <1>3, DecideUndisturbed DEF Invite, Authorized, Removals
  <1>4. ASSUME NEW newRole \in Roles, ChangeRole(w, newRole) PROVE Undisturbed'
    BY <1>4, DecideUndisturbed DEF ChangeRole, Authorized, Removals
  <1>5. CASE RemoveMember(w)
    BY <1>5, DecideUndisturbed DEF RemoveMember, Authorized, Removals
  <1>6. ASSUME NEW keyRole \in Assignable, CreateKey(w, keyRole) \/ RevokeKey(w, keyRole)
        PROVE  Undisturbed'
    BY <1>6, DecideUndisturbed DEF CreateKey, RevokeKey, Authorized, Removals
  <1> QED BY <1>1, <1>2, <1>3, <1>4, <1>5, <1>6 DEF Administer

LEMMA SynchronizeUndisturbed ==
  ASSUME Isolated, Undisturbed, TypeOK', NEW w \in Workers, Synchronize(w)
  PROVE  Undisturbed'
  <1>1. ASSUME NEW o \in Organizations, NEW u \in Users, NEW newRole \in MappedRoles,
               Login(w, o, u, newRole)
        PROVE  Undisturbed'
    <2> DEFINE row == IF role[o][u] = "none" THEN "insert" ELSE Synchronized(o, u, newRole, "keep")
               write == IF account[u] = "absent" THEN "insert" ELSE "keep"
    <2>1. row # "delete" /\ write # "deactivate" /\ (row = "update" => role[o][u] \notin {"none", "owner"})
      BY DEF Synchronized
    <2>2. Provider(w, "login", o, u, newRole, row, write)
      BY <1>1 DEF Login
    <2> HIDE DEF row, write
    <2> QED BY <2>1, <2>2, ProviderUndisturbed
  <1>2. ASSUME NEW o \in Organizations, NEW u \in Users, NEW newRole \in ScimRoles,
               NEW active \in BOOLEAN, Provision(w, o, u, newRole, active)
        PROVE  Undisturbed'
    <2> DEFINE row == IF role[o][u] = "none" THEN "insert" ELSE Synchronized(o, u, newRole, "touch")
               write == CASE account[u] = "absent" -> IF active THEN "insert" ELSE "insert_inactive"
                          [] account[u] = "inactive" /\ active -> "activate"
                          [] OTHER -> "keep"
    <2>1. row # "delete" /\ (row = "update" => role[o][u] \notin {"none", "owner"})
      BY DEF Synchronized
    <2>2. write # "deactivate"
      OBVIOUS
    <2>3. Provider(w, "provision", o, u, newRole, row, write)
      BY <1>2 DEF Provision
    <2> HIDE DEF row, write
    <2> QED BY <2>1, <2>2, <2>3, ProviderUndisturbed
  <1>3. ASSUME NEW o \in Organizations, NEW u \in Users, NEW newRole \in ScimRoles,
               NEW active \in BOOLEAN, NEW otherwise \in {"keep", "touch"},
               Update(w, o, u, newRole, otherwise, active)
        PROVE  Undisturbed'
    <2> DEFINE row == Synchronized(o, u, newRole, otherwise)
               write == IF active /\ account[u] = "inactive" THEN "activate" ELSE "keep"
    <2>1. row # "delete" /\ write # "deactivate" /\ (row = "update" => role[o][u] \notin {"none", "owner"})
      BY <1>3 DEF Synchronized, Update
    <2>2. Provider(w, "update", o, u, newRole, row, write)
      BY <1>3 DEF Update
    <2> HIDE DEF row, write
    <2> QED BY <2>1, <2>2, ProviderUndisturbed
  <1>4. ASSUME NEW o \in Organizations, NEW u \in Users, Offboard(w, o, u)
        PROVE  Undisturbed'
    BY <1>4, ProviderUndisturbed DEF Offboard
  <1>5. CASE CountElsewhere(w)
    <2> DEFINE r == [req[w] EXCEPT !.phase = "decided",
                        !.account = IF Elsewhere(req[w].org, req[w].user) THEN "keep" ELSE @]
    <2>1. ~Idle(w) /\ Ask(w, r) /\ Unwritten
      BY <1>5 DEF CountElsewhere
    <2>2. req[w] \in Request /\ Prepared(req[w])
      BY <2>1 DEF Undisturbed, TypeOK, WellMade
    <2>3. /\ r.op = req[w].op /\ r.org = req[w].org /\ r.user = req[w].user
          /\ r.row = req[w].row /\ r.role = req[w].role /\ r.gone = req[w].gone
          /\ r.account = "deactivate" =>
               req[w].account = "deactivate" /\ ~Elsewhere(req[w].org, req[w].user)
      BY <2>2 DEF Request
    <2> HIDE DEF r
    <2>4. Prepared(r)
      BY <2>2, <2>3 DEF Prepared, Demotes, Elsewhere
    <2>5. \A v \in Workers :
            /\ v # w /\ ~Idle(v) /\ (r.op \in Removals \/ req[v].op \in Removals)
            => req[v].org # r.org /\ req[v].user # r.user
      BY <2>1, <2>3 DEF Undisturbed, StayApart
    <2> QED BY <2>1, <2>4, <2>5, AskUndisturbed
  <1> QED BY <1>1, <1>2, <1>3, <1>4, <1>5 DEF Synchronize

(* What a commit of an undisturbed request writes.                         *)
LEMMA CommitWrites ==
  ASSUME Undisturbed, NEW w \in Workers, Commit(w)
  PROVE  LET r == req[w] IN
         /\ r \in Request /\ Prepared(r) /\ ~Conflicts(r)
         /\ r.org \in Organizations /\ r.user \in Users
         /\ \A o \in Organizations, u \in Users :
              role'[o][u] = IF o = r.org /\ u = r.user THEN RowWritten(r) ELSE role[o][u]
         /\ \A o \in Organizations \ {r.org} :
              keys'[o] = keys[o] /\ offboarded'[o] = offboarded[o]
         /\ keys'[r.org] = KeysWritten(r)
         /\ offboarded'[r.org] =
              IF r.op = "offboard" THEN offboarded[r.org] \cup {r.user}
              ELSE IF r.row = "insert" THEN offboarded[r.org] \ {r.user} ELSE offboarded[r.org]
  <1> DEFINE r == req[w]
  <1>1. r \in Request /\ Prepared(r) /\ ~Conflicts(r)
    BY DEF Commit, Undisturbed, TypeOK, WellMade
  <1>2. r.org \in Organizations /\ r.user \in Users
    BY <1>1 DEF Request
  <1>3. /\ role' = [role EXCEPT ![r.org][r.user] = RowWritten(r)]
        /\ keys' = [keys EXCEPT ![r.org] = KeysWritten(r)]
        /\ offboarded' = [offboarded EXCEPT ![r.org] =
             IF r.op = "offboard" THEN @ \cup {r.user}
             ELSE IF r.row = "insert" THEN @ \ {r.user} ELSE @]
    BY DEF Commit
  <1> HIDE DEF r
  <1>4. \A o \in Organizations, u \in Users :
          role'[o][u] = IF o = r.org /\ u = r.user THEN RowWritten(r) ELSE role[o][u]
    BY <1>2, <1>3 DEF Undisturbed, TypeOK
  <1>5. /\ \A o \in Organizations \ {r.org} :
             keys'[o] = keys[o] /\ offboarded'[o] = offboarded[o]
        /\ keys'[r.org] = KeysWritten(r)
        /\ offboarded'[r.org] =
             IF r.op = "offboard" THEN offboarded[r.org] \cup {r.user}
             ELSE IF r.row = "insert" THEN offboarded[r.org] \ {r.user} ELSE offboarded[r.org]
    BY <1>2, <1>3 DEF Undisturbed, TypeOK
  <1> QED BY <1>1, <1>2, <1>4, <1>5 DEF r

(* The row is written by what is decided.                                  *)
LEMMA RowsWritten ==
  ASSUME NEW r \in Request, Prepared(r), ~Conflicts(r)
  PROVE  /\ RowWritten(r) # "none" <=>
              r.row # "delete" /\ (r.row = "insert" \/ role[r.org][r.user] # "none")
         /\ role[r.org][r.user] = "owner" /\ RowWritten(r) # "owner" => Demotes(r)
  <1>1. r.role # "none"
    BY RolesKnown DEF Request
  <1> QED BY <1>1 DEF RowWritten, Prepared, Conflicts, Demotes, Request

(* No commit leaves an organization that has owners without one.           *)
LEMMA OwnersSurvive ==
  ASSUME Undisturbed, NEW w \in Workers, Commit(w), NEW o \in Organizations, Owners(o) # {}
  PROVE  Owners(o)' # {}
  <1> DEFINE r == req[w]
  <1>1. /\ r \in Request /\ Prepared(r) /\ ~Conflicts(r)
        /\ r.org \in Organizations /\ r.user \in Users
        /\ \A p \in Organizations, u \in Users :
             role'[p][u] = IF p = r.org /\ u = r.user THEN RowWritten(r) ELSE role[p][u]
    BY CommitWrites
  <1> HIDE DEF r
  <1>2. CASE o = r.org /\ role[o][r.user] = "owner" /\ RowWritten(r) # "owner"
    <2>1. Replaceable(o, r.user)
      BY <1>1, <1>2, RowsWritten DEF Prepared
    <2>2. PICK other \in Owners(o) : other # r.user
      BY <1>1, <1>2, <2>1, AnotherOwner
    <2> QED BY <1>1, <2>2 DEF Owners
  <1>3. CASE o = r.org /\ role[o][r.user] = "owner" /\ RowWritten(r) = "owner"
    BY <1>1, <1>3 DEF Owners
  <1>4. CASE o # r.org \/ role[o][r.user] # "owner"
    <2>1. PICK owner \in Owners(o) : TRUE
      OBVIOUS
    <2> QED BY <1>1, <1>4, <2>1 DEF Owners
  <1> QED BY <1>2, <1>3, <1>4

LEMMA CommitOrderly ==
  ASSUME Undisturbed, NEW w \in Workers, Commit(w)
  PROVE  Orderly'
  <1> DEFINE r == req[w]
  <1>1. /\ r \in Request /\ Prepared(r) /\ ~Conflicts(r)
        /\ r.org \in Organizations /\ r.user \in Users
        /\ \A o \in Organizations, u \in Users :
             role'[o][u] = IF o = r.org /\ u = r.user THEN RowWritten(r) ELSE role[o][u]
        /\ \A o \in Organizations \ {r.org} :
             keys'[o] = keys[o] /\ offboarded'[o] = offboarded[o]
        /\ keys'[r.org] = KeysWritten(r)
        /\ offboarded'[r.org] =
             IF r.op = "offboard" THEN offboarded[r.org] \cup {r.user}
             ELSE IF r.row = "insert" THEN offboarded[r.org] \ {r.user} ELSE offboarded[r.org]
    BY CommitWrites
  <1>2. ASSUME NEW o \in Organizations, o = r.org PROVE Owners(o)' # {}
    BY <1>1, <1>2, OwnersSurvive DEF Prepared
  <1> HIDE DEF r
  <1>3. ASSUME NEW o \in Organizations, o # r.org
        PROVE  Members(o)' = Members(o) /\ Owners(o)' = Owners(o)
    BY <1>1, <1>3 DEF Members, Owners
  <1>4. OwnersRemain'
    BY <1>2, <1>3 DEF Undisturbed, Orderly, OwnersRemain
  <1>5. ASSUME NEW o \in Organizations, Members(o)' = {}
        PROVE  (keys[o] = {} /\ offboarded[o] = {})'
    <2>1. o # r.org
      BY <1>2, <1>5 DEF Members, Owners
    <2> QED BY <1>1, <1>3, <1>5, <2>1 DEF Undisturbed, Orderly
  <1>6. ASSUME NEW o \in Organizations, NEW u \in Users, role'[o][u] # "none"
        PROVE  u \notin offboarded'[o]
    <2>1. CASE o # r.org \/ u # r.user
      BY <1>1, <1>6, <2>1 DEF Undisturbed, Orderly
    <2>2. CASE o = r.org /\ u = r.user
      <3>1. r.row # "delete" /\ (r.row = "insert" \/ role[r.org][r.user] # "none")
        BY <1>1, <1>6, <2>2, RowsWritten
      <3>2. r.op # "offboard"
        BY <1>1, <3>1 DEF Prepared
      <3> QED BY <1>1, <2>2, <3>1, <3>2 DEF Undisturbed, Orderly
    <2> QED BY <2>1, <2>2
  <1>7. ASSUME NEW o \in Organizations, NEW k \in Key, k \in keys'[o]
        PROVE  k.user \notin offboarded'[o]
    <2>1. CASE k \notin keys[o]
      <3>1. o = r.org
        BY <1>1, <1>7, <2>1
      <3>2. r.op = "key" /\ k = [user |-> r.user, role |-> r.role]
        BY <1>1, <1>7, <2>1, <3>1 DEF KeysWritten
      <3>3. r.user \notin offboarded[o]
        BY <1>1, <3>1, <3>2 DEF Prepared, Undisturbed, Orderly
      <3> QED BY <1>1, <3>1, <3>2, <3>3
    <2>2. CASE k \in keys[o]
      <3>1. k.user \notin offboarded[o]
        BY <2>2 DEF Undisturbed, Orderly, OffboardedHoldNoKeys
      <3>2. o = r.org /\ r.op = "offboard" => k.user # r.user
        BY <1>1, <1>7 DEF KeysWritten
      <3> QED BY <1>1, <3>1, <3>2
    <2> QED BY <2>1, <2>2
  <1>8. OffboardedHoldNoKeys'
    BY <1>7 DEF OffboardedHoldNoKeys
  <1> QED BY <1>4, <1>5, <1>6, <1>8 DEF Orderly

(* What the others have read still holds after a commit.                   *)
LEMMA CommitUndisturbed ==
  ASSUME Undisturbed, TypeOK', NEW w \in Workers, Commit(w)
  PROVE  Undisturbed'
  <1> DEFINE r == req[w]
  <1>1. /\ r \in Request /\ Prepared(r) /\ ~Conflicts(r)
        /\ r.org \in Organizations /\ r.user \in Users
        /\ \A o \in Organizations, u \in Users :
             role'[o][u] = IF o = r.org /\ u = r.user THEN RowWritten(r) ELSE role[o][u]
    BY CommitWrites
  <1>2. \A v \in Workers : v # w /\ ~Idle(v) /\ (r.op \in Removals \/ req[v].op \in Removals)
          => req[v].org # r.org /\ req[v].user # r.user
    BY DEF Undisturbed, StayApart, Commit
  <1>3. ASSUME NEW v \in Workers
        PROVE  req'[v] = IF v = w THEN NoRequest ELSE req[v]
    BY <1>1, <1>2 DEF Commit, Prepared
  <1> HIDE DEF r
  <1>4. StayApart'
    BY <1>3 DEF Undisturbed, StayApart, Idle, Removals
  <1>5. ASSUME NEW v \in Workers, ~Idle(v)' PROVE Prepared(req[v])'
    <2> DEFINE q == req[v]
    <2>1. v # w /\ ~Idle(v) /\ req'[v] = q
      BY <1>3, <1>5 DEF Idle
    <2>2. q \in Request /\ Prepared(q)
      BY <2>1 DEF Undisturbed, TypeOK, WellMade
    <2>3. q.org \in Organizations /\ q.user \in Users
      BY <2>2 DEF Request
    <2> HIDE DEF q
    <2>4. CASE q.op \in Removals \/ r.op \in Removals
      <3>1. q.org # r.org /\ q.user # r.user
        BY <1>2, <2>1, <2>4 DEF q
      <3>2. \A u \in Users : role'[q.org][u] = role[q.org][u]
        BY <1>1, <2>3, <3>1
      <3>3. \A o \in Organizations : role'[o][q.user] = role[o][q.user]
        BY <1>1, <2>3, <3>1
      <3>4. Owners(q.org)' = Owners(q.org)
        <4>1. {u \in Users : role'[q.org][u] = "owner"} = {u \in Users : role[q.org][u] = "owner"}
          BY <3>2
        <4> QED BY <2>1, <4>1 DEF Owners, q
      <3> QED BY <2>1, <2>2, <2>3, <3>2, <3>3, <3>4 DEF Prepared, Demotes, Replaceable, q
    <2>5. CASE q.op \notin Removals /\ r.op \notin Removals
      <3>1. ASSUME NEW o \in Organizations, o = q.org PROVE Owners(o)' # {}
        BY <2>2, <3>1, OwnersSurvive DEF Prepared
      <3>2. r.row # "delete"
        BY <1>1, <2>5 DEF Prepared
      <3>3. \A o \in Organizations, u \in Users : role[o][u] # "none" => role'[o][u] # "none"
        BY <1>1, <3>2, RowsWritten
      <3>4. ~Demotes(q) /\ q.row # "update" /\ q.op # "offboard" /\ q.account # "deactivate"
        BY <2>2, <2>5 DEF Prepared, Demotes, Removals
      <3> QED BY <2>1, <2>2, <2>3, <2>5, <3>1, <3>3, <3>4 DEF Prepared, Demotes, Removals
    <2> QED BY <2>4, <2>5
  <1> QED BY <1>4, <1>5, CommitOrderly DEF Undisturbed

LEMMA FoundUndisturbed ==
  ASSUME Isolated, Undisturbed, TypeOK', NEW o \in Organizations, NEW a \in Users, Found(o, a)
  PROVE  Undisturbed'
  <1>1. \A p \in Organizations, u \in Users :
          role'[p][u] = IF p = o /\ u = a THEN "owner" ELSE role[p][u]
    BY DEF Found, Undisturbed, TypeOK
  <1>2. keys[o] = {} /\ offboarded[o] = {} /\ Members(o) = {}
    BY DEF Found, Undisturbed, Orderly
  <1>3. \A p \in Organizations \ {o} : Members(p)' = Members(p) /\ Owners(p)' = Owners(p)
    BY <1>1 DEF Members, Owners
  <1>4. a \in Owners(o)' /\ a \in Members(o)'
    BY <1>1 DEF Owners, Members
  <1>5. Orderly'
    <2>1. OwnersRemain'
      BY <1>3, <1>4 DEF OwnersRemain, Undisturbed, Orderly
    <2>2. \A p \in Organizations : Members(p)' = {} => keys'[p] = {} /\ offboarded'[p] = {}
      BY <1>3, <1>4 DEF Found, Undisturbed, Orderly
    <2>3. \A p \in Organizations, u \in Users : role'[p][u] # "none" => u \notin offboarded'[p]
      BY <1>1, <1>2 DEF Found, Undisturbed, Orderly
    <2>4. OffboardedHoldNoKeys'
      BY DEF Found, Undisturbed, Orderly, OffboardedHoldNoKeys
    <2> QED BY <2>1, <2>2, <2>3, <2>4 DEF Orderly
  <1>6. StayApart'
    BY DEF Found, Undisturbed, StayApart, Idle
  <1>7. ASSUME NEW v \in Workers, ~Idle(v)' PROVE Prepared(req[v])'
    <2> DEFINE q == req[v]
    <2>1. ~Idle(v) /\ req' = req /\ Apart("found", o, a)
      BY <1>7 DEF Idle, Found
    <2>2. q \in Request /\ Prepared(q)
      BY <2>1 DEF Undisturbed, TypeOK, WellMade
    <2>3. q.org \in Organizations /\ q.user \in Users /\ q.org # o
      BY <1>2, <2>2 DEF Request, Prepared, Members, Owners
    <2>4. q.op \in Removals => q.user # a
      BY <2>1 DEF Apart
    <2> HIDE DEF q
    <2>5. Owners(q.org)' = Owners(q.org)
      <3>1. {u \in Users : role'[q.org][u] = "owner"} = {u \in Users : role[q.org][u] = "owner"}
        BY <1>1, <2>3
      <3> QED BY <2>1, <3>1 DEF Owners, q
    <2>6. \A u \in Users : role'[q.org][u] = role[q.org][u]
      BY <1>1, <2>3
    <2>7. q.account = "deactivate" => \A p \in Organizations : role'[p][q.user] = role[p][q.user]
      BY <1>1, <2>2, <2>3, <2>4 DEF Prepared, Removals
    <2> QED BY <2>1, <2>2, <2>3, <2>5, <2>6, <2>7 DEF Prepared, Demotes, Replaceable, q
  <1> QED BY <1>5, <1>6, <1>7 DEF Undisturbed

(* Every step of isolated requests keeps it.                               *)
LEMMA StepUndisturbed == Isolated /\ Undisturbed /\ [Next]_vars => Undisturbed'
  <1> SUFFICES ASSUME Isolated, Undisturbed, [Next]_vars PROVE Undisturbed'
    OBVIOUS
  <1>1. TypeOK'
    BY StepTypes DEF Undisturbed
  <1>2. ASSUME NEW w \in Workers, Rollback(w) PROVE Undisturbed'
    BY <1>1, <1>2, AskUndisturbed DEF Rollback, Done, Ask
  <1>3. CASE UNCHANGED vars
    <2>1. Orderly' /\ StayApart'
      BY <1>3 DEF vars, Undisturbed, Orderly, OwnersRemain, OffboardedHoldNoKeys, Members, Owners,
         StayApart, Idle, Removals
    <2>2. \A w \in Workers : ~Idle(w)' => Prepared(req[w])'
      BY <1>3 DEF vars, Undisturbed, Prepared, Demotes, Replaceable, Owners, Idle
    <2> QED BY <1>1, <2>1, <2>2 DEF Undisturbed
  <1> QED BY <1>1, <1>2, <1>3, FoundUndisturbed, AdministerUndisturbed, SynchronizeUndisturbed,
          CommitUndisturbed DEF Next

(* Isolated requests are undisturbed.                                      *)
THEOREM IsolatedAreUndisturbed ==
  ASSUME Isolated
  PROVE  Spec => []Undisturbed
  <1>1. Undisturbed /\ [Next]_vars => Undisturbed'
    BY StepUndisturbed
  <1> QED BY <1>1, InitUndisturbed, PTL DEF Spec

(* OwnersRemain: no sequence of isolated demotions, removals, directory    *)
(* synchronizations and offboardings takes the last owner.                 *)
THEOREM LastOwnerStays ==
  ASSUME Isolated
  PROVE  Spec => []OwnersRemain
  <1>1. Undisturbed => OwnersRemain
    BY DEF Undisturbed, Orderly
  <1> QED BY <1>1, IsolatedAreUndisturbed, PTL

(* OffboardedHoldNoKeys: whoever left by SCIM holds no key, of all those   *)
(* that requests made before, until he is a member again.                  *)
THEOREM OffboardingTakesKeys ==
  ASSUME Isolated
  PROVE  Spec => []OffboardedHoldNoKeys
  <1>1. Undisturbed => OffboardedHoldNoKeys
    BY DEF Undisturbed, Orderly
  <1> QED BY <1>1, IsolatedAreUndisturbed, PTL

(* An account is deactivated by a commit, of an offboarding that counted   *)
(* no other membership.                                                    *)
LEMMA AccountsDeactivated ==
  ASSUME Undisturbed, Next, NEW u \in Users, account[u] = "active", account'[u] = "inactive",
         NEW o \in Organizations
  PROVE  role'[o][u] = "none"
  <1>1. ASSUME NEW w \in Workers, Administer(w) PROVE FALSE
    BY <1>1 DEF Administer, Authorize, Refuse, Invite, ChangeRole, RemoveMember, CreateKey,
       RevokeKey, Unwritten
  <1>2. ASSUME NEW w \in Workers, Synchronize(w) PROVE FALSE
    <2>1. ASSUME NEW p \in Organizations, NEW v \in Users, NEW op, NEW newRole, NEW row,
                 NEW write, Provider(w, op, p, v, newRole, row, write)
          PROVE  FALSE
      BY <2>1 DEF Provider, Unwritten
    <2>2. CASE CountElsewhere(w)
      BY <2>2 DEF CountElsewhere, Unwritten
    <2>3. \A p \in Organizations, v \in Users :
            /\ ~Offboard(w, p, v)
            /\ \A newRole \in MappedRoles : ~Login(w, p, v, newRole)
      BY <2>1 DEF Login, Offboard
    <2>4. \A p \in Organizations, v \in Users, newRole \in ScimRoles, active \in BOOLEAN :
            ~Provision(w, p, v, newRole, active)
      BY <2>1 DEF Provision
    <2>5. \A p \in Organizations, v \in Users, newRole \in ScimRoles, active \in BOOLEAN :
            \A otherwise \in {"keep", "touch"} : ~Update(w, p, v, newRole, otherwise, active)
      BY <2>1 DEF Update
    <2> QED BY <1>2, <2>2, <2>3, <2>4, <2>5 DEF Synchronize
  <1>3. PICK w \in Workers : Commit(w)
    BY <1>1, <1>2 DEF Next, Found, Rollback, Unwritten
  <1> DEFINE r == req[w]
  <1>4. /\ r \in Request /\ Prepared(r) /\ ~Conflicts(r)
        /\ r.org \in Organizations /\ r.user \in Users
        /\ \A p \in Organizations, v \in Users :
             role'[p][v] = IF p = r.org /\ v = r.user THEN RowWritten(r) ELSE role[p][v]
    BY <1>3, CommitWrites
  <1>5. account' = [account EXCEPT ![r.user] = AccountWritten(r)] /\ r.phase = "decided"
    BY <1>3 DEF Commit
  <1> HIDE DEF r
  <1>6. u = r.user /\ AccountWritten(r) = "inactive"
    BY <1>4, <1>5 DEF Undisturbed, TypeOK
  <1>7. r.account = "deactivate"
    BY <1>4, <1>6 DEF AccountWritten, Conflicts
  <1>8. RowWritten(r) = "none" /\ \A other \in Organizations \ {r.org} : role[other][u] = "none"
    BY <1>4, <1>5, <1>6, <1>7, RowsWritten DEF Prepared
  <1> QED BY <1>4, <1>6, <1>8

(* OffboardingSparesMembers: the account of a member of another            *)
(* organization stays active.                                              *)
THEOREM OffboardingIsTenantSafe ==
  ASSUME Isolated
  PROVE  Spec => OffboardingSparesMembers
  <1>1. Undisturbed /\ [Next]_vars
          => [\A u \in Users :
                account[u] = "active" /\ account'[u] = "inactive"
                => \A o \in Organizations : role'[o][u] = "none"]_vars
    BY AccountsDeactivated
  <1> QED BY <1>1, IsolatedAreUndisturbed, PTL DEF Spec, OffboardingSparesMembers

-------------------------------------------------------------------------------
(* Seats                                                                   *)

(* The requests that are about to insert a member.                         *)
Inserting(o) == {w \in Workers : ~Idle(w) /\ req[w].row = "insert" /\ req[w].org = o}

(* Those who sit and those who have a seat granted.                        *)
SeatsGranted ==
    \A o \in Organizations :
        Cardinality(Members(o)) + Cardinality(Inserting(o)) < MaxUsers[o] + Cardinality(Workers)

(* The sets that are counted are finite.                                   *)
LEMMA SeatsCountable ==
  ASSUME NEW o \in Organizations
  PROVE  /\ IsFiniteSet(Members(o)) /\ Cardinality(Members(o)) \in Nat
         /\ IsFiniteSet(Inserting(o)) /\ Cardinality(Inserting(o)) \in Nat
         /\ Cardinality(Inserting(o)) <= Cardinality(Workers)
         /\ Cardinality(Workers) \in Nat \ {0} /\ MaxUsers[o] \in Nat \ {0}
  <1>1. IsFiniteSet(Members(o)) /\ IsFiniteSet(Inserting(o))
        /\ Cardinality(Inserting(o)) <= Cardinality(Workers)
    BY MembershipAssumption, FS_Subset DEF Members, Inserting
  <1>2. Cardinality(Workers) \in Nat \ {0}
    BY MembershipAssumption, FS_CardinalityType, FS_EmptySet
  <1> QED BY <1>1, <1>2, MembershipAssumption, FS_CardinalityType

(* Counts do not grow when both sets do not.                               *)
LEMMA SeatsFewer ==
  ASSUME SeatsGranted, NEW o \in Organizations,
         Members(o)' \subseteq Members(o), Inserting(o)' \subseteq Inserting(o)
  PROVE  Cardinality(Members(o)') + Cardinality(Inserting(o)')
           < MaxUsers[o] + Cardinality(Workers)
  <1>1. /\ Cardinality(Members(o)') <= Cardinality(Members(o)) /\ Cardinality(Members(o)') \in Nat
        /\ Cardinality(Inserting(o)') <= Cardinality(Inserting(o))
        /\ Cardinality(Inserting(o)') \in Nat
    BY SeatsCountable, FS_Subset, FS_CardinalityType
  <1> QED BY <1>1, SeatsCountable DEF SeatsGranted

(* A request that writes no table has a seat granted, or asks for none.    *)
LEMMA AskSeats ==
  ASSUME Undisturbed, SeatsGranted, NEW w \in Workers, NEW r, Ask(w, r), Unwritten,
         \/ r = NoRequest
         \/ r.row = "insert" =>
              SeatFree(r.org) \/ (~Idle(w) /\ req[w].row = "insert" /\ req[w].org = r.org)
  PROVE  SeatsGranted'
  <1> SUFFICES ASSUME NEW o \in Organizations
               PROVE  Cardinality(Members(o)') + Cardinality(Inserting(o)')
                        < MaxUsers[o] + Cardinality(Workers)
    BY DEF SeatsGranted
  <1>1. Members(o)' = Members(o)
    BY DEF Unwritten, Members
  <1>2. req'[w] = r /\ \A v \in Workers \ {w} : req'[v] = req[v]
    BY DEF Ask, Undisturbed, TypeOK
  <1>3. CASE SeatFree(o)
    <2>1. Inserting(o)' \subseteq Workers
      BY DEF Inserting
    <2>2. Cardinality(Inserting(o)') <= Cardinality(Workers) /\ Cardinality(Inserting(o)') \in Nat
      BY <2>1, MembershipAssumption, FS_Subset, FS_CardinalityType
    <2> QED BY <1>1, <1>3, <2>2, SeatsCountable DEF SeatFree
  <1>4. CASE ~SeatFree(o)
    <2>1. Inserting(o)' \subseteq Inserting(o)
      BY <1>2, <1>4 DEF Inserting, Idle
    <2> QED BY <1>1, <2>1, SeatsFewer
  <1> QED BY <1>3, <1>4

LEMMA AdministerSeats ==
  ASSUME Undisturbed, SeatsGranted, NEW w \in Workers, Administer(w)
  PROVE  SeatsGranted'
  <1>1. ASSUME NEW o \in Organizations, NEW a \in Users, NEW u \in Users,
               NEW op \in AdminOperations, Authorize(w, op, o, a, u)
        PROVE  SeatsGranted'
    <2> DEFINE r == [phase |-> "authorized", op |-> op, org |-> o, rank |-> role[o][a],
                     user |-> u, role |-> "viewer", row |-> "keep", account |-> "keep",
                     gone |-> FALSE]
    <2>1. Ask(w, r) /\ Unwritten /\ r.row = "keep"
      BY <1>1 DEF Authorize
    <2> HIDE DEF r
    <2> QED BY <2>1, AskSeats
  <1>2. CASE Refuse(w)
    BY <1>2, AskSeats DEF Refuse, Done, Ask
  <1>3. ASSUME NEW row, NEW newRole, ~Idle(w), Decide(w, row, newRole), Unwritten,
               row = "insert" => SeatFree(req[w].org)
        PROVE  SeatsGranted'
    <2> DEFINE r == [req[w] EXCEPT !.phase = "decided", !.row = row, !.role = newRole]
    <2>1. req[w] \in Request
      BY <1>3 DEF Undisturbed, TypeOK, WellMade
    <2>2. Ask(w, r) /\ r.row = row /\ r.org = req[w].org
      BY <1>3, <2>1 DEF Decide, Request
    <2> HIDE DEF r
    <2> QED BY <1>3, <2>2, AskSeats
  <1>4. ASSUME NEW newRole \in Roles, Invite(w, newRole) \/ ChangeRole(w, newRole)
        PROVE  SeatsGranted'
    BY <1>3, <1>4 DEF Invite, ChangeRole, Authorized
  <1>5. CASE RemoveMember(w)
    BY <1>3, <1>5 DEF RemoveMember, Authorized
  <1>6. ASSUME NEW keyRole \in Assignable, CreateKey(w, keyRole) \/ RevokeKey(w, keyRole)
        PROVE  SeatsGranted'
    BY <1>3, <1>6 DEF CreateKey, RevokeKey, Authorized
  <1> QED BY <1>1, <1>2, <1>4, <1>5, <1>6 DEF Administer

LEMMA SynchronizeSeats ==
  ASSUME Undisturbed, SeatsGranted, NEW w \in Workers, Synchronize(w)
  PROVE  SeatsGranted'
  <1>1. ASSUME NEW o \in Organizations, NEW u \in Users, NEW op, NEW newRole, NEW row, NEW write,
               Provider(w, op, o, u, newRole, row, write), row = "insert" => SeatFree(o)
        PROVE  SeatsGranted'
    <2> DEFINE r == [phase |-> IF op = "offboard" THEN "leaving" ELSE "decided", op |-> op,
                     org |-> o, rank |-> "viewer", user |-> u, role |-> newRole,
                     row |-> row, account |-> write, gone |-> FALSE]
    <2>1. Ask(w, r) /\ Unwritten /\ r.row = row /\ r.org = o
      BY <1>1 DEF Provider
    <2> HIDE DEF r
    <2> QED BY <1>1, <2>1, AskSeats
  <1>2. ASSUME NEW o \in Organizations, NEW u \in Users, NEW newRole \in MappedRoles,
               Login(w, o, u, newRole)
        PROVE  SeatsGranted'
    BY <1>1, <1>2 DEF Login, Synchronized
  <1>3. ASSUME NEW o \in Organizations, NEW u \in Users, NEW newRole \in ScimRoles,
               NEW active \in BOOLEAN, Provision(w, o, u, newRole, active)
        PROVE  SeatsGranted'
    <2> DEFINE row == IF role[o][u] = "none" THEN "insert" ELSE Synchronized(o, u, newRole, "touch")
               write == CASE account[u] = "absent" -> IF active THEN "insert" ELSE "insert_inactive"
                          [] account[u] = "inactive" /\ active -> "activate"
                          [] OTHER -> "keep"
    <2>1. Provider(w, "provision", o, u, newRole, row, write)
      BY <1>3 DEF Provision
    <2>2. row = "insert" => SeatFree(o)
      BY <1>3 DEF Provision, Synchronized
    <2> HIDE DEF row, write
    <2> QED BY <1>1, <2>1, <2>2
  <1>4. ASSUME NEW o \in Organizations, NEW u \in Users, NEW newRole \in ScimRoles,
               NEW active \in BOOLEAN, NEW otherwise \in {"keep", "touch"},
               Update(w, o, u, newRole, otherwise, active)
        PROVE  SeatsGranted'
    BY <1>1, <1>4 DEF Update, Synchronized
  <1>5. ASSUME NEW o \in Organizations, NEW u \in Users, Offboard(w, o, u)
        PROVE  SeatsGranted'
    BY <1>1, <1>5 DEF Offboard
  <1>6. CASE CountElsewhere(w)
    <2> DEFINE r == [req[w] EXCEPT !.phase = "decided",
                        !.account = IF Elsewhere(req[w].org, req[w].user) THEN "keep" ELSE @]
    <2>1. ~Idle(w) /\ Ask(w, r) /\ Unwritten
      BY <1>6 DEF CountElsewhere
    <2>2. r.row = req[w].row /\ r.org = req[w].org
      BY <2>1 DEF Undisturbed, TypeOK, WellMade, Request
    <2> HIDE DEF r
    <2> QED BY <2>1, <2>2, AskSeats
  <1> QED BY <1>2, <1>3, <1>4, <1>5, <1>6 DEF Synchronize

LEMMA CommitSeats ==
  ASSUME Undisturbed, SeatsGranted, NEW w \in Workers, Commit(w)
  PROVE  SeatsGranted'
  <1> SUFFICES ASSUME NEW o \in Organizations
               PROVE  Cardinality(Members(o)') + Cardinality(Inserting(o)')
                        < MaxUsers[o] + Cardinality(Workers)
    BY DEF SeatsGranted
  <1> DEFINE r == req[w]
  <1>1. /\ r \in Request /\ Prepared(r) /\ ~Conflicts(r)
        /\ r.org \in Organizations /\ r.user \in Users
        /\ \A p \in Organizations, u \in Users :
             role'[p][u] = IF p = r.org /\ u = r.user THEN RowWritten(r) ELSE role[p][u]
    BY CommitWrites
  <1>2. \A v \in Workers : req'[v] = IF v = w THEN NoRequest ELSE req[v]
    BY <1>1 DEF Undisturbed, StayApart, Commit, Prepared
  <1>3. Inserting(o)' = Inserting(o) \ {w}
    BY <1>2 DEF Inserting, Idle
  <1>4. ~Idle(w)
    BY DEF Commit
  <1>5. CASE r.row = "insert" /\ o = r.org
    <2>1. w \in Inserting(o)
      BY <1>4, <1>5 DEF Inserting
    <2>2. Cardinality(Inserting(o)') = Cardinality(Inserting(o)) - 1
      <3>1. IsFiniteSet(Inserting(o))
        BY SeatsCountable
      <3>2. Cardinality(Inserting(o) \ {w}) = Cardinality(Inserting(o)) - 1
        BY <2>1, <3>1, FS_RemoveElement
      <3> QED BY <1>3, <3>2
    <2>3. Members(o)' \subseteq Members(o) \cup {r.user}
      BY <1>1, <1>5 DEF Members
    <2>4. IsFiniteSet(Members(o) \cup {r.user})
          /\ Cardinality(Members(o) \cup {r.user}) <= Cardinality(Members(o)) + 1
      <3>1. IsFiniteSet(Members(o)) /\ Cardinality(Members(o)) \in Nat
        BY SeatsCountable
      <3>2. ASSUME NEW S, IsFiniteSet(S), Cardinality(S) \in Nat, NEW x
            PROVE  IsFiniteSet(S \cup {x}) /\ Cardinality(S \cup {x}) <= Cardinality(S) + 1
        <4>1. /\ IsFiniteSet(S \cup {x})
              /\ Cardinality(S \cup {x}) = IF x \in S THEN Cardinality(S) ELSE Cardinality(S) + 1
          BY <3>2, FS_AddElement, Zenon
        <4> QED BY <3>2, <4>1
      <3> QED BY <3>1, <3>2
    <2>5. Cardinality(Members(o)') <= Cardinality(Members(o) \cup {r.user})
          /\ Cardinality(Members(o)') \in Nat /\ Cardinality(Members(o) \cup {r.user}) \in Nat
      BY <2>3, <2>4, FS_Subset, FS_CardinalityType
    <2> QED BY <2>2, <2>4, <2>5, SeatsCountable DEF SeatsGranted
  <1>6. CASE r.row # "insert" \/ o # r.org
    <2>1. Members(o)' \subseteq Members(o)
      BY <1>1, <1>6, RowsWritten DEF Members
    <2> QED BY <1>3, <2>1, SeatsFewer
  <1> QED BY <1>5, <1>6

LEMMA FoundSeats ==
  ASSUME Undisturbed, SeatsGranted, NEW o \in Organizations, NEW a \in Users, Found(o, a)
  PROVE  SeatsGranted'
  <1> SUFFICES ASSUME NEW p \in Organizations
               PROVE  Cardinality(Members(p)') + Cardinality(Inserting(p)')
                        < MaxUsers[p] + Cardinality(Workers)
    BY DEF SeatsGranted
  <1>1. \A q \in Organizations, u \in Users :
          role'[q][u] = IF q = o /\ u = a THEN "owner" ELSE role[q][u]
    BY DEF Found, Undisturbed, TypeOK
  <1>2. Inserting(p)' = Inserting(p)
    BY DEF Found, Inserting, Idle
  <1>3. CASE p = o
    <2>1. Inserting(o) = {}
      BY DEF Found, Inserting, Undisturbed, Prepared, Members, Owners
    <2>2. Members(o)' = {a}
      BY <1>1 DEF Members, Found
    <2>3. Cardinality(Members(o)') = 1 /\ Cardinality(Inserting(o)') = 0
      BY <1>2, <1>3, <2>1, <2>2, FS_Singleton, FS_EmptySet
    <2> QED BY <1>3, <2>3, SeatsCountable
  <1>4. CASE p # o
    <2>1. Members(p)' = Members(p)
      BY <1>1, <1>4 DEF Members
    <2> QED BY <1>2, <2>1, SeatsFewer
  <1> QED BY <1>3, <1>4

(* SeatsBounded: requests that pass the quota together exceed the seats of *)
(* the plan by fewer than there are workers.                               *)
THEOREM SeatsStayBounded ==
  ASSUME Isolated
  PROVE  Spec => []SeatsBounded
  <1>1. Init => SeatsGranted
    <2> SUFFICES ASSUME Init, NEW o \in Organizations
                 PROVE  Cardinality(Members(o)) + Cardinality(Inserting(o))
                          < MaxUsers[o] + Cardinality(Workers)
      BY DEF SeatsGranted
    <2>1. Members(o) = {} /\ Inserting(o) = {}
      BY DEF Init, Members, Inserting, Idle
    <2> QED BY <2>1, FS_EmptySet, SeatsCountable
  <1>2. Undisturbed /\ SeatsGranted /\ [Next]_vars => SeatsGranted'
    <2> SUFFICES ASSUME Undisturbed, SeatsGranted, [Next]_vars PROVE SeatsGranted'
      OBVIOUS
    <2>1. ASSUME NEW w \in Workers, Rollback(w) PROVE SeatsGranted'
      BY <2>1, AskSeats DEF Rollback, Done, Ask
    <2>2. CASE UNCHANGED vars
      <3>1. \A o \in Organizations : Members(o)' = Members(o) /\ Inserting(o)' = Inserting(o)
        BY <2>2 DEF vars, Members, Inserting, Idle
      <3> QED BY <3>1, SeatsFewer DEF SeatsGranted
    <2> QED BY <2>1, <2>2, FoundSeats, AdministerSeats, SynchronizeSeats, CommitSeats DEF Next
  <1>3. SeatsGranted => SeatsBounded
    BY SeatsCountable DEF SeatsGranted, SeatsBounded
  <1> QED BY <1>1, <1>2, <1>3, IsolatedAreUndisturbed, PTL DEF Spec

-------------------------------------------------------------------------------
(* The window of a throttle                                                *)

(* How many request times stay when the others are popped.                 *)
Kept(times, s, now) ==
    Plan!Max({i \in DOMAIN times : times[i] + Duration[s] > now} \cup {0})

KeepsUpTo(times, s, now, k) ==
    /\ k \in 0..Len(times)
    /\ k # 0 => times[k] + Duration[s] > now
    /\ \A i \in 1..Len(times) : i > k => ~(times[i] + Duration[s] > now)

(* The last recent one is there, and the ones before it stay with it.      *)
LEMMA KeptIsLast ==
  ASSUME NEW s \in Plan!Scopes, NEW times \in Seq(Nat), NEW now \in Nat
  PROVE  KeepsUpTo(times, s, now, Kept(times, s, now))
  <1> DEFINE Fresh == {i \in DOMAIN times : times[i] + Duration[s] > now} \cup {0}
             Rest == {Len(times) - i : i \in Fresh}
  <1>1. /\ Len(times) \in Nat /\ DOMAIN times = 1..Len(times)
        /\ Fresh \subseteq 0..Len(times) /\ 0 \in Fresh
    OBVIOUS
  <1>2. Rest # {} /\ Rest \subseteq Nat
    BY <1>1
  <1>3. PICK rest \in Rest : \A other \in Rest : ~(<<other, rest>> \in OpToRel(<, Nat))
    <2> HIDE DEF Rest
    <2> QED BY <1>2, NatLessThanWellFounded, WFMin, Zenon
  <1>4. \A other \in Rest : ~(other < rest)
    BY <1>2, <1>3 DEF OpToRel
  <1>5. PICK last \in Fresh : rest = Len(times) - last
    OBVIOUS
  <1>6. \A i \in Fresh : last >= i
    <2> SUFFICES ASSUME NEW i \in Fresh PROVE last >= i
      OBVIOUS
    <2>1. Len(times) - i \in Rest
      OBVIOUS
    <2>2. ~(Len(times) - i < Len(times) - last)
      BY <1>4, <1>5, <2>1
    <2> HIDE DEF Fresh
    <2> QED BY <1>1, <2>2
  <1>7. Plan!Max(Fresh) \in Fresh /\ \A i \in Fresh : Plan!Max(Fresh) >= i
    <2> HIDE DEF Fresh
    <2> QED BY <1>6 DEF Plan!Max
  <1>8. Kept(times, s, now) \in Fresh /\ \A i \in Fresh : Kept(times, s, now) >= i
    BY <1>7 DEF Kept
  <1> QED BY <1>1, <1>8 DEF KeepsUpTo

(* Nothing else is the last recent one.                                    *)
LEMMA KeptIsOnly ==
  ASSUME NEW s \in Plan!Scopes, NEW times \in Seq(Nat), NEW now \in Nat, NEW k,
         KeepsUpTo(times, s, now, k)
  PROVE  k = Kept(times, s, now)
  <1>1. KeepsUpTo(times, s, now, Kept(times, s, now))
    BY KeptIsLast
  <1> DEFINE m == Kept(times, s, now)
  <1> HIDE DEF m
  <1>2. KeepsUpTo(times, s, now, m)
    BY <1>1 DEF m
  <1>3. k = m
    BY <1>2 DEF KeepsUpTo
  <1> QED BY <1>3 DEF m

(* The history that stays.                                                 *)
LEMMA RecentIsPrefix ==
  ASSUME NEW s \in Plan!Scopes, NEW times \in Seq(Nat), NEW now \in Nat
  PROVE  /\ Plan!Recent(times, s, now) \in Seq(Nat)
         /\ Len(Plan!Recent(times, s, now)) = Kept(times, s, now)
         /\ Kept(times, s, now) \in 0..Len(times)
         /\ \A i \in 1..Kept(times, s, now) : Plan!Recent(times, s, now)[i] = times[i]
  <1> DEFINE k == Kept(times, s, now)
  <1>1. k \in 0..Len(times) /\ Len(times) \in Nat
    BY KeptIsLast DEF KeepsUpTo
  <1>2. Plan!Recent(times, s, now) = SubSeq(times, 1, k)
    BY DEF Plan!Recent, Kept
  <1> HIDE DEF k
  <1>3. \A i \in 1..k : times[i] \in Nat
    BY <1>1, ElementOfSeq
  <1>4. /\ SubSeq(times, 1, k) \in Seq(Nat)
        /\ Len(SubSeq(times, 1, k)) = IF 1 <= k THEN k - 1 + 1 ELSE 0
        /\ \A i \in 1..(k - 1 + 1) : SubSeq(times, 1, k)[i] = times[1 + i - 1]
    BY <1>1, <1>3, SubSeqProperties
  <1>5. Len(SubSeq(times, 1, k)) = k /\ \A i \in 1..k : SubSeq(times, 1, k)[i] = times[i]
    BY <1>1, <1>4
  <1> QED BY <1>1, <1>2, <1>4, <1>5 DEF k

(* Two histories leave the same if they agree on what stays.               *)
LEMMA RecentEqual ==
  ASSUME NEW s \in Plan!Scopes, NEW a \in Seq(Nat), NEW b \in Seq(Nat), NEW now \in Nat,
         NEW k, KeepsUpTo(a, s, now, k), KeepsUpTo(b, s, now, k), \A i \in 1..k : a[i] = b[i]
  PROVE  Plan!Recent(a, s, now) = Plan!Recent(b, s, now)
  <1>1. k = Kept(a, s, now) /\ k = Kept(b, s, now)
    BY KeptIsOnly
  <1> DEFINE ra == Plan!Recent(a, s, now)
             rb == Plan!Recent(b, s, now)
  <1>2. ra \in Seq(Nat) /\ Len(ra) = k /\ \A i \in 1..k : ra[i] = a[i]
    BY <1>1, RecentIsPrefix
  <1>3. rb \in Seq(Nat) /\ Len(rb) = k /\ \A i \in 1..k : rb[i] = b[i]
    BY <1>1, RecentIsPrefix
  <1> HIDE DEF ra, rb
  <1>4. Len(ra) = Len(rb) /\ \A i \in 1..Len(ra) : ra[i] = rb[i]
    BY <1>2, <1>3
  <1>5. ra = rb
    BY <1>2, <1>3, <1>4, SeqEqual, Zenon
  <1> QED BY <1>5 DEF ra, rb

(* What is popped early would have been popped later.                      *)
LEMMA RecentLater ==
  ASSUME NEW s \in Plan!Scopes, NEW times \in Seq(Nat), NEW now \in Nat, NEW later \in Nat,
         now <= later
  PROVE  Plan!Recent(Plan!Recent(times, s, now), s, later) = Plan!Recent(times, s, later)
  <1> DEFINE r == Plan!Recent(times, s, now)
             k == Kept(times, s, now)
             m == Kept(times, s, later)
  <1>1. KeepsUpTo(times, s, now, k) /\ KeepsUpTo(times, s, later, m)
    BY KeptIsLast
  <1>2. r \in Seq(Nat) /\ Len(r) = k /\ \A i \in 1..k : r[i] = times[i]
    BY RecentIsPrefix
  <1> HIDE DEF r, k, m
  <1>3. Duration[s] \in Nat /\ \A i \in 1..Len(times) : times[i] \in Nat
    BY LimitsAssumption, ElementOfSeq
  <1>4. m <= k /\ m \in Nat /\ k \in Nat /\ k <= Len(times) /\ Len(times) \in Nat
    BY <1>1, <1>3 DEF KeepsUpTo
  <1>5. KeepsUpTo(r, s, later, m)
    <2>1. m \in 0..Len(r)
      BY <1>2, <1>4
    <2>2. m # 0 => r[m] + Duration[s] > later
      <3>1. m # 0 => m \in 1..k
        BY <1>4
      <3> QED BY <1>1, <1>2, <3>1 DEF KeepsUpTo
    <2>3. \A i \in 1..Len(r) : i \in 1..Len(times) /\ r[i] = times[i]
      BY <1>2, <1>4
    <2>4. \A i \in 1..Len(r) : i > m => ~(r[i] + Duration[s] > later)
      BY <1>1, <2>3 DEF KeepsUpTo
    <2> QED BY <2>1, <2>2, <2>4 DEF KeepsUpTo
  <1>6. \A i \in 1..m : r[i] = times[i]
    BY <1>2, <1>4
  <1> QED BY <1>1, <1>2, <1>5, <1>6, RecentEqual DEF r

(* A new request time in front.                                            *)
LEMMA RecentWithOneMore ==
  ASSUME NEW s \in Plan!Scopes, NEW times \in Seq(Nat), NEW now \in Nat, NEW t \in Nat
  PROVE  KeepsUpTo(<<t>> \o times, s, now,
                   IF Kept(times, s, now) = 0
                   THEN IF t + Duration[s] > now THEN 1 ELSE 0
                   ELSE Kept(times, s, now) + 1)
  <1> DEFINE k == Kept(times, s, now)
             longer == <<t>> \o times
  <1>1. KeepsUpTo(times, s, now, k)
    BY KeptIsLast
  <1>2. <<t>> \in Seq(Nat) /\ Len(<<t>>) = 1 /\ <<t>>[1] = t
    OBVIOUS
  <1>3. /\ longer \in Seq(Nat) /\ Len(longer) = 1 + Len(times)
        /\ \A i \in 1..(1 + Len(times)) : longer[i] = IF i <= 1 THEN <<t>>[i] ELSE times[i - 1]
    BY <1>2, ConcatProperties
  <1> HIDE DEF k, longer
  <1>4. Len(times) \in Nat
    OBVIOUS
  <1>5. longer[1] = t /\ \A i \in 1..Len(times) : longer[i + 1] = times[i]
    BY <1>2, <1>3, <1>4
  <1>6. \A i \in 1..(1 + Len(times)) : i # 1 => i - 1 \in 1..Len(times) /\ longer[i] = times[i - 1]
    BY <1>3, <1>4
  <1>7. k \in 0..Len(times)
    BY <1>1 DEF KeepsUpTo
  <1>8. CASE k = 0
    BY <1>1, <1>3, <1>4, <1>5, <1>6, <1>8 DEF KeepsUpTo, k, longer
  <1>9. CASE k # 0
    <2>1. longer[k + 1] + Duration[s] > now
      BY <1>1, <1>5, <1>7, <1>9 DEF KeepsUpTo
    <2>2. \A i \in 1..(1 + Len(times)) : i > k + 1 => ~(longer[i] + Duration[s] > now)
      BY <1>1, <1>4, <1>6, <1>7 DEF KeepsUpTo
    <2>3. KeepsUpTo(longer, s, now, k + 1)
      BY <1>3, <1>4, <1>7, <2>1, <2>2 DEF KeepsUpTo
    <2> QED BY <1>9, <2>3 DEF k, longer
  <1> QED BY <1>8, <1>9

(* A new request time in front of histories that leave the same.           *)
LEMMA RecentAfterOneMore ==
  ASSUME NEW s \in Plan!Scopes, NEW a \in Seq(Nat), NEW b \in Seq(Nat), NEW now \in Nat,
         NEW t \in Nat, Plan!Recent(a, s, now) = Plan!Recent(b, s, now)
  PROVE  /\ Plan!Recent(<<t>> \o a, s, now) = Plan!Recent(<<t>> \o b, s, now)
         /\ Len(Plan!Recent(<<t>> \o a, s, now)) <= Len(Plan!Recent(a, s, now)) + 1
         /\ <<t>> \o a \in Seq(Nat)
  <1> DEFINE k == Kept(a, s, now)
             m == IF k = 0 THEN IF t + Duration[s] > now THEN 1 ELSE 0 ELSE k + 1
  <1>1. /\ k = Kept(b, s, now) /\ k \in 0..Len(a) /\ k \in 0..Len(b) /\ k \in Nat
        /\ Len(Plan!Recent(a, s, now)) = k
        /\ \A i \in 1..k : a[i] = b[i]
    <2>1. /\ Len(Plan!Recent(a, s, now)) = k /\ k \in 0..Len(a)
          /\ \A i \in 1..k : Plan!Recent(a, s, now)[i] = a[i]
      BY RecentIsPrefix
    <2>2. /\ Len(Plan!Recent(b, s, now)) = Kept(b, s, now) /\ Kept(b, s, now) \in 0..Len(b)
          /\ \A i \in 1..Kept(b, s, now) : Plan!Recent(b, s, now)[i] = b[i]
      BY RecentIsPrefix
    <2> QED BY <2>1, <2>2
  <1>2. KeepsUpTo(<<t>> \o a, s, now, m) /\ KeepsUpTo(<<t>> \o b, s, now, m)
    BY <1>1, RecentWithOneMore
  <1>3. <<t>> \in Seq(Nat) /\ Len(<<t>>) = 1
    OBVIOUS
  <1>4. /\ <<t>> \o a \in Seq(Nat) /\ <<t>> \o b \in Seq(Nat)
        /\ Len(<<t>> \o a) = 1 + Len(a) /\ Len(<<t>> \o b) = 1 + Len(b)
        /\ \A i \in 1..(1 + Len(a)) : (<<t>> \o a)[i] = IF i <= 1 THEN <<t>>[i] ELSE a[i - 1]
        /\ \A i \in 1..(1 + Len(b)) : (<<t>> \o b)[i] = IF i <= 1 THEN <<t>>[i] ELSE b[i - 1]
    BY <1>3, ConcatProperties
  <1>5. m \in 0..(k + 1)
    BY <1>1
  <1> HIDE DEF k, m
  <1>6. \A i \in 1..m : (<<t>> \o a)[i] = (<<t>> \o b)[i]
    <2> SUFFICES ASSUME NEW i \in 1..m PROVE (<<t>> \o a)[i] = (<<t>> \o b)[i]
      OBVIOUS
    <2>1. /\ i \in 1..(1 + Len(a)) /\ i \in 1..(1 + Len(b))
          /\ i > 1 => i - 1 \in 1..k
      BY <1>1, <1>5
    <2>2. /\ (<<t>> \o a)[i] = IF i <= 1 THEN <<t>>[i] ELSE a[i - 1]
          /\ (<<t>> \o b)[i] = IF i <= 1 THEN <<t>>[i] ELSE b[i - 1]
      BY <1>4, <2>1
    <2>3. ~(i <= 1) => a[i - 1] = b[i - 1]
      BY <1>1, <2>1
    <2>4. CASE i <= 1
      BY <2>2, <2>4, Zenon
    <2>5. CASE ~(i <= 1)
      BY <2>2, <2>3, <2>5, Zenon
    <2> QED BY <2>4, <2>5
  <1>7. Plan!Recent(<<t>> \o a, s, now) = Plan!Recent(<<t>> \o b, s, now)
    <2> DEFINE ta == <<t>> \o a
               tb == <<t>> \o b
    <2>1. /\ ta \in Seq(Nat) /\ tb \in Seq(Nat) /\ \A i \in 1..m : ta[i] = tb[i]
          /\ KeepsUpTo(ta, s, now, m) /\ KeepsUpTo(tb, s, now, m)
      BY <1>2, <1>4, <1>6
    <2> HIDE DEF ta, tb
    <2>2. Plan!Recent(ta, s, now) = Plan!Recent(tb, s, now)
      BY <2>1, RecentEqual
    <2> QED BY <2>2 DEF ta, tb
  <1>8. m = Kept(<<t>> \o a, s, now)
    BY <1>2, <1>4, KeptIsOnly
  <1>9. Len(Plan!Recent(<<t>> \o a, s, now)) = m
    BY <1>4, <1>8, RecentIsPrefix
  <1> QED BY <1>1, <1>4, <1>5, <1>7, <1>9

-------------------------------------------------------------------------------
(* Tasks and requests: types                                               *)

(* Where a request is tells its kind, and a single task is one task.       *)
WellPlaced(c) ==
    /\ c.phase \in {"count", "start"} => c.kind = "ai"
    /\ c.phase = "write" => c.kind \in {"bulk", "graphql"}
    /\ c.phase = "insert" => c.throttles # <<>>
    /\ c.kind \in {"create", "restore"} => c.size = 1

PlanTypes ==
    /\ {tasks, deleted, used, clock, passed} \subseteq Nat /\ overlapped \in BOOLEAN
    /\ history \in [Plan!Scopes -> Seq(Nat)] /\ admitted \in [Plan!Scopes -> Seq(Nat)]
    /\ call \in [Workers -> Plan!Call \cup {NoCall}]
    /\ \A w \in Workers : call[w] # NoCall => WellPlaced(call[w])

(* What a worker does concerns its own request.                            *)
CallBecomes(w, c) ==
    /\ call' = [v \in Workers |-> call'[v]]
    /\ call'[w] = c
    /\ \A v \in Workers \ {w} : call'[v] = call[v]

LEMMA ThrottlesTyped ==
  ASSUME NEW kind
  PROVE  Plan!Throttles(kind) \in Seq(Plan!Scopes)
  <1>1. /\ <<"ai_assist", "ai_assist_burst">> \in Seq(Plan!Scopes)
        /\ <<>> \in Seq(Plan!Scopes) /\ <<"org_plan">> \in Seq(Plan!Scopes)
    BY DEF Plan!Scopes
  <1>2. Plan!Throttles(kind) \in {<<"ai_assist", "ai_assist_burst">>, <<>>, <<"org_plan">>}
    BY DEF Plan!Throttles
  <1> QED BY <1>1, <1>2, Zenon

LEMMA EntersCall ==
  ASSUME PlanTypes, NEW w \in Workers, NEW kind \in Plan!Kinds, NEW n \in 1..MaxBatch,
         NEW phase \in {"count", "throttle", "write"}, Plan!Begin(w, kind, n, phase)
  PROVE  \E c \in Plan!Call :
           /\ CallBecomes(w, c)
           /\ c.kind = kind /\ c.size = n /\ c.phase = phase
  <1> DEFINE c == [kind |-> kind, size |-> n, phase |-> phase, throttles |-> Plan!Throttles(kind),
                   refused |-> FALSE, now |-> 0, seen |-> <<>>]
  <1>1. c \in Plan!Call
    <2>1. <<>> \in Seq(Nat)
      OBVIOUS
    <2> QED BY <2>1, ThrottlesTyped DEF Plan!Call
  <1>2. CallBecomes(w, c)
    BY DEF Plan!Begin, CallBecomes, PlanTypes
  <1>3. c.kind = kind /\ c.size = n /\ c.phase = phase
    OBVIOUS
  <1> HIDE DEF c
  <1> QED BY <1>1, <1>2, <1>3

(* The call of a worker that is in a phase.                                *)
LEMMA InCall ==
  ASSUME PlanTypes, NEW w \in Workers, call[w] # NoCall
  PROVE  /\ call[w] \in Plan!Call /\ WellPlaced(call[w])
         /\ call[w].kind \in Plan!Kinds /\ call[w].size \in 1..MaxBatch
         /\ call[w].throttles \in Seq(Plan!Scopes)
         /\ call[w].now \in Nat /\ call[w].seen \in Seq(Nat)
  BY DEF PlanTypes, Plan!Call

LEMMA GoesOn ==
  ASSUME PlanTypes, NEW w \in Workers, call[w] # NoCall
  PROVE  /\ \A phase : Plan!Goto(w, phase) => CallBecomes(w, [call[w] EXCEPT !.phase = phase])
         /\ Plan!Return(w) => CallBecomes(w, NoCall)
  BY DEF PlanTypes, Plan!Goto, Plan!Return, CallBecomes

(* A call in the place of the worker's.                                    *)
LEMMA CallTyped ==
  ASSUME PlanTypes, NEW w \in Workers, NEW c \in Plan!Call \cup {NoCall}, CallBecomes(w, c),
         c # NoCall => WellPlaced(c)
  PROVE  /\ call' \in [Workers -> Plan!Call \cup {NoCall}]
         /\ \A v \in Workers : call'[v] # NoCall => WellPlaced(call'[v])
  BY DEF PlanTypes, CallBecomes

LEMMA ThrottleStep ==
  ASSUME PlanTypes, NEW w \in Workers, Plan!ReadHistory(w)
  PROVE  LET c == call[w]
             s == Head(c.throttles)
             seen == Plan!Recent(history[s], s, clock) IN
         /\ c.phase = "throttle" /\ s \in Plan!Scopes /\ c.throttles # <<>>
         /\ seen \in Seq(Nat)
         /\ \/ /\ Len(seen) < Rate[s]
               /\ CallBecomes(w, [c EXCEPT !.phase = "insert", !.now = clock, !.seen = seen])
            \/ CallBecomes(w, [c EXCEPT !.throttles = Tail(@), !.refused = TRUE])
         /\ UNCHANGED <<tasks, deleted, used, history, clock, passed, overlapped, admitted>>
  <1> DEFINE c == call[w]
             s == Head(c.throttles)
             seen == Plan!Recent(history[s], s, clock)
  <1>1. /\ c # NoCall /\ c.phase = "throttle" /\ c.throttles # <<>>
        /\ call' = IF Len(seen) < Rate[s]
                   THEN [call EXCEPT ![w].phase = "insert", ![w].now = clock, ![w].seen = seen]
                   ELSE [call EXCEPT ![w].throttles = Tail(@), ![w].refused = TRUE]
        /\ UNCHANGED <<tasks, deleted, used, history, clock, passed, overlapped, admitted>>
    BY DEF Plan!ReadHistory, Plan!In, Plan!stores
  <1>2. c.throttles \in Seq(Plan!Scopes)
    BY <1>1, InCall
  <1>3. s \in Plan!Scopes
    BY <1>1, <1>2
  <1>4. history[s] \in Seq(Nat) /\ clock \in Nat
    BY <1>3 DEF PlanTypes
  <1>5. seen \in Seq(Nat)
    BY <1>3, <1>4, RecentIsPrefix
  <1>6. \/ /\ Len(seen) < Rate[s]
           /\ CallBecomes(w, [c EXCEPT !.phase = "insert", !.now = clock, !.seen = seen])
        \/ CallBecomes(w, [c EXCEPT !.throttles = Tail(@), !.refused = TRUE])
    <2> HIDE DEF s, seen
    <2>1. call \in [Workers -> Plan!Call \cup {NoCall}]
      BY DEF PlanTypes
    <2> QED BY <1>1, <2>1 DEF CallBecomes
  <1> QED BY <1>1, <1>3, <1>5, <1>6

LEMMA InsertStep ==
  ASSUME PlanTypes, NEW w \in Workers, Plan!WriteHistory(w)
  PROVE  LET c == call[w]
             s == Head(c.throttles) IN
         /\ c # NoCall /\ c.phase = "insert" /\ s \in Plan!Scopes
         /\ <<c.now>> \o c.seen \in Seq(Nat)
         /\ history' = [history EXCEPT ![s] = <<c.now>> \o c.seen]
         /\ admitted' = IF overlapped THEN admitted
                        ELSE [admitted EXCEPT ![s] = <<c.now>> \o Plan!Recent(@, s, clock)]
         /\ CallBecomes(w, [c EXCEPT !.phase = "throttle", !.throttles = Tail(@),
                                     !.now = 0, !.seen = <<>>])
         /\ UNCHANGED <<tasks, deleted, used, clock, passed, overlapped>>
  <1> DEFINE c == call[w]
             s == Head(c.throttles)
  <1>1. /\ c # NoCall /\ c.phase = "insert"
        /\ call' = [call EXCEPT ![w].phase = "throttle", ![w].throttles = Tail(@),
                                ![w].now = 0, ![w].seen = <<>>]
    BY DEF Plan!WriteHistory, Plan!In
  <1>2. c.throttles # <<>> /\ c.throttles \in Seq(Plan!Scopes) /\ c.now \in Nat /\ c.seen \in Seq(Nat)
    BY <1>1, InCall DEF WellPlaced
  <1>3. s \in Plan!Scopes
    BY <1>2
  <1>4. <<c.now>> \o c.seen \in Seq(Nat)
    BY <1>2
  <1>5. CallBecomes(w, [c EXCEPT !.phase = "throttle", !.throttles = Tail(@),
                                 !.now = 0, !.seen = <<>>])
    BY <1>1 DEF CallBecomes, PlanTypes
  <1> QED BY <1>1, <1>3, <1>4, <1>5 DEF Plan!WriteHistory, Plan!stores

(* A request comes in: what it was asked for, and where it goes on.        *)
Entering(w, c) ==
    /\ call[w] = NoCall /\ c \in Plan!Call /\ CallBecomes(w, c)
    /\ c.kind \in {"create", "restore", "graphql"} => c.size = 1 /\ tasks + 1 <= MaxTasks
    /\ c.kind = "ai" => used < MaxAIRequests
    /\ c.phase = IF c.kind = "ai" THEN "count" ELSE IF c.kind = "graphql" THEN "write"
                 ELSE "throttle"
    /\ overlapped' = (overlapped \/ \E v \in Workers : call[v] # NoCall)
    /\ admitted' = IF overlapped' THEN [s \in Plan!Scopes |-> <<>>] ELSE admitted
    /\ UNCHANGED <<tasks, deleted, used, history, clock, passed>>

LEMMA EnterStep ==
  ASSUME PlanTypes, NEW w \in Workers,
         \/ \E kind \in Plan!Kinds, n \in 1..MaxBatch :
              kind # "graphql" /\ (kind # "bulk" => n = 1) /\ Plan!Enter(w, kind, n)
         \/ Plan!EnterGraphQL(w)
  PROVE  \E c : Entering(w, c)
  <1>1. ASSUME NEW kind \in Plan!Kinds, NEW n \in 1..MaxBatch,
               kind # "graphql", kind # "bulk" => n = 1, Plan!Enter(w, kind, n)
        PROVE  \E c : Entering(w, c)
    <2> DEFINE phase == IF kind = "ai" THEN "count" ELSE "throttle"
    <2>1. Plan!Begin(w, kind, n, phase) /\ phase \in {"count", "throttle", "write"}
      BY <1>1 DEF Plan!Enter
    <2>2. PICK c \in Plan!Call : CallBecomes(w, c) /\ c.kind = kind /\ c.size = n /\ c.phase = phase
      <3> HIDE DEF phase
      <3> QED BY <2>1, EntersCall
    <2>3. Entering(w, c)
      BY <1>1, <2>1, <2>2 DEF Entering, Plan!Enter, Plan!Begin, Plan!RoomFor, Plan!stores
    <2> QED BY <2>3
  <1>2. CASE Plan!EnterGraphQL(w)
    <2>1. Plan!Begin(w, "graphql", 1, "write") /\ "graphql" \in Plan!Kinds /\ 1 \in 1..MaxBatch
      BY <1>2, LimitsAssumption DEF Plan!EnterGraphQL, Plan!Kinds
    <2>2. PICK c \in Plan!Call : CallBecomes(w, c) /\ c.kind = "graphql" /\ c.size = 1
                                 /\ c.phase = "write"
      BY <2>1, EntersCall
    <2>3. Entering(w, c)
      BY <1>2, <2>1, <2>2 DEF Entering, Plan!EnterGraphQL, Plan!Begin, Plan!RoomFor, Plan!stores
    <2> QED BY <2>3
  <1> QED BY <1>1, <1>2

LEMMA PlanTypesInit == Plan!Init => PlanTypes
  <1>1. <<>> \in Seq(Nat)
    OBVIOUS
  <1> SUFFICES ASSUME Plan!Init PROVE PlanTypes
    OBVIOUS
  <1>2. tasks = 0 /\ deleted \in {0, 1} /\ used = 0 /\ clock = 0 /\ passed = 0 /\ overlapped = FALSE
    BY DEF Plan!Init
  <1>3. history \in [Plan!Scopes -> Seq(Nat)] /\ admitted \in [Plan!Scopes -> Seq(Nat)]
    BY <1>1 DEF Plan!Init
  <1>4. call \in [Workers -> Plan!Call \cup {NoCall}] /\ \A w \in Workers : call[w] = NoCall
    BY DEF Plan!Init
  <1>5. {tasks, deleted, used, clock, passed} \subseteq Nat
    BY <1>2
  <1>6. overlapped \in BOOLEAN
    BY <1>2, Zenon
  <1> QED BY <1>3, <1>4, <1>5, <1>6 DEF PlanTypes

LEMMA PlanTypesWork ==
  ASSUME PlanTypes, NEW w \in Workers, Plan!Work(w)
  PROVE  PlanTypes'
  <1> DEFINE q == call[w]
             Scalars == {tasks', deleted', used', clock', passed'} \subseteq Nat
                        /\ overlapped' \in BOOLEAN
             Histories == /\ history' \in [Plan!Scopes -> Seq(Nat)]
                          /\ admitted' \in [Plan!Scopes -> Seq(Nat)]
  <1>1. ASSUME NEW c \in Plan!Call \cup {NoCall}, CallBecomes(w, c), c # NoCall => WellPlaced(c),
               Scalars, Histories
        PROVE  PlanTypes'
    BY <1>1, CallTyped DEF PlanTypes
  <1>2. UNCHANGED <<history, admitted>> => Histories
    BY DEF PlanTypes
  <1>3. /\ UNCHANGED <<tasks, deleted, used, clock, passed, overlapped>> => Scalars
        /\ {tasks, deleted, used, clock, passed} \subseteq Nat /\ overlapped \in BOOLEAN
    BY DEF PlanTypes
  <1>4. ASSUME q # NoCall
        PROVE  /\ q \in Plan!Call /\ WellPlaced(q) /\ q.size \in Nat
               /\ [q EXCEPT !.phase = "start"] \in Plan!Call
               /\ [q EXCEPT !.phase = "throttle"] \in Plan!Call
               /\ [q EXCEPT !.phase = "write"] \in Plan!Call
    BY <1>4, InCall DEF Plan!Call
  <1>5. Plan!Return(w) /\ q # NoCall /\ Scalars /\ Histories => PlanTypes'
    BY <1>1, GoesOn
  <1> HIDE DEF Scalars, Histories
  <1>6. ASSUME NEW c, Entering(w, c) PROVE PlanTypes'
    <2>1. WellPlaced(c) /\ c \in Plan!Call /\ CallBecomes(w, c)
      BY <1>6 DEF Entering, WellPlaced
    <2>2. Scalars
      BY <1>3, <1>6 DEF Entering, Scalars
    <2>3. Histories
      <3>1. <<>> \in Seq(Nat)
        OBVIOUS
      <3> QED BY <1>6, <3>1 DEF Entering, Histories, PlanTypes
    <2> QED BY <1>1, <2>1, <2>2, <2>3
  <1>7. CASE Plan!Count(w)
    <2>1. q # NoCall /\ q.phase = "count" /\ UNCHANGED <<history, admitted>>
      BY <1>7 DEF Plan!Count, Plan!In
    <2>2. Scalars
      BY <1>3, <1>7 DEF Plan!Count, Plan!Pass, Scalars
    <2>3. PICK phase \in {"start", "throttle"} : Plan!Goto(w, phase)
      BY <1>7 DEF Plan!Count, Plan!Pass
    <2>4. CallBecomes(w, [q EXCEPT !.phase = phase])
      BY <2>1, <2>3, GoesOn
    <2>5. [q EXCEPT !.phase = phase] \in Plan!Call /\ WellPlaced([q EXCEPT !.phase = phase])
      BY <1>4, <2>1 DEF WellPlaced, Plan!Call
    <2> HIDE DEF q
    <2> QED BY <1>1, <1>2, <2>1, <2>2, <2>4, <2>5
  <1>8. CASE Plan!StartCount(w)
    <2>1. q # NoCall /\ q.phase = "start" /\ UNCHANGED <<history, admitted>>
      BY <1>8 DEF Plan!StartCount, Plan!In
    <2>2. Scalars
      BY <1>3, <1>8 DEF Plan!StartCount, Plan!Pass, Scalars
    <2>3. CallBecomes(w, [q EXCEPT !.phase = "throttle"])
      BY <1>8, <2>1, GoesOn DEF Plan!StartCount, Plan!Pass
    <2>4. [q EXCEPT !.phase = "throttle"] \in Plan!Call /\ WellPlaced([q EXCEPT !.phase = "throttle"])
      BY <1>4, <2>1 DEF WellPlaced, Plan!Call
    <2> HIDE DEF q
    <2> QED BY <1>1, <1>2, <2>1, <2>2, <2>3, <2>4
  <1>9. CASE Plan!ReadHistory(w)
    <2> DEFINE seen == Plan!Recent(history[Head(q.throttles)], Head(q.throttles), clock)
    <2>1. /\ q.phase = "throttle" /\ q.throttles # <<>> /\ seen \in Seq(Nat)
          /\ \/ CallBecomes(w, [q EXCEPT !.phase = "insert", !.now = clock, !.seen = seen])
             \/ CallBecomes(w, [q EXCEPT !.throttles = Tail(@), !.refused = TRUE])
          /\ UNCHANGED <<tasks, deleted, used, history, clock, passed, overlapped, admitted>>
      BY <1>9, ThrottleStep
    <2>2. q # NoCall
      BY <1>9 DEF Plan!ReadHistory, Plan!In
    <2> HIDE DEF seen
    <2>3. Tail(q.throttles) \in Seq(Plan!Scopes) /\ clock \in Nat
      BY <2>1, <2>2, InCall DEF PlanTypes
    <2>4. /\ [q EXCEPT !.phase = "insert", !.now = clock, !.seen = seen] \in Plan!Call
          /\ WellPlaced([q EXCEPT !.phase = "insert", !.now = clock, !.seen = seen])
          /\ [q EXCEPT !.throttles = Tail(@), !.refused = TRUE] \in Plan!Call
          /\ WellPlaced([q EXCEPT !.throttles = Tail(@), !.refused = TRUE])
      BY <1>4, <2>1, <2>2, <2>3 DEF Plan!Call, WellPlaced
    <2> HIDE DEF q
    <2> QED BY <1>1, <1>2, <1>3, <2>1, <2>4
  <1>10. CASE Plan!WriteHistory(w)
    <2> DEFINE s == Head(q.throttles)
               c == [q EXCEPT !.phase = "throttle", !.throttles = Tail(@), !.now = 0, !.seen = <<>>]
    <2>1. /\ q # NoCall /\ q.phase = "insert" /\ s \in Plan!Scopes
          /\ <<q.now>> \o q.seen \in Seq(Nat)
          /\ history' = [history EXCEPT ![s] = <<q.now>> \o q.seen]
          /\ admitted' = IF overlapped THEN admitted
                         ELSE [admitted EXCEPT ![s] = <<q.now>> \o Plan!Recent(@, s, clock)]
          /\ CallBecomes(w, c)
          /\ UNCHANGED <<tasks, deleted, used, clock, passed, overlapped>>
      BY <1>10, InsertStep
    <2>2. q.throttles # <<>> /\ q.throttles \in Seq(Plan!Scopes) /\ q.now \in Nat
      BY <2>1, <1>4, InCall DEF WellPlaced
    <2>3. Tail(q.throttles) \in Seq(Plan!Scopes) /\ <<>> \in Seq(Nat)
      BY <2>2
    <2>4. c \in Plan!Call /\ WellPlaced(c)
      BY <1>4, <2>1, <2>3 DEF Plan!Call, WellPlaced
    <2> HIDE DEF s, c, q
    <2>5. admitted[s] \in Seq(Nat) /\ clock \in Nat
      BY <2>1 DEF PlanTypes
    <2>6. Plan!Recent(admitted[s], s, clock) \in Seq(Nat)
      BY <2>1, <2>5, RecentIsPrefix
    <2>7. <<q.now>> \o Plan!Recent(admitted[s], s, clock) \in Seq(Nat)
      BY <2>2, <2>6
    <2>8. Histories
      BY <2>1, <2>7 DEF Histories, PlanTypes
    <2> QED BY <1>1, <1>3, <2>1, <2>4, <2>8
  <1>11. CASE Plan!Refuse(w)
    <2>1. /\ q # NoCall /\ Plan!Return(w)
          /\ UNCHANGED <<tasks, deleted, used, history, clock, passed, overlapped, admitted>>
      BY <1>11 DEF Plan!Refuse, Plan!Throttled, Plan!In, Plan!stores
    <2> QED BY <1>2, <1>3, <1>5, <2>1
  <1>12. CASE Plan!CountBatch(w)
    <2>1. /\ q # NoCall /\ q.kind = "bulk" /\ Plan!Goto(w, "write")
          /\ UNCHANGED <<tasks, deleted, used, history, clock, passed, overlapped, admitted>>
      BY <1>12 DEF Plan!CountBatch, Plan!Throttled, Plan!In, Plan!stores
    <2>2. CallBecomes(w, [q EXCEPT !.phase = "write"])
      BY <2>1, GoesOn
    <2>3. [q EXCEPT !.phase = "write"] \in Plan!Call /\ WellPlaced([q EXCEPT !.phase = "write"])
      BY <1>4, <2>1 DEF WellPlaced, Plan!Call
    <2> HIDE DEF q
    <2> QED BY <1>1, <1>2, <1>3, <2>1, <2>2, <2>3
  <1>13. CASE Plan!Create(w)
    <2>1. /\ q # NoCall /\ Plan!Return(w) /\ tasks' = tasks + q.size
          /\ UNCHANGED <<deleted, used, history, clock, passed, overlapped, admitted>>
      BY <1>13 DEF Plan!Create, Plan!Throttled, Plan!In
    <2>2. Scalars
      BY <1>3, <1>4, <2>1 DEF Scalars
    <2> QED BY <1>2, <1>5, <2>1, <2>2
  <1>14. CASE Plan!Restore(w)
    <2>1. /\ q # NoCall /\ Plan!Return(w) /\ tasks' = tasks + 1
          /\ deleted > 0 /\ deleted' = deleted - 1
          /\ UNCHANGED <<used, history, clock, passed, overlapped, admitted>>
      BY <1>14 DEF Plan!Restore, Plan!Throttled, Plan!In
    <2>2. Scalars
      BY <1>3, <2>1 DEF Scalars
    <2> QED BY <1>2, <1>5, <2>1, <2>2
  <1> QED BY <1>6, <1>7, <1>8, <1>9, <1>10, <1>11, <1>12, <1>13, <1>14, EnterStep DEF Plan!Work

(* The steps of no worker.                                                 *)
LEMMA PlanTypesNext == PlanTypes /\ [Plan!Next]_planVars => PlanTypes'
  <1> SUFFICES ASSUME PlanTypes, [Plan!Next]_planVars PROVE PlanTypes'
    OBVIOUS
  <1>1. CASE Plan!Delete
    BY <1>1 DEF Plan!Delete, PlanTypes
  <1>2. CASE Plan!ExpireCount
    BY <1>2 DEF Plan!ExpireCount, PlanTypes
  <1>3. CASE Plan!Tick
    <2>1. <<>> \in Seq(Nat)
      OBVIOUS
    <2>2. history' \in [Plan!Scopes -> Seq(Nat)]
      BY <1>3, <2>1 DEF Plan!Tick, PlanTypes
    <2> QED BY <1>3, <2>2 DEF Plan!Tick, PlanTypes
  <1>4. CASE UNCHANGED planVars
    BY <1>4 DEF planVars, PlanTypes
  <1> QED BY <1>1, <1>2, <1>3, <1>4, PlanTypesWork DEF Plan!Next

-------------------------------------------------------------------------------
(* Tasks and requests that overlap                                         *)

(* The requests that may yet add their tasks, those that are about to be   *)
(* counted, and those of them that saw no counter.                         *)
Adds(c) == c # NoCall /\ (c.kind \in {"create", "restore"} \/ c.phase = "write")

Charges(c) == c # NoCall /\ c.phase \in {"count", "start"}

Starts(c) == c # NoCall /\ c.phase = "start"

Adding == {w \in Workers : Adds(call[w])}

Charging == {w \in Workers : Charges(call[w])}

Starting == {w \in Workers : Starts(call[w])}

Excess == MaxTasks + (Cardinality(Workers) - 1) * MaxBatch

(* With the tasks of one request, which found room for them, and as many   *)
(* imports as other requests may add, the excess is not exceeded.          *)
TasksGranted ==
    IF Adding = {} THEN tasks <= Excess
    ELSE \E w \in Adding :
           tasks + call[w].size + (Cardinality(Adding) - 1) * MaxBatch <= Excess

(* What m late resets of the counter have forgotten, twice.                *)
Forgotten(m) == m * (2 * MaxAIRequests + m - 1)

ChargesGranted ==
    /\ used + Cardinality(Charging) <= MaxAIRequests + Cardinality(Workers) - 1
    /\ Charging # {} => MaxAIRequests > 0
    /\ used = 0 => passed = 0
    /\ used > 0 =>
         /\ Cardinality(Starting) <= Cardinality(Workers) - 1
         /\ 2 * passed <= 2 * used + Forgotten(Cardinality(Workers) - 1 - Cardinality(Starting))

(* Sets of workers are counted.                                            *)
LEMMA WorkersCounted ==
  ASSUME NEW S \in SUBSET Workers
  PROVE  /\ IsFiniteSet(S) /\ Cardinality(S) \in Nat
         /\ Cardinality(S) <= Cardinality(Workers) /\ Cardinality(Workers) \in Nat \ {0}
         /\ Cardinality(S) = 0 <=> S = {}
         /\ \A w : w \in S => Cardinality(S \ {w}) = Cardinality(S) - 1
         /\ \A w \in Workers : w \notin S => Cardinality(S \cup {w}) = Cardinality(S) + 1
  <1>1. IsFiniteSet(S) /\ Cardinality(S) <= Cardinality(Workers)
    BY MembershipAssumption, FS_Subset
  <1>2. Cardinality(Workers) \in Nat \ {0} /\ Cardinality(S) \in Nat
    BY <1>1, MembershipAssumption, FS_CardinalityType, FS_EmptySet
  <1> QED BY <1>1, <1>2, FS_EmptySet, FS_AddElement, FS_RemoveElement

(* One more import.                                                        *)
LEMMA BatchesAdd ==
  ASSUME NEW k \in Nat
  PROVE  /\ k * MaxBatch \in Nat /\ (k + 1) * MaxBatch = k * MaxBatch + MaxBatch
         /\ \A m \in Nat : k <= m => k * MaxBatch <= m * MaxBatch
  <1>1. MaxBatch \in Nat
    BY LimitsAssumption
  <1>2. k * MaxBatch \in Nat /\ (k + 1) * MaxBatch = k * MaxBatch + MaxBatch
    BY <1>1
  <1>3. ASSUME NEW m \in Nat, k <= m PROVE k * MaxBatch <= m * MaxBatch
    <2>1. m - k \in Nat /\ m = k + (m - k)
      BY <1>3
    <2>2. (m - k) * MaxBatch \in Nat /\ (k + (m - k)) * MaxBatch = k * MaxBatch + (m - k) * MaxBatch
      BY <1>1, <2>1
    <2> QED BY <1>2, <2>1, <2>2
  <1> QED BY <1>2, <1>3

(* One more late reset.                                                    *)
LEMMA ForgetsMore ==
  ASSUME NEW m \in Nat
  PROVE  /\ Forgotten(m) \in Nat
         /\ Forgotten(m + 1) = Forgotten(m) + 2 * MaxAIRequests + 2 * m
         /\ \A k \in Nat : m <= k => Forgotten(m) <= Forgotten(k)
  <1> DEFINE M == 2 * MaxAIRequests
  <1>1. M \in Nat
    BY LimitsAssumption
  <1> HIDE DEF M
  <1>2. m * (M + m - 1) \in Nat
    <2>1. CASE m = 0
      BY <1>1, <2>1
    <2>2. CASE m # 0
      <3>1. M + m - 1 \in Nat
        BY <1>1, <2>2
      <3> QED BY <3>1
    <2> QED BY <2>1, <2>2
  <1>3. (m + 1) * (M + (m + 1) - 1) = m * (M + m - 1) + M + 2 * m
    <2>1. (m + 1) * (M + m) = m * (M + m) + (M + m)
      BY <1>1
    <2>2. m * (M + m - 1) = m * (M + m) - m
      BY <1>1
    <2>3. M + (m + 1) - 1 = M + m /\ m * (M + m) \in Nat
      BY <1>1
    <2> QED BY <1>1, <2>1, <2>2, <2>3
  <1>4. ASSUME NEW k \in Nat, m <= k PROVE m * (M + m - 1) <= k * (M + k - 1)
    <2> DEFINE d == k - m
    <2>1. d \in Nat /\ k = m + d
      BY <1>4
    <2>2. CASE d = 0
      BY <1>1, <2>1, <2>2
    <2>3. CASE d # 0
      <3>1. M + k - 1 \in Nat /\ M + m - 1 \in Int /\ M + m - 1 <= M + k - 1
        BY <1>1, <2>1, <2>3
      <3>2. m * (M + m - 1) <= m * (M + k - 1)
        <4>1. m * (M + k - 1) = m * (M + m - 1) + m * d
          BY <1>1, <2>1
        <4>2. m * d \in Nat /\ m * (M + m - 1) \in Nat
          BY <1>2, <2>1
        <4> QED BY <4>1, <4>2
      <3>3. m * (M + k - 1) <= k * (M + k - 1)
        <4> DEFINE z == M + k - 1
        <4>1. z \in Nat
          BY <3>1
        <4> HIDE DEF z
        <4>2. (m + d) * z = m * z + d * z /\ d * z \in Nat /\ m * z \in Nat
          BY <2>1, <4>1
        <4>3. m * z <= k * z
          BY <2>1, <4>2
        <4> QED BY <4>3 DEF z
      <3>4. m * (M + m - 1) \in Int /\ m * (M + k - 1) \in Int /\ k * (M + k - 1) \in Int
        BY <3>1
      <3> QED BY <3>2, <3>3, <3>4
    <2> QED BY <2>2, <2>3
  <1> QED BY <1>2, <1>3, <1>4 DEF Forgotten, M

(* What becomes of these sets.                                             *)
LEMMA SetsBecome ==
  ASSUME NEW w \in Workers, NEW c, CallBecomes(w, c)
  PROVE  /\ Adding' = IF Adds(c) THEN Adding \cup {w} ELSE Adding \ {w}
         /\ Charging' = IF Charges(c) THEN Charging \cup {w} ELSE Charging \ {w}
         /\ Starting' = IF Starts(c) THEN Starting \cup {w} ELSE Starting \ {w}
  BY DEF CallBecomes, Adding, Charging, Starting

(* A request that found room.                                              *)
LEMMA TasksMore ==
  ASSUME NEW w \in Workers, Adding' = Adding \cup {w}, tasks \in Nat, call'[w].size \in Nat,
         tasks' = tasks, tasks + call'[w].size <= MaxTasks
  PROVE  TasksGranted'
  <1> DEFINE a == Cardinality(Adding')
             n == Cardinality(Workers)
  <1>1. Adding' \in SUBSET Workers /\ Adding' # {}
    BY DEF Adding
  <1>2. a \in Nat /\ a <= n /\ n \in Nat \ {0} /\ a # 0
    BY <1>1, WorkersCounted, Zenon
  <1> HIDE DEF a, n
  <1>3. (a - 1) * MaxBatch <= (n - 1) * MaxBatch /\ (a - 1) * MaxBatch \in Nat
        /\ (n - 1) * MaxBatch \in Nat
    <2>1. a - 1 \in Nat /\ n - 1 \in Nat /\ a - 1 <= n - 1
      BY <1>2
    <2> QED BY <2>1, BatchesAdd
  <1>4. tasks' + call'[w].size + (a - 1) * MaxBatch <= MaxTasks + (n - 1) * MaxBatch
    BY <1>3, LimitsAssumption
  <1>5. w \in Adding'
    OBVIOUS
  <1> QED BY <1>1, <1>4, <1>5 DEF TasksGranted, Excess, a, n

(* Requests stay as they are.                                              *)
LEMMA TasksSame ==
  ASSUME TasksGranted, PlanTypes, Adding' = Adding, tasks' \in Nat, tasks' <= tasks,
         \A v \in Adding : call'[v].size = call[v].size
  PROVE  TasksGranted'
  <1>1. tasks \in Nat /\ Excess \in Int
    <2>1. Cardinality(Workers) \in Nat \ {0}
      BY WorkersCounted, Zenon
    <2> QED BY <2>1, LimitsAssumption DEF PlanTypes, Excess
  <1>2. CASE Adding = {}
    BY <1>1, <1>2 DEF TasksGranted, Excess
  <1>3. CASE Adding # {}
    <2>1. PICK v \in Adding : tasks + call[v].size + (Cardinality(Adding) - 1) * MaxBatch <= Excess
      BY <1>3 DEF TasksGranted
    <2>2. call[v].size \in Nat
      BY InCall DEF Adding, Adds
    <2>3. (Cardinality(Adding) - 1) * MaxBatch \in Int
      <3>1. Cardinality(Adding) \in Nat
        BY WorkersCounted DEF Adding
      <3> QED BY <3>1, LimitsAssumption
    <2>4. tasks' + call'[v].size + (Cardinality(Adding') - 1) * MaxBatch <= Excess
      BY <1>1, <2>1, <2>2, <2>3
    <2> QED BY <1>3, <2>4 DEF TasksGranted, Excess
  <1> QED BY <1>2, <1>3

(* A request that ends has made way for an import of another.              *)
LEMMA RoomLeft ==
  ASSUME NEW before \in Int, NEW after \in Int, NEW x \in Int, NEW y \in Int, NEW z \in Int,
         NEW rest \in Int, NEW all \in Int, NEW batch \in Int, NEW most \in Int,
         after <= before + y, before + z + all <= most, all = rest + batch,
         x <= batch, y <= batch, z = y \/ z = x
  PROVE  after + x + rest <= most
  OBVIOUS

(* A request that ends, with its tasks or without.                         *)
LEMMA TasksFewer ==
  ASSUME TasksGranted, PlanTypes, NEW w \in Workers, CallBecomes(w, NoCall),
         tasks' \in Nat, tasks' <= tasks + (IF Adds(call[w]) THEN call[w].size ELSE 0)
  PROVE  TasksGranted'
  <1> DEFINE a == Cardinality(Adding)
  <1>1. Adding' = Adding \ {w} /\ \A v \in Adding \ {w} : call'[v] = call[v]
    BY SetsBecome DEF Adds, Adding, CallBecomes
  <1>2. CASE ~Adds(call[w])
    <2>1. Adding' = Adding /\ \A v \in Adding : call'[v].size = call[v].size
      BY <1>1, <1>2 DEF Adding
    <2> QED BY <1>2, <2>1, TasksSame DEF PlanTypes
  <1>3. CASE Adds(call[w])
    <2>1. w \in Adding /\ tasks' <= tasks + call[w].size
      BY <1>3 DEF Adding
    <2>2. PICK u \in Adding : tasks + call[u].size + (a - 1) * MaxBatch <= Excess
      BY <2>1 DEF TasksGranted
    <2>3. \A v \in Adding : call[v].size \in 1..MaxBatch
      BY InCall DEF Adding, Adds
    <2>4. a \in Nat /\ a # 0 /\ Cardinality(Adding \ {w}) = a - 1 /\ a - 1 \in Nat
      <3>1. Adding \in SUBSET Workers /\ Adding # {}
        BY <2>1 DEF Adding
      <3>2. a \in Nat /\ a # 0 /\ Cardinality(Adding \ {w}) = a - 1
        BY <2>1, <3>1, WorkersCounted, Zenon
      <3> QED BY <3>2
    <2>5. tasks \in Nat /\ MaxBatch \in Nat /\ Excess \in Int /\ Excess' = Excess
      <3>1. Cardinality(Workers) \in Nat \ {0}
        BY WorkersCounted, Zenon
      <3> QED BY <3>1, LimitsAssumption DEF PlanTypes, Excess
    <2>6. CASE Adding \ {w} = {}
      <3>1. u = w
        BY <2>6
      <3>2. (a - 1) * MaxBatch \in Nat
        BY <2>4, BatchesAdd
      <3>3. tasks' <= Excess
        BY <2>1, <2>2, <2>3, <2>5, <3>1, <3>2
      <3> QED BY <1>1, <2>5, <2>6, <3>3 DEF TasksGranted
    <2>7. CASE Adding \ {w} # {}
      <3>1. PICK v \in Adding \ {w} : u # w => v = u
        BY <2>7
      <3>2. a - 1 # 0
        <4>1. Adding \ {w} \in SUBSET Workers
          BY DEF Adding
        <4> QED BY <2>4, <2>7, <4>1, WorkersCounted, Zenon
      <3>3. (a - 1) * MaxBatch = (a - 2) * MaxBatch + MaxBatch /\ (a - 2) * MaxBatch \in Nat
        <4>1. a - 2 \in Nat /\ a - 1 = (a - 2) + 1
          BY <2>4, <3>2
        <4> QED BY <4>1, BatchesAdd
      <3>4. /\ call[v].size \in 1..MaxBatch /\ call[w].size \in 1..MaxBatch
            /\ call[u].size \in 1..MaxBatch
        BY <2>1, <2>3, <3>1
      <3> DEFINE rest == (a - 2) * MaxBatch
                 all == (a - 1) * MaxBatch
                 x == call[v].size
                 y == call[w].size
                 z == call[u].size
      <3>5. rest \in Nat /\ all = rest + MaxBatch
        BY <3>3
      <3>6. tasks' <= tasks + y /\ tasks + z + all <= Excess
        BY <2>1, <2>2
      <3>7. z = y \/ z = x
        BY <3>1
      <3>8. x \in 1..MaxBatch /\ y \in 1..MaxBatch /\ z \in 1..MaxBatch
        BY <3>4
      <3> HIDE DEF rest, all, x, y, z
      <3>9. tasks' + x + rest <= Excess
        <4>1. /\ {tasks', tasks, x, y, z, rest, all, MaxBatch, Excess} \subseteq Int
              /\ x <= MaxBatch /\ y <= MaxBatch
          BY <2>5, <3>5, <3>8
        <4> QED BY <3>5, <3>6, <3>7, <4>1, RoomLeft
      <3>10. /\ v \in Adding' /\ call'[v].size = call[v].size
             /\ Cardinality(Adding') - 1 = a - 2
        BY <1>1, <2>4, <3>1
      <3>11. tasks' + call'[v].size + (Cardinality(Adding') - 1) * MaxBatch <= Excess'
        BY <2>5, <3>9, <3>10 DEF rest, x
      <3> QED BY <3>10, <3>11 DEF TasksGranted
    <2> QED BY <2>6, <2>7
  <1> QED BY <1>2, <1>3

(* A throttle's turn leaves a request what it is.                          *)
GoesThrough(w, c) ==
    /\ call[w] # NoCall /\ CallBecomes(w, c)
    /\ c.kind = call[w].kind /\ c.size = call[w].size
    /\ {c.phase, call[w].phase} \subseteq {"insert", "throttle"}
    /\ UNCHANGED <<tasks, deleted, used, clock, passed, overlapped>>

LEMMA ThrottlesKeep ==
  ASSUME PlanTypes, NEW w \in Workers, Plan!ReadHistory(w) \/ Plan!WriteHistory(w)
  PROVE  \E c \in Plan!Call : GoesThrough(w, c)
  <1> DEFINE q == call[w]
  <1>1. /\ q # NoCall /\ q \in Plan!Call /\ q.throttles \in Seq(Plan!Scopes) /\ clock \in Nat
        /\ q.throttles # <<>>
    <2>1. q # NoCall
      BY DEF Plan!ReadHistory, Plan!WriteHistory, Plan!In
    <2>2. q.throttles # <<>>
      BY <2>1, InCall DEF Plan!ReadHistory, Plan!WriteHistory, Plan!In, WellPlaced
    <2> QED BY <2>1, <2>2, InCall DEF PlanTypes
  <1>2. Tail(q.throttles) \in Seq(Plan!Scopes) /\ <<>> \in Seq(Nat)
    BY <1>1
  <1>3. CASE Plan!ReadHistory(w)
    <2> DEFINE seen == Plan!Recent(history[Head(q.throttles)], Head(q.throttles), clock)
               c1 == [q EXCEPT !.phase = "insert", !.now = clock, !.seen = seen]
               c2 == [q EXCEPT !.throttles = Tail(@), !.refused = TRUE]
    <2>1. /\ q.phase = "throttle" /\ seen \in Seq(Nat)
          /\ CallBecomes(w, c1) \/ CallBecomes(w, c2)
          /\ UNCHANGED <<tasks, deleted, used, clock, passed, overlapped>>
      BY <1>3, ThrottleStep
    <2> HIDE DEF seen
    <2>2. c1 \in Plan!Call /\ c2 \in Plan!Call
      BY <1>1, <1>2, <2>1 DEF Plan!Call
    <2>3. /\ c1.kind = q.kind /\ c1.size = q.size /\ c1.phase = "insert"
          /\ c2.kind = q.kind /\ c2.size = q.size /\ c2.phase = q.phase
      BY <1>1 DEF Plan!Call
    <2> HIDE DEF c1, c2
    <2>4. CASE CallBecomes(w, c1)
      <3>1. GoesThrough(w, c1)
        BY <1>1, <2>1, <2>3, <2>4 DEF GoesThrough
      <3> QED BY <2>2, <3>1
    <2>5. CASE CallBecomes(w, c2)
      <3>1. GoesThrough(w, c2)
        BY <1>1, <2>1, <2>3, <2>5 DEF GoesThrough
      <3> QED BY <2>2, <3>1
    <2> QED BY <2>1, <2>4, <2>5
  <1>4. CASE Plan!WriteHistory(w)
    <2> DEFINE c == [q EXCEPT !.phase = "throttle", !.throttles = Tail(@), !.now = 0, !.seen = <<>>]
    <2>1. /\ q.phase = "insert" /\ CallBecomes(w, c)
          /\ UNCHANGED <<tasks, deleted, used, clock, passed, overlapped>>
      BY <1>4, InsertStep
    <2>2. c \in Plan!Call /\ c.kind = q.kind /\ c.size = q.size /\ c.phase = "throttle"
      BY <1>1, <1>2 DEF Plan!Call
    <2> HIDE DEF c
    <2>3. GoesThrough(w, c)
      BY <1>1, <2>1, <2>2 DEF GoesThrough
    <2> QED BY <2>2, <2>3
  <1> QED BY <1>3, <1>4

(* A request that goes on without a claim on tasks, or with the one it had.*)
LEMMA TasksStay ==
  ASSUME TasksGranted, PlanTypes, NEW w \in Workers, NEW c, CallBecomes(w, c),
         Adds(c) <=> Adds(call[w]), Adds(c) => c.size = call[w].size, UNCHANGED tasks
  PROVE  TasksGranted'
  <1>1. Adding' = Adding
    BY SetsBecome DEF Adding
  <1>2. \A v \in Adding : call'[v].size = call[v].size
    BY DEF Adding, CallBecomes
  <1> QED BY <1>1, <1>2, TasksSame DEF PlanTypes

LEMMA TasksWork ==
  ASSUME PlanTypes, TasksGranted, PlanTypes', NEW w \in Workers, Plan!Work(w)
  PROVE  TasksGranted'
  <1> DEFINE q == call[w]
  <1>1. tasks' \in Nat /\ tasks \in Nat
    BY DEF PlanTypes
  <1>2. ASSUME NEW c, Entering(w, c) PROVE TasksGranted'
    <2>1. /\ CallBecomes(w, c) /\ c \in Plan!Call /\ c # NoCall /\ ~Adds(q) /\ UNCHANGED tasks
          /\ c.size \in Nat
      BY <1>2, LimitsAssumption DEF Entering, Adds, Plan!Call
    <2>2. CASE c.kind \in {"create", "restore", "graphql"}
      <3>1. c.size = 1 /\ tasks + 1 <= MaxTasks /\ Adds(c)
        BY <1>2, <2>1, <2>2 DEF Entering, Adds
      <3>2. Adding' = Adding \cup {w} /\ call'[w] = c
        BY <2>1, <3>1, SetsBecome DEF CallBecomes
      <3> QED BY <1>1, <2>1, <3>1, <3>2, TasksMore
    <2>3. CASE c.kind \notin {"create", "restore", "graphql"}
      <3>1. ~Adds(c)
        BY <1>2, <2>3 DEF Entering, Adds
      <3> QED BY <2>1, <3>1, TasksStay
    <2> QED BY <2>2, <2>3
  <1>3. CASE Plan!Count(w) \/ Plan!StartCount(w)
    <2>1. q # NoCall /\ q.phase \in {"count", "start"} /\ UNCHANGED tasks
      BY <1>3 DEF Plan!Count, Plan!StartCount, Plan!In
    <2>2. PICK phase \in {"start", "throttle"} : Plan!Goto(w, phase)
      BY <1>3 DEF Plan!Count, Plan!StartCount, Plan!Pass
    <2>3. CallBecomes(w, [q EXCEPT !.phase = phase])
      BY <2>1, <2>2, GoesOn
    <2>4. ~Adds([q EXCEPT !.phase = phase]) /\ ~Adds(q)
      BY <2>1, InCall DEF WellPlaced, Adds, Plan!Call
    <2> QED BY <2>1, <2>3, <2>4, TasksStay
  <1>4. CASE Plan!ReadHistory(w) \/ Plan!WriteHistory(w)
    <2>1. PICK c \in Plan!Call : GoesThrough(w, c)
      BY <1>4, ThrottlesKeep
    <2>2. (Adds(c) <=> Adds(q)) /\ c.size = q.size /\ CallBecomes(w, c) /\ UNCHANGED tasks
      BY <2>1, LimitsAssumption DEF GoesThrough, Adds
    <2> QED BY <2>2, TasksStay
  <1>5. CASE Plan!Refuse(w)
    <2>1. q # NoCall /\ Plan!Return(w) /\ UNCHANGED tasks
      BY <1>5 DEF Plan!Refuse, Plan!Throttled, Plan!In, Plan!stores
    <2>2. q.size \in Nat
      BY <2>1, InCall
    <2> QED BY <1>1, <2>1, <2>2, GoesOn, TasksFewer
  <1>6. CASE Plan!CountBatch(w)
    <2>1. /\ q # NoCall /\ q.kind = "bulk" /\ Plan!Goto(w, "write")
          /\ tasks + q.size <= MaxTasks /\ UNCHANGED tasks
      BY <1>6 DEF Plan!CountBatch, Plan!Throttled, Plan!In, Plan!stores, Plan!RoomFor
    <2> DEFINE c == [q EXCEPT !.phase = "write"]
    <2>2. CallBecomes(w, c)
      BY <2>1, GoesOn
    <2>3. c \in Plan!Call /\ c.phase = "write" /\ c.size = q.size /\ q.size \in Nat
      BY <2>1, InCall DEF Plan!Call
    <2> HIDE DEF c
    <2>4. Adding' = Adding \cup {w} /\ call'[w] = c
      BY <2>2, <2>3, SetsBecome, LimitsAssumption DEF CallBecomes, Adds
    <2> QED BY <1>1, <2>1, <2>3, <2>4, TasksMore
  <1>7. CASE Plan!Create(w) \/ Plan!Restore(w)
    <2>1. /\ q # NoCall /\ Plan!Return(w)
          /\ q.kind \in {"create", "restore"} \/ q.phase = "write"
          /\ tasks' = tasks + q.size \/ (tasks' = tasks + 1 /\ q.kind = "restore")
      BY <1>7 DEF Plan!Create, Plan!Restore, Plan!Throttled, Plan!In
    <2>2. q.size \in Nat /\ (q.kind = "restore" => q.size = 1) /\ Adds(q)
      BY <2>1, InCall DEF WellPlaced, Adds
    <2>3. tasks' <= tasks + q.size
      BY <1>1, <2>1, <2>2
    <2> QED BY <1>1, <2>1, <2>2, <2>3, GoesOn, TasksFewer
  <1> QED BY <1>2, <1>3, <1>4, <1>5, <1>6, <1>7, EnterStep DEF Plan!Work

(* Requests for the AI are counted as they were.                           *)
LEMMA ChargesSame ==
  ASSUME ChargesGranted, Charging' = Charging, Starting' = Starting, UNCHANGED <<used, passed>>
  PROVE  ChargesGranted'
  BY DEF ChargesGranted

LEMMA ChargesWork ==
  ASSUME PlanTypes, ChargesGranted, PlanTypes', NEW w \in Workers, Plan!Work(w)
  PROVE  ChargesGranted'
  <1> DEFINE q == call[w]
             n == Cardinality(Workers)
             h == Cardinality(Charging)
             s == Cardinality(Starting)
  <1>1. /\ used \in Nat /\ passed \in Nat /\ MaxAIRequests \in Nat
        /\ n \in Nat \ {0} /\ h \in Nat /\ s \in Nat /\ h <= n /\ s <= n /\ s <= h
    <2>1. /\ Charging \in SUBSET Workers /\ Starting \in SUBSET Charging
          /\ Starting \in SUBSET Workers
      BY DEF Charging, Starting, Charges, Starts
    <2>2. /\ n \in Nat \ {0} /\ h \in Nat /\ s \in Nat /\ h <= n /\ s <= n
          /\ IsFiniteSet(Charging)
      BY <2>1, WorkersCounted, Zenon
    <2>3. s <= h
      BY <2>1, <2>2, FS_Subset, Zenon
    <2> QED BY <2>2, <2>3, LimitsAssumption DEF PlanTypes
  <1>2. ASSUME NEW c, CallBecomes(w, c), Charges(c) <=> Charges(q), Starts(c) <=> Starts(q),
               UNCHANGED <<used, passed>>
        PROVE  ChargesGranted'
    <2>1. Charging' = Charging /\ Starting' = Starting
      BY <1>2, SetsBecome DEF Charging, Starting
    <2> QED BY <1>2, <2>1, ChargesSame
  <1>3. ASSUME NEW c, Entering(w, c) PROVE ChargesGranted'
    <2>1. /\ CallBecomes(w, c) /\ c \in Plan!Call /\ c # NoCall /\ q = NoCall
          /\ UNCHANGED <<used, passed>>
      BY <1>3, LimitsAssumption DEF Entering
    <2>2. ~Charges(q) /\ ~Starts(q) /\ ~Starts(c)
      BY <1>3, <2>1 DEF Entering, Charges, Starts
    <2>3. CASE c.kind = "ai"
      <3>1. used < MaxAIRequests /\ Charges(c)
        BY <1>3, <2>1, <2>3 DEF Entering, Charges
      <3>2. Charging' = Charging \cup {w} /\ w \notin Charging /\ Starting' = Starting
        BY <2>1, <2>2, <3>1, SetsBecome DEF Charging, Starting
      <3>3. Charging' \in SUBSET Workers
        BY DEF Charging
      <3>4. Cardinality(Charging') <= n /\ Cardinality(Charging') \in Nat
        BY <3>3, WorkersCounted, Zenon
      <3>5. used' + Cardinality(Charging') <= MaxAIRequests + n - 1 /\ MaxAIRequests > 0
        BY <1>1, <2>1, <3>1, <3>4
      <3> QED BY <2>1, <3>2, <3>5 DEF ChargesGranted
    <2>4. CASE c.kind # "ai"
      <3>1. ~Charges(c)
        BY <1>3, <2>4 DEF Entering, Charges
      <3> QED BY <1>2, <2>1, <2>2, <3>1
    <2> QED BY <2>3, <2>4
  <1>4. CASE Plan!Count(w)
    <2>1. q # NoCall /\ q.phase = "count"
      BY <1>4 DEF Plan!Count, Plan!In
    <2>2. Charges(q) /\ ~Starts(q) /\ q \in Plan!Call
      BY <2>1, InCall DEF Charges, Starts
    <2>3. CASE used = 0
      <3>1. Plan!Goto(w, "start") /\ UNCHANGED <<used, passed>>
        BY <1>4, <2>3 DEF Plan!Count
      <3> DEFINE c == [q EXCEPT !.phase = "start"]
      <3>2. CallBecomes(w, c)
        BY <2>1, <3>1, GoesOn
      <3>3. c \in Plan!Call /\ c.phase = "start"
        BY <2>2 DEF Plan!Call
      <3> HIDE DEF c
      <3>4. Charges(c)
        BY <3>3, LimitsAssumption DEF Charges
      <3>5. Charging' = Charging
        BY <2>2, <3>2, <3>4, SetsBecome DEF Charging
      <3> QED BY <2>3, <3>1, <3>5 DEF ChargesGranted
    <2>4. CASE used # 0
      <3>1. Plan!Goto(w, "throttle") /\ used' = used + 1 /\ passed' = passed + 1
        BY <1>4, <2>4 DEF Plan!Count, Plan!Pass
      <3> DEFINE c == [q EXCEPT !.phase = "throttle"]
      <3>2. CallBecomes(w, c)
        BY <2>1, <3>1, GoesOn
      <3>3. c \in Plan!Call /\ c.phase = "throttle"
        BY <2>2 DEF Plan!Call
      <3> HIDE DEF c
      <3>4. ~Charges(c) /\ ~Starts(c)
        BY <3>3 DEF Charges, Starts
      <3>5. /\ Charging' = Charging \ {w} /\ w \in Charging
            /\ Starting' = Starting
        BY <2>2, <3>2, <3>4, SetsBecome DEF Charging, Starting
      <3>6. Cardinality(Charging') = h - 1
        <4>1. Charging \in SUBSET Workers
          BY DEF Charging
        <4> QED BY <3>5, <4>1, WorkersCounted, Zenon
      <3>7. used > 0 /\ used' > 0
        BY <1>1, <2>4, <3>1
      <3>8. /\ used + h <= MaxAIRequests + n - 1 /\ s <= n - 1
            /\ 2 * passed <= 2 * used + Forgotten(n - 1 - s)
        BY <3>7 DEF ChargesGranted
      <3>9. Forgotten(n - 1 - s) \in Nat
        BY <1>1, <3>8, ForgetsMore
      <3> HIDE DEF n, h, s
      <3>10. /\ used' + (h - 1) <= MaxAIRequests + n - 1
             /\ 2 * passed' <= 2 * used' + Forgotten(n - 1 - s)
        BY <1>1, <3>1, <3>8, <3>9
      <3> QED BY <3>5, <3>6, <3>7, <3>8, <3>10 DEF ChargesGranted, n, h, s
    <2> QED BY <2>3, <2>4
  <1>5. CASE Plan!StartCount(w)
    <2>1. /\ q # NoCall /\ q.phase = "start" /\ Plan!Goto(w, "throttle")
          /\ used' = 1 /\ passed' = passed + 1
      BY <1>5 DEF Plan!StartCount, Plan!In, Plan!Pass
    <2>2. Charges(q) /\ Starts(q) /\ q \in Plan!Call
      BY <2>1, InCall DEF Charges, Starts
    <2> DEFINE c == [q EXCEPT !.phase = "throttle"]
    <2>3. CallBecomes(w, c)
      BY <2>1, GoesOn
    <2>4. c \in Plan!Call /\ c.phase = "throttle"
      BY <2>2 DEF Plan!Call
    <2> HIDE DEF c
    <2>5. ~Charges(c) /\ ~Starts(c)
      BY <2>4 DEF Charges, Starts
    <2>6. /\ Charging' = Charging \ {w} /\ w \in Charging
          /\ Starting' = Starting \ {w} /\ w \in Starting
      BY <2>2, <2>3, <2>5, SetsBecome DEF Charging, Starting
    <2>7. Cardinality(Charging') = h - 1 /\ Cardinality(Starting') = s - 1 /\ s # 0 /\ h # 0
      <3>1. Charging \in SUBSET Workers /\ Starting \in SUBSET Workers
        BY DEF Charging, Starting
      <3>2. Cardinality(Charging \ {w}) = h - 1 /\ Cardinality(Starting \ {w}) = s - 1
        BY <2>6, <3>1, WorkersCounted, Zenon
      <3>3. s # 0 /\ h # 0
        BY <2>6, <3>1, WorkersCounted, Zenon
      <3> QED BY <2>6, <3>2, <3>3
    <2>8. used + h <= MaxAIRequests + n - 1
      BY DEF ChargesGranted
    <2> DEFINE m == n - 1 - s
    <2>9. /\ n - 1 - (s - 1) = m + 1 /\ m + 1 \in Nat /\ s - 1 <= n - 1
      BY <1>1, <2>7
    <2>10. Forgotten(m + 1) \in Nat
      BY <2>9, ForgetsMore
    <2>11. MaxAIRequests > 0
      BY <2>6 DEF ChargesGranted
    <2>12. used = 0 => passed = 0
      BY DEF ChargesGranted
    <2>13. used > 0 => s <= n - 1 /\ 2 * passed <= 2 * used + Forgotten(m)
      BY DEF ChargesGranted
    <2>14. used > 0 => m \in Nat /\ Forgotten(m) \in Nat
                       /\ Forgotten(m + 1) = Forgotten(m) + 2 * MaxAIRequests + 2 * m
      <3>1. used > 0 => m \in Nat
        BY <1>1, <2>13
      <3> HIDE DEF m
      <3> QED BY <3>1, ForgetsMore
    <2> DEFINE f == Forgotten(m)
               g == Forgotten(m + 1)
    <2>15. used' + (h - 1) <= MaxAIRequests + n - 1
      <3> HIDE DEF h, n, s
      <3>1. h <= n /\ h \in Nat /\ n \in Nat /\ used' = 1
        BY <1>1, <2>1
      <3> QED BY <1>1, <2>11, <3>1
    <2>16. 2 * passed' <= 2 * used' + g
      <3>1. CASE used = 0
        BY <2>1, <2>10, <2>12, <3>1
      <3>2. CASE used > 0
        <4>1. m = n - 1 - s /\ s <= h /\ used + h <= MaxAIRequests + n - 1
          BY <1>1, <2>8
        <4> HIDE DEF m, f, g, h, n, s
        <4>2. used <= MaxAIRequests + m /\ m \in Nat
          BY <1>1, <2>14, <3>2, <4>1
        <4>3. 2 * passed <= 2 * used + f /\ g = f + 2 * MaxAIRequests + 2 * m /\ f \in Nat
          BY <2>13, <2>14, <3>2 DEF f, g
        <4> QED BY <1>1, <2>1, <4>2, <4>3
      <3> QED BY <1>1, <3>1, <3>2
    <2>17. used' > 0
      BY <2>1
    <2> HIDE DEF h, n, s
    <2>18. g = Forgotten(n - 1 - (s - 1))
      BY <2>9, Zenon
    <2> HIDE DEF m, g
    <2>19. /\ used' + Cardinality(Charging') <= MaxAIRequests + Cardinality(Workers) - 1
           /\ Cardinality(Starting') <= Cardinality(Workers) - 1
           /\ 2 * passed' <= 2 * used' + Forgotten(Cardinality(Workers) - 1 - Cardinality(Starting'))
      BY <2>7, <2>9, <2>15, <2>16, <2>18 DEF n
    <2> QED BY <2>11, <2>17, <2>19 DEF ChargesGranted
  <1>6. CASE Plan!ReadHistory(w) \/ Plan!WriteHistory(w)
    <2>1. PICK c \in Plan!Call : GoesThrough(w, c)
      BY <1>6, ThrottlesKeep
    <2>2. /\ ~Charges(c) /\ ~Charges(q) /\ ~Starts(c) /\ ~Starts(q)
          /\ CallBecomes(w, c) /\ UNCHANGED <<used, passed>>
      BY <2>1 DEF GoesThrough, Charges, Starts
    <2> QED BY <1>2, <2>2
  <1>7. CASE Plan!Refuse(w) \/ Plan!CountBatch(w) \/ Plan!Create(w) \/ Plan!Restore(w)
    <2>1. /\ q # NoCall /\ q.phase \in {"throttle", "write"} /\ UNCHANGED <<used, passed>>
          /\ Plan!Return(w) \/ Plan!Goto(w, "write")
      BY <1>7 DEF Plan!Refuse, Plan!CountBatch, Plan!Create, Plan!Restore, Plan!Throttled,
                  Plan!In, Plan!stores
    <2> DEFINE c == [q EXCEPT !.phase = "write"]
    <2>2. CallBecomes(w, NoCall) \/ CallBecomes(w, c)
      BY <2>1, GoesOn
    <2>3. c.phase = "write"
      BY <2>1, InCall DEF Plan!Call
    <2> HIDE DEF c
    <2>4. ~Charges(q) /\ ~Starts(q) /\ ~Charges(c) /\ ~Starts(c) /\ ~Charges(NoCall) /\ ~Starts(NoCall)
      BY <2>1, <2>3 DEF Charges, Starts
    <2> QED BY <1>2, <2>1, <2>2, <2>4
  <1> QED BY <1>3, <1>4, <1>5, <1>6, <1>7, EnterStep DEF Plan!Work

(* The claims on tasks and on the AI requests, step by step.               *)
LEMMA GrantedInit == Plan!Init => TasksGranted /\ ChargesGranted
  <1> SUFFICES ASSUME Plan!Init PROVE TasksGranted /\ ChargesGranted
    OBVIOUS
  <1>1. tasks = 0 /\ used = 0 /\ passed = 0 /\ \A w \in Workers : call[w] = NoCall
    BY DEF Plan!Init
  <1>2. Adding = {} /\ Charging = {}
    BY <1>1 DEF Adding, Charging, Adds, Charges
  <1> DEFINE n == Cardinality(Workers)
  <1>3. n \in Nat \ {0} /\ n - 1 \in Nat
    BY WorkersCounted, Zenon
  <1>4. (n - 1) * MaxBatch \in Nat
    BY <1>3, BatchesAdd
  <1>5. Cardinality(Charging) = 0
    BY <1>2, FS_EmptySet
  <1> HIDE DEF n
  <1>6. 0 <= MaxTasks + (n - 1) * MaxBatch /\ 0 + 0 <= MaxAIRequests + n - 1
    BY <1>3, <1>4, LimitsAssumption
  <1> QED BY <1>1, <1>2, <1>5, <1>6 DEF TasksGranted, ChargesGranted, Excess, n

LEMMA GrantedNext ==
  PlanTypes /\ TasksGranted /\ ChargesGranted /\ [Plan!Next]_planVars
    => TasksGranted' /\ ChargesGranted'
  <1> SUFFICES ASSUME PlanTypes, TasksGranted, ChargesGranted, [Plan!Next]_planVars
               PROVE  TasksGranted' /\ ChargesGranted'
    OBVIOUS
  <1>1. PlanTypes'
    BY PlanTypesNext
  <1>2. ASSUME UNCHANGED call
        PROVE  /\ Adding' = Adding /\ Charging' = Charging /\ Starting' = Starting
               /\ \A v \in Adding : call'[v].size = call[v].size
    BY <1>2 DEF Adding, Charging, Starting
  <1>3. tasks \in Nat /\ tasks' \in Nat
    BY <1>1 DEF PlanTypes
  <1>4. CASE Plan!Delete
    <2>1. UNCHANGED call /\ UNCHANGED <<used, passed>> /\ tasks' <= tasks
      BY <1>3, <1>4 DEF Plan!Delete
    <2> QED BY <1>2, <1>3, <2>1, TasksSame, ChargesSame
  <1>5. CASE Plan!ExpireCount
    <2>1. UNCHANGED call /\ tasks' <= tasks /\ used > 0 /\ used' = 0 /\ passed' = 0
      BY <1>3, <1>5 DEF Plan!ExpireCount
    <2>2. TasksGranted'
      BY <1>2, <1>3, <2>1, TasksSame
    <2>3. Charging \in SUBSET Workers
      BY DEF Charging
    <2>4. Cardinality(Charging) \in Nat /\ Cardinality(Workers) \in Nat
      BY <2>3, WorkersCounted, Zenon
    <2>5. ChargesGranted'
      BY <1>2, <2>1, <2>4, LimitsAssumption DEF ChargesGranted, PlanTypes
    <2> QED BY <2>2, <2>5
  <1>6. CASE Plan!Tick \/ UNCHANGED planVars
    <2>1. UNCHANGED call /\ UNCHANGED <<used, passed>> /\ tasks' <= tasks
      BY <1>3, <1>6 DEF Plan!Tick, planVars
    <2> QED BY <1>2, <1>3, <2>1, TasksSame, ChargesSame
  <1>7. ASSUME NEW w \in Workers, Plan!Work(w) PROVE TasksGranted' /\ ChargesGranted'
    BY <1>1, <1>7, TasksWork, ChargesWork
  <1> QED BY <1>4, <1>5, <1>6, <1>7 DEF Plan!Next

LEMMA GrantedIsBounded == PlanTypes /\ TasksGranted /\ ChargesGranted => Plan!OvershootBounded
  <1> SUFFICES ASSUME PlanTypes, TasksGranted, ChargesGranted PROVE Plan!OvershootBounded
    OBVIOUS
  <1> DEFINE n == Cardinality(Workers)
             s == Cardinality(Starting)
             h == Cardinality(Charging)
  <1>1. /\ n \in Nat \ {0} /\ s \in Nat /\ h \in Nat
        /\ tasks \in Nat /\ used \in Nat /\ passed \in Nat /\ MaxAIRequests \in Nat
        /\ MaxTasks \in Nat /\ MaxBatch \in Nat
    <2>1. Starting \in SUBSET Workers /\ Charging \in SUBSET Workers
      BY DEF Starting, Charging
    <2>2. n \in Nat \ {0} /\ s \in Nat /\ h \in Nat
      BY <2>1, WorkersCounted, Zenon
    <2> QED BY <2>2, LimitsAssumption DEF PlanTypes
  <1>2. tasks <= MaxTasks + (n - 1) * MaxBatch
    <2>1. CASE Adding = {}
      BY <2>1 DEF TasksGranted, Excess
    <2>2. CASE Adding # {}
      <3>1. PICK w \in Adding : tasks + call[w].size + (Cardinality(Adding) - 1) * MaxBatch <= Excess
        BY <2>2 DEF TasksGranted
      <3>2. call[w].size \in Nat
        BY InCall DEF Adding, Adds
      <3>3. (Cardinality(Adding) - 1) * MaxBatch \in Nat
        <4>1. Adding \in SUBSET Workers
          BY DEF Adding
        <4>2. Cardinality(Adding) \in Nat /\ Cardinality(Adding) # 0
          BY <2>2, <4>1, WorkersCounted, Zenon
        <4>3. Cardinality(Adding) - 1 \in Nat
          BY <4>2
        <4> QED BY <4>3, BatchesAdd
      <3>4. Excess \in Int
        BY <1>1 DEF Excess
      <3>5. tasks <= Excess
        BY <1>1, <3>1, <3>2, <3>3, <3>4
      <3> QED BY <3>5 DEF Excess
    <2> QED BY <2>1, <2>2
  <1>3. 2 * n * MaxAIRequests + n * (n - 1) = Forgotten(n - 1) + 2 * (MaxAIRequests + n - 1)
    <2> DEFINE k == n - 1
               M == MaxAIRequests
    <2>1. k \in Nat /\ n = k + 1 /\ M \in Nat
      BY <1>1
    <2> HIDE DEF n, k, M
    <2>2. 2 * (k + 1) * M + (k + 1) * k = k * (2 * M + k - 1) + 2 * (M + k)
      <3>1. (k + 1) * (2 * M) = k * (2 * M) + 2 * M /\ (k + 1) * k = k * k + k
        BY <2>1
      <3>2. k * (2 * M + k - 1) = k * (2 * M) + k * k - k
        BY <2>1
      <3>3. 2 * (k + 1) * M = (k + 1) * (2 * M) /\ k * (2 * M) \in Nat /\ k * k \in Nat
        BY <2>1
      <3> QED BY <2>1, <3>1, <3>2, <3>3
    <2>3. n - 1 = k /\ M + n - 1 = M + k
      BY <2>1
    <2> QED BY <2>1, <2>2, <2>3 DEF Forgotten, M
  <1>4. Forgotten(n - 1) \in Nat
    <2>1. n - 1 \in Nat
      BY <1>1
    <2> QED BY <2>1, ForgetsMore
  <1>5. ASSUME used = 0 PROVE 2 * passed <= Forgotten(n - 1) + 2 * (MaxAIRequests + n - 1)
    <2>1. passed = 0
      BY <1>5 DEF ChargesGranted
    <2> HIDE DEF n
    <2>2. 2 * passed <= Forgotten(n - 1) + 2 * (MaxAIRequests + n - 1)
      BY <1>1, <1>4, <2>1
    <2> QED BY <2>2 DEF n
  <1>6. ASSUME used # 0 PROVE 2 * passed <= Forgotten(n - 1) + 2 * (MaxAIRequests + n - 1)
    <2>1. used > 0
      BY <1>1, <1>6
    <2>2. /\ used + h <= MaxAIRequests + n - 1 /\ s <= n - 1
          /\ 2 * passed <= 2 * used + Forgotten(n - 1 - s)
      BY <2>1 DEF ChargesGranted
    <2>3. n - 1 - s \in Nat /\ n - 1 \in Nat /\ n - 1 - s <= n - 1
      BY <1>1, <2>2
    <2>4. Forgotten(n - 1 - s) <= Forgotten(n - 1) /\ Forgotten(n - 1 - s) \in Nat
      BY <2>3, ForgetsMore
    <2> HIDE DEF n, h, s
    <2>5. 2 * passed <= Forgotten(n - 1) + 2 * (MaxAIRequests + n - 1)
      BY <1>1, <1>4, <2>2, <2>4
    <2> QED BY <2>5 DEF n
  <1>7. 2 * passed <= 2 * n * MaxAIRequests + n * (n - 1)
    BY <1>3, <1>5, <1>6, Zenon
  <1>8. Plan!Cardinality(Workers) = n
    BY DEF Plan!Cardinality, Cardinality, Plan!IsFiniteSet, IsFiniteSet
  <1> QED BY <1>2, <1>7, <1>8, Zenon DEF Plan!OvershootBounded

-------------------------------------------------------------------------------
(* Requests that come one after the other                                  *)

(* What a request that is alone may rely on: there is room for its tasks,  *)
(* a rest of the quota, and the window it has read lacks nobody.           *)
Promised(c) ==
    /\ Adds(c) => tasks + c.size <= MaxTasks
    /\ c.phase = "count" => used < MaxAIRequests
    /\ c.phase = "start" => used = 0 /\ MaxAIRequests > 0
    /\ c.phase = "insert" =>
         /\ Plan!Recent(c.seen, Head(c.throttles), clock)
              = Plan!Recent(admitted[Head(c.throttles)], Head(c.throttles), clock)
         /\ Len(c.seen) < Rate[Head(c.throttles)]

OneAtATime == \A v, w \in Workers : v # w => call[v] = NoCall \/ call[w] = NoCall

CountersExact == tasks <= MaxTasks /\ passed = used /\ used <= MaxAIRequests

(* The histories in the cache miss nothing that is recent.                 *)
WindowsExact ==
    \A s \in Plan!Scopes :
      /\ Plan!Recent(history[s], s, clock) = Plan!Recent(admitted[s], s, clock)
      /\ Len(Plan!Recent(admitted[s], s, clock)) <= Rate[s]

Alone ==
    ~overlapped =>
      /\ OneAtATime /\ CountersExact /\ WindowsExact
      /\ \A w \in Workers : call[w] # NoCall => Promised(call[w])

LEMMA AloneBecomes ==
  ASSUME NEW w \in Workers, NEW c, CallBecomes(w, c), \A v \in Workers \ {w} : call[v] = NoCall,
         CountersExact', WindowsExact', c # NoCall => Promised(c)'
  PROVE  Alone'
  <1>1. call'[w] = c /\ \A v \in Workers \ {w} : call'[v] = NoCall
    BY DEF CallBecomes
  <1>2. OneAtATime'
    BY <1>1 DEF OneAtATime
  <1>3. \A v \in Workers : call'[v] # NoCall => v = w
    BY <1>1
  <1>4. ASSUME NEW v \in Workers, call'[v] # NoCall PROVE Promised(call[v])'
    <2>1. v = w /\ call'[v] = c
      BY <1>1, <1>3, <1>4
    <2>2. Promised(c)'
      BY <1>4, <2>1
    <2> QED BY <2>1, <2>2 DEF Promised
  <1> QED BY <1>2, <1>4 DEF Alone

LEMMA NothingIsRecent ==
  ASSUME NEW s \in Plan!Scopes, NEW now \in Nat
  PROVE  Plan!Recent(<<>>, s, now) = <<>>
  <1>1. <<>> \in Seq(Nat) /\ Len(<<>>) = 0
    OBVIOUS
  <1> DEFINE r == Plan!Recent(<<>>, s, now)
  <1>2. r \in Seq(Nat) /\ Len(r) \in 0..Len(<<>>)
    BY <1>1, RecentIsPrefix
  <1> HIDE DEF r
  <1>3. r = <<>>
    BY <1>1, <1>2
  <1> QED BY <1>3 DEF r

LEMMA AloneInit == Plan!Init => Alone
  <1> SUFFICES ASSUME Plan!Init PROVE Alone
    OBVIOUS
  <1>1. tasks = 0 /\ used = 0 /\ passed = 0 /\ clock = 0 /\ \A w \in Workers : call[w] = NoCall
    BY DEF Plan!Init
  <1>2. \A s \in Plan!Scopes : history[s] = <<>> /\ admitted[s] = <<>> /\ Rate[s] \in Nat
    BY LimitsAssumption DEF Plan!Init
  <1>3. WindowsExact
    <2>1. Len(<<>>) = 0
      OBVIOUS
    <2> QED BY <1>1, <1>2, <2>1, NothingIsRecent DEF WindowsExact
  <1>4. OneAtATime /\ CountersExact
    BY <1>1, LimitsAssumption DEF OneAtATime, CountersExact
  <1> QED BY <1>1, <1>3, <1>4 DEF Alone

(* Time passes.                                                            *)
LEMMA AloneTick ==
  ASSUME PlanTypes, PlanTypes', Alone, Plan!Tick, ~overlapped
  PROVE  Alone'
  <1>1. /\ clock \in Nat /\ clock' \in Nat /\ clock <= clock'
        /\ UNCHANGED <<tasks, deleted, used, call, passed, overlapped, admitted>>
    BY DEF Plan!Tick, PlanTypes
  <1>2. \A s \in Plan!Scopes :
          history'[s] = IF Plan!Recent(history[s], s, clock') = <<>> THEN <<>> ELSE history[s]
    BY DEF Plan!Tick
  <1>3. OneAtATime' /\ CountersExact'
    BY <1>1 DEF Alone, OneAtATime, CountersExact
  <1>4. WindowsExact'
    <2> SUFFICES ASSUME NEW s \in Plan!Scopes
                 PROVE  /\ Plan!Recent(history'[s], s, clock') = Plan!Recent(admitted[s], s, clock')
                        /\ Len(Plan!Recent(admitted[s], s, clock')) <= Rate[s]
      BY <1>1 DEF WindowsExact
    <2> DEFINE a == admitted[s]
               h == history[s]
               r == Plan!Recent(a, s, clock)
    <2>1. a \in Seq(Nat) /\ h \in Seq(Nat) /\ Rate[s] \in Nat
      BY LimitsAssumption DEF PlanTypes
    <2>2. Plan!Recent(h, s, clock) = r /\ Len(r) <= Rate[s]
      BY DEF Alone, WindowsExact
    <2>3. r \in Seq(Nat)
      BY <2>1, <1>1, RecentIsPrefix
    <2> HIDE DEF a, h
    <2>4. Plan!Recent(r, s, clock') = Plan!Recent(a, s, clock')
      BY <1>1, <2>1, RecentLater
    <2>5. Plan!Recent(Plan!Recent(h, s, clock), s, clock') = Plan!Recent(h, s, clock')
      BY <1>1, <2>1, RecentLater
    <2> HIDE DEF r
    <2>6. Len(Plan!Recent(r, s, clock')) \in 0..Len(r) /\ Len(r) \in Nat
      <3>1. /\ Len(Plan!Recent(r, s, clock')) = Kept(r, s, clock')
            /\ Kept(r, s, clock') \in 0..Len(r)
        BY <1>1, <2>3, RecentIsPrefix
      <3> QED BY <2>3, <3>1
    <2>7. Plan!Recent(h, s, clock') = Plan!Recent(a, s, clock')
      BY <2>2, <2>4, <2>5
    <2>8. Plan!Recent(history'[s], s, clock') = Plan!Recent(h, s, clock')
      <3>1. CASE Plan!Recent(h, s, clock') = <<>>
        <4>1. history'[s] = <<>>
          BY <1>2, <3>1 DEF h
        <4> QED BY <1>1, <3>1, <4>1, NothingIsRecent
      <3>2. CASE Plan!Recent(h, s, clock') # <<>>
        BY <1>2, <3>2 DEF h
      <3> QED BY <3>1, <3>2
    <2>9. Len(Plan!Recent(a, s, clock')) <= Rate[s]
      BY <2>1, <2>2, <2>4, <2>6
    <2> QED BY <2>7, <2>8, <2>9 DEF a
  <1>5. ASSUME NEW w \in Workers, call[w] # NoCall PROVE Promised(call[w])'
    <2> DEFINE c == call[w]
               s == Head(c.throttles)
    <2>1. Promised(c) /\ WellPlaced(c) /\ c.throttles \in Seq(Plan!Scopes) /\ c.seen \in Seq(Nat)
      BY <1>5, InCall DEF Alone
    <2>2. ASSUME c.phase = "insert"
          PROVE  Plan!Recent(c.seen, s, clock') = Plan!Recent(admitted[s], s, clock')
      <3>1. s \in Plan!Scopes
        BY <2>1, <2>2 DEF WellPlaced
      <3>2. admitted[s] \in Seq(Nat)
        BY <3>1 DEF PlanTypes
      <3>3. Plan!Recent(c.seen, s, clock) = Plan!Recent(admitted[s], s, clock)
        BY <2>1, <2>2 DEF Promised
      <3> DEFINE a == admitted[s]
                 b == c.seen
      <3>4. a \in Seq(Nat) /\ b \in Seq(Nat) /\ Plan!Recent(b, s, clock) = Plan!Recent(a, s, clock)
        BY <2>1, <3>2, <3>3
      <3> HIDE DEF a, b, s
      <3>5. Plan!Recent(Plan!Recent(b, s, clock), s, clock') = Plan!Recent(b, s, clock')
        BY <1>1, <3>1, <3>4, RecentLater
      <3>6. Plan!Recent(Plan!Recent(a, s, clock), s, clock') = Plan!Recent(a, s, clock')
        BY <1>1, <3>1, <3>4, RecentLater
      <3>7. Plan!Recent(b, s, clock') = Plan!Recent(a, s, clock')
        BY <3>4, <3>5, <3>6
      <3> QED BY <3>7 DEF a, b
    <2> QED BY <1>1, <2>1, <2>2 DEF Promised
  <1> QED BY <1>1, <1>3, <1>4, <1>5 DEF Alone

(* A lone request asks a throttle.                                         *)
LEMMA AloneReads ==
  ASSUME PlanTypes, Alone, ~overlapped, NEW w \in Workers, Plan!ReadHistory(w),
         \A v \in Workers \ {w} : call[v] = NoCall
  PROVE  Alone'
  <1> DEFINE q == call[w]
             s == Head(q.throttles)
             seen == Plan!Recent(history[s], s, clock)
             c1 == [q EXCEPT !.phase = "insert", !.now = clock, !.seen = seen]
             c2 == [q EXCEPT !.throttles = Tail(@), !.refused = TRUE]
  <1>1. /\ q.phase = "throttle" /\ s \in Plan!Scopes /\ q.throttles # <<>> /\ seen \in Seq(Nat)
        /\ \/ Len(seen) < Rate[s] /\ CallBecomes(w, c1)
           \/ CallBecomes(w, c2)
        /\ UNCHANGED <<tasks, deleted, used, history, clock, passed, overlapped, admitted>>
    BY ThrottleStep
  <1>2. q # NoCall /\ q \in Plan!Call
    <2>1. q # NoCall
      BY DEF Plan!ReadHistory, Plan!In
    <2> QED BY <2>1, InCall
  <1>3. Promised(q) /\ CountersExact' /\ WindowsExact'
    BY <1>1, <1>2 DEF Alone, CountersExact, WindowsExact
  <1>4. Plan!Recent(seen, s, clock) = Plan!Recent(admitted[s], s, clock)
    <2> DEFINE h == history[s]
    <2>1. h \in Seq(Nat) /\ clock \in Nat
      BY <1>1 DEF PlanTypes
    <2> HIDE DEF h, s
    <2>2. Plan!Recent(Plan!Recent(h, s, clock), s, clock) = Plan!Recent(h, s, clock)
      BY <1>1, <2>1, RecentLater
    <2>3. Plan!Recent(h, s, clock) = Plan!Recent(admitted[s], s, clock)
      BY <1>1 DEF Alone, WindowsExact, h
    <2> QED BY <2>2, <2>3 DEF h
  <1> HIDE DEF seen
  <1>5. /\ c1.kind = q.kind /\ c1.size = q.size /\ c1.phase = "insert"
        /\ c1.throttles = q.throttles /\ c1.seen = seen
        /\ c2.kind = q.kind /\ c2.size = q.size /\ c2.phase = "throttle"
    BY <1>1, <1>2 DEF Plan!Call
  <1>6. PICK d1, d2 : d1 = c1 /\ d2 = c2
    OBVIOUS
  <1> HIDE DEF c1, c2
  <1>7. CASE Len(seen) < Rate[s] /\ CallBecomes(w, d1)
    <2>1. Head(d1.throttles) = s /\ d1.seen = seen /\ d1.phase = "insert"
      BY <1>5, <1>6
    <2>2. Adds(d1) => Adds(q) /\ d1.size = q.size
      BY <1>2, <1>5, <1>6 DEF Adds
    <2>3. Promised(d1)'
      BY <1>1, <1>3, <1>4, <1>7, <2>1, <2>2 DEF Promised
    <2> QED BY <1>3, <1>7, <2>3, AloneBecomes
  <1>8. CASE CallBecomes(w, d2)
    <2>1. d2.phase = "throttle" /\ (Adds(d2) => Adds(q) /\ d2.size = q.size)
      BY <1>2, <1>5, <1>6 DEF Adds
    <2>2. Promised(d2)'
      BY <1>1, <1>3, <2>1 DEF Promised
    <2> QED BY <1>3, <1>8, <2>2, AloneBecomes
  <1> QED BY <1>1, <1>6, <1>7, <1>8

(* ... and is written to its history.                                      *)
LEMMA AloneWrites ==
  ASSUME PlanTypes, Alone, ~overlapped, NEW w \in Workers, Plan!WriteHistory(w),
         \A v \in Workers \ {w} : call[v] = NoCall
  PROVE  Alone'
  <1> DEFINE q == call[w]
             s == Head(q.throttles)
             r == Plan!Recent(admitted[s], s, clock)
             c == [q EXCEPT !.phase = "throttle", !.throttles = Tail(@), !.now = 0, !.seen = <<>>]
  <1>1. /\ q # NoCall /\ q.phase = "insert" /\ s \in Plan!Scopes
        /\ history' = [history EXCEPT ![s] = <<q.now>> \o q.seen]
        /\ admitted' = [admitted EXCEPT ![s] = <<q.now>> \o r]
        /\ CallBecomes(w, c)
        /\ UNCHANGED <<tasks, deleted, used, clock, passed, overlapped>>
    BY InsertStep
  <1>2. q \in Plan!Call /\ q.now \in Nat /\ q.seen \in Seq(Nat) /\ clock \in Nat
    BY <1>1, InCall DEF PlanTypes
  <1>3. Promised(q) /\ CountersExact'
    BY <1>1 DEF Alone, CountersExact
  <1>4. admitted[s] \in Seq(Nat) /\ Rate[s] \in Nat
    BY <1>1, LimitsAssumption DEF PlanTypes
  <1>5. r \in Seq(Nat)
    BY <1>1, <1>2, <1>4, RecentIsPrefix
  <1>6. Plan!Recent(q.seen, s, clock) = r /\ Len(q.seen) < Rate[s]
    BY <1>1, <1>3 DEF Promised
  <1>7. /\ Plan!Recent(<<q.now>> \o q.seen, s, clock) = Plan!Recent(<<q.now>> \o r, s, clock)
        /\ Len(Plan!Recent(<<q.now>> \o r, s, clock)) <= Rate[s]
    <2> DEFINE a == admitted[s]
               t == q.now
               b == q.seen
    <2>1. a \in Seq(Nat) /\ t \in Nat /\ b \in Seq(Nat)
      BY <1>2, <1>4
    <2>2. Plan!Recent(r, s, clock) = r
      <3> HIDE DEF a, s
      <3> QED BY <1>1, <1>2, <2>1, RecentLater DEF a
    <2>3. Plan!Recent(b, s, clock) = r /\ Len(b) < Rate[s]
      BY <1>6
    <2> HIDE DEF a, t, b, r, s
    <2>4. Plan!Recent(b, s, clock) = Plan!Recent(r, s, clock)
      BY <2>2, <2>3
    <2>5. /\ Plan!Recent(<<t>> \o b, s, clock) = Plan!Recent(<<t>> \o r, s, clock)
          /\ Len(Plan!Recent(<<t>> \o b, s, clock)) <= Len(Plan!Recent(b, s, clock)) + 1
          /\ <<t>> \o b \in Seq(Nat)
      BY <1>1, <1>2, <1>5, <2>1, <2>4, RecentAfterOneMore
    <2>6. Len(Plan!Recent(b, s, clock)) = Kept(b, s, clock) /\ Kept(b, s, clock) \in 0..Len(b)
      BY <1>1, <1>2, <2>1, RecentIsPrefix
    <2> DEFINE longer == <<t>> \o b
    <2>7. Len(Plan!Recent(longer, s, clock)) = Kept(longer, s, clock)
          /\ Kept(longer, s, clock) \in 0..Len(longer)
      <3>1. longer \in Seq(Nat)
        BY <2>5
      <3> HIDE DEF longer
      <3> QED BY <1>1, <1>2, <3>1, RecentIsPrefix
    <2>8. Len(longer) \in Nat /\ Len(b) \in Nat
      BY <2>1, <2>5
    <2>9. Len(Plan!Recent(longer, s, clock)) \in Nat /\ Len(Plan!Recent(b, s, clock)) \in Nat
          /\ Len(Plan!Recent(b, s, clock)) <= Len(b)
      <3> HIDE DEF longer
      <3> QED BY <2>6, <2>7, <2>8
    <2>10. Len(Plan!Recent(longer, s, clock)) <= Len(Plan!Recent(b, s, clock)) + 1
      BY <2>5
    <2> HIDE DEF longer
    <2>11. Len(Plan!Recent(longer, s, clock)) <= Rate[s]
      BY <1>4, <2>3, <2>8, <2>9, <2>10
    <2>12. Plan!Recent(longer, s, clock) = Plan!Recent(<<t>> \o r, s, clock)
      BY <2>5 DEF longer
    <2>13. Len(Plan!Recent(<<t>> \o r, s, clock)) <= Rate[s]
      BY <2>11, <2>12
    <2> QED BY <2>5, <2>13 DEF t, b
  <1>8. /\ history'[s] = <<q.now>> \o q.seen /\ admitted'[s] = <<q.now>> \o r
        /\ \A z \in Plan!Scopes \ {s} : history'[z] = history[z] /\ admitted'[z] = admitted[z]
    <2> HIDE DEF q, s, r, c
    <2> QED BY <1>1 DEF PlanTypes
  <1>9. WindowsExact'
    <2> SUFFICES ASSUME NEW z \in Plan!Scopes
                 PROVE  /\ Plan!Recent(history'[z], z, clock) = Plan!Recent(admitted'[z], z, clock)
                        /\ Len(Plan!Recent(admitted'[z], z, clock)) <= Rate[z]
      BY <1>1 DEF WindowsExact
    <2> HIDE DEF q, s, r, c
    <2>1. CASE z = s
      BY <1>7, <1>8, <2>1
    <2>2. CASE z # s
      BY <1>8, <2>2 DEF Alone, WindowsExact
    <2> QED BY <2>1, <2>2
  <1>10. c.kind = q.kind /\ c.size = q.size /\ c.phase = "throttle"
    BY <1>2 DEF Plan!Call
  <1>11. PICK d : d = c
    OBVIOUS
  <1> HIDE DEF c
  <1>12. d.phase = "throttle" /\ (Adds(d) => Adds(q) /\ d.size = q.size)
    BY <1>1, <1>10, <1>11 DEF Adds
  <1>13. Promised(d)'
    BY <1>1, <1>3, <1>12 DEF Promised
  <1>14. CallBecomes(w, d)
    BY <1>1, <1>11
  <1> QED BY <1>3, <1>9, <1>13, <1>14, AloneBecomes

(* What a worker does while the others do nothing.                         *)
LEMMA AloneWork ==
  ASSUME PlanTypes, Alone, PlanTypes', NEW w \in Workers, Plan!Work(w)
  PROVE  Alone'
  <1> DEFINE q == call[w]
  <1>1. /\ {tasks, used, passed, tasks', used', passed', MaxTasks, MaxAIRequests} \subseteq Nat
        /\ overlapped \in BOOLEAN
    BY LimitsAssumption DEF PlanTypes
  <1>2. UNCHANGED <<history, admitted, clock>> /\ WindowsExact => WindowsExact'
    BY DEF WindowsExact
  <1>3. ASSUME NEW c, Entering(w, c) PROVE Alone'
    <2>1. /\ c.phase \in {"count", "throttle", "write"} /\ CallBecomes(w, c)
          /\ overlapped' = (overlapped \/ \E v \in Workers : call[v] # NoCall)
          /\ UNCHANGED <<tasks, deleted, used, history, clock, passed>>
      BY <1>3 DEF Entering
    <2>2. CASE overlapped'
      BY <2>2 DEF Alone
    <2>3. CASE ~overlapped'
      <3>1. /\ ~overlapped /\ \A v \in Workers \ {w} : call[v] = NoCall
            /\ UNCHANGED admitted
        BY <1>3, <2>1, <2>3 DEF Entering
      <3>2. CountersExact' /\ WindowsExact'
        BY <1>2, <2>1, <3>1 DEF Alone, CountersExact
      <3>3. Adds(c) => tasks' + c.size <= MaxTasks
        BY <1>3, <2>1 DEF Entering, Adds
      <3>4. c.phase = "count" => used' < MaxAIRequests
        BY <1>3, <2>1 DEF Entering
      <3>5. Promised(c)'
        BY <2>1, <3>3, <3>4 DEF Promised, Adds
      <3> QED BY <2>1, <3>1, <3>2, <3>5, AloneBecomes
    <2> QED BY <2>2, <2>3
  <1>4. ASSUME ~Plan!EnterGraphQL(w),
               ~\E kind \in Plan!Kinds, n \in 1..MaxBatch :
                  kind # "graphql" /\ (kind # "bulk" => n = 1) /\ Plan!Enter(w, kind, n)
        PROVE  Alone'
    <2>1. q # NoCall /\ UNCHANGED overlapped
      BY <1>4 DEF Plan!Work, Plan!Count, Plan!StartCount, Plan!ReadHistory, Plan!WriteHistory,
                  Plan!Refuse, Plan!CountBatch, Plan!Create, Plan!Restore, Plan!Throttled, Plan!In
    <2>2. CASE overlapped
      BY <2>1, <2>2 DEF Alone
    <2>3. CASE ~overlapped
      <3>1. \A v \in Workers \ {w} : call[v] = NoCall
        BY <2>1, <2>3 DEF Alone, OneAtATime
      <3>2. CountersExact /\ WindowsExact /\ Promised(q)
        BY <2>1, <2>3 DEF Alone
      <3>3. /\ q \in Plan!Call /\ q.size \in Nat /\ WellPlaced(q)
            /\ \A phase : /\ [q EXCEPT !.phase = phase].phase = phase
                          /\ [q EXCEPT !.phase = phase].size = q.size
                          /\ [q EXCEPT !.phase = phase].kind = q.kind
        BY <2>1, InCall DEF Plan!Call
      <3>4. ASSUME CallBecomes(w, NoCall), CountersExact', UNCHANGED <<history, admitted, clock>>
            PROVE  Alone'
        BY <1>2, <3>1, <3>2, <3>4, AloneBecomes
      <3>5. ASSUME NEW phase \in {"start", "throttle", "write"}, Plan!Goto(w, phase),
                   CountersExact', UNCHANGED <<history, admitted, clock>>,
                   Adds(q) \/ phase = "write" => tasks' + q.size <= MaxTasks,
                   phase = "start" => used' = 0 /\ MaxAIRequests > 0
            PROVE  Alone'
        <4>1. CallBecomes(w, [q EXCEPT !.phase = phase])
          BY <2>1, <3>5, GoesOn
        <4>2. PICK c : c = [q EXCEPT !.phase = phase]
          OBVIOUS
        <4>3. c.phase = phase /\ c.size = q.size /\ c.kind = q.kind /\ CallBecomes(w, c)
          BY <3>3, <4>1, <4>2
        <4>4. Adds(c) => tasks' + c.size <= MaxTasks
          BY <2>1, <3>5, <4>3 DEF Adds
        <4>5. Promised(c)'
          BY <3>5, <4>3, <4>4 DEF Promised
        <4> QED BY <1>2, <3>1, <3>2, <3>5, <4>3, <4>5, AloneBecomes
      <3>6. CASE Plan!Count(w)
        <4>1. q.phase = "count" /\ UNCHANGED <<tasks, history, clock, admitted>>
          BY <3>6 DEF Plan!Count, Plan!In
        <4>2. used < MaxAIRequests /\ (Adds(q) => tasks' + q.size <= MaxTasks)
          BY <3>2, <4>1 DEF Promised
        <4>3. CASE used = 0
          <5>1. Plan!Goto(w, "start") /\ UNCHANGED <<used, passed>>
            BY <3>6, <4>3 DEF Plan!Count
          <5>2. CountersExact' /\ used' = 0 /\ MaxAIRequests > 0
            BY <1>1, <3>2, <4>1, <4>2, <4>3, <5>1 DEF CountersExact
          <5> QED BY <3>5, <4>1, <4>2, <5>1, <5>2
        <4>4. CASE used # 0
          <5>1. Plan!Goto(w, "throttle") /\ used' = used + 1 /\ passed' = passed + 1
            BY <3>6, <4>4 DEF Plan!Count, Plan!Pass
          <5>2. CountersExact'
            BY <1>1, <3>2, <4>1, <4>2, <5>1 DEF CountersExact
          <5> QED BY <3>5, <4>1, <4>2, <5>1, <5>2
        <4> QED BY <4>3, <4>4
      <3>7. CASE Plan!StartCount(w)
        <4>1. /\ q.phase = "start" /\ Plan!Goto(w, "throttle") /\ used' = 1 /\ passed' = passed + 1
              /\ UNCHANGED <<tasks, history, clock, admitted>>
          BY <3>7 DEF Plan!StartCount, Plan!In, Plan!Pass
        <4>2. used = 0 /\ MaxAIRequests > 0 /\ (Adds(q) => tasks' + q.size <= MaxTasks)
          BY <3>2, <4>1 DEF Promised
        <4>3. CountersExact'
          BY <1>1, <3>2, <4>1, <4>2 DEF CountersExact
        <4> QED BY <3>5, <4>1, <4>2, <4>3
      <3>8. CASE Plan!ReadHistory(w) \/ Plan!WriteHistory(w)
        BY <2>3, <3>1, <3>8, AloneReads, AloneWrites
      <3>9. CASE Plan!Refuse(w)
        <4>1. Plan!Return(w) /\ UNCHANGED <<tasks, used, passed, history, clock, admitted>>
          BY <3>9 DEF Plan!Refuse, Plan!stores
        <4>2. CountersExact'
          BY <3>2, <4>1 DEF CountersExact
        <4> QED BY <2>1, <3>4, <4>1, <4>2, GoesOn
      <3>10. CASE Plan!CountBatch(w)
        <4>1. /\ Plan!Goto(w, "write") /\ tasks + q.size <= MaxTasks
              /\ UNCHANGED <<tasks, used, passed, history, clock, admitted>>
          BY <3>10 DEF Plan!CountBatch, Plan!RoomFor, Plan!stores
        <4>2. CountersExact'
          BY <3>2, <4>1 DEF CountersExact
        <4> QED BY <3>5, <4>1, <4>2
      <3>11. CASE Plan!Create(w) \/ Plan!Restore(w)
        <4>1. /\ Plan!Return(w) /\ UNCHANGED <<used, passed, history, clock, admitted>>
              /\ q.kind \in {"create", "restore"} \/ q.phase = "write"
              /\ tasks' = tasks + q.size \/ (tasks' = tasks + 1 /\ q.kind = "restore")
          BY <3>11 DEF Plan!Create, Plan!Restore, Plan!Throttled, Plan!In
        <4>2. tasks + q.size <= MaxTasks /\ (q.kind = "restore" => q.size = 1)
          BY <2>1, <3>2, <3>3, <4>1 DEF Promised, Adds, WellPlaced
        <4>3. CountersExact'
          BY <1>1, <3>2, <3>3, <4>1, <4>2 DEF CountersExact
        <4> QED BY <2>1, <3>4, <4>1, <4>3, GoesOn
      <3> QED BY <1>4, <3>6, <3>7, <3>8, <3>9, <3>10, <3>11 DEF Plan!Work
    <2> QED BY <1>1, <2>2, <2>3
  <1> QED BY <1>3, <1>4, EnterStep

LEMMA AloneNext == PlanTypes /\ Alone /\ [Plan!Next]_planVars => Alone'
  <1> SUFFICES ASSUME PlanTypes, Alone, [Plan!Next]_planVars PROVE Alone'
    OBVIOUS
  <1>1. PlanTypes'
    BY PlanTypesNext
  <1>2. CASE UNCHANGED overlapped /\ overlapped
    BY <1>2 DEF Alone
  <1>3. ASSUME UNCHANGED <<call, overlapped, clock, history, admitted>>, ~overlapped,
               CountersExact', tasks' <= tasks,
               used' = used \/ (used' = 0 /\ used # 0)
        PROVE  Alone'
    <2>1. OneAtATime' /\ WindowsExact'
      BY <1>3 DEF Alone, OneAtATime, WindowsExact
    <2>2. ASSUME NEW v \in Workers, call[v] # NoCall PROVE Promised(call[v])'
      <3>1. Promised(call[v]) /\ call[v].size \in Nat
        BY <1>3, <2>2, InCall DEF Alone
      <3>2. {tasks, tasks', used, used', MaxTasks, MaxAIRequests} \subseteq Nat
        BY <1>1, LimitsAssumption DEF PlanTypes
      <3>3. Adds(call[v]) => tasks' + call[v].size <= MaxTasks
        BY <1>3, <3>1, <3>2 DEF Promised
      <3>4. /\ call[v].phase = "count" => used' < MaxAIRequests
            /\ call[v].phase = "start" => used' = 0 /\ MaxAIRequests > 0
        BY <1>3, <3>1, <3>2 DEF Promised
      <3> QED BY <1>3, <3>1, <3>3, <3>4 DEF Promised
    <2> QED BY <1>3, <2>1, <2>2 DEF Alone
  <1>4. CASE Plan!Delete
    <2>1. /\ UNCHANGED <<call, overlapped, clock, history, admitted, used, passed>>
          /\ tasks' = tasks - 1
      BY <1>4 DEF Plan!Delete
    <2>2. ~overlapped => CountersExact' /\ tasks' <= tasks
      BY <1>1, <2>1, LimitsAssumption DEF Alone, CountersExact, PlanTypes
    <2> QED BY <1>2, <1>3, <2>1, <2>2
  <1>5. CASE Plan!ExpireCount
    <2>1. /\ UNCHANGED <<call, overlapped, clock, history, admitted, tasks>>
          /\ used # 0 /\ used' = 0 /\ passed' = 0
      BY <1>5 DEF Plan!ExpireCount, PlanTypes
    <2>2. ~overlapped => CountersExact' /\ tasks' <= tasks
      BY <1>1, <2>1, LimitsAssumption DEF Alone, CountersExact, PlanTypes
    <2> QED BY <1>2, <1>3, <2>1, <2>2
  <1>6. CASE Plan!Tick
    <2>1. UNCHANGED overlapped
      BY <1>6 DEF Plan!Tick
    <2> QED BY <1>1, <1>2, <1>6, <2>1, AloneTick
  <1>7. CASE UNCHANGED planVars
    BY <1>7 DEF planVars, Alone, OneAtATime, CountersExact, WindowsExact, Promised
  <1>8. ASSUME NEW w \in Workers, Plan!Work(w) PROVE Alone'
    BY <1>1, <1>8, AloneWork
  <1> QED BY <1>4, <1>5, <1>6, <1>7, <1>8 DEF Plan!Next

-------------------------------------------------------------------------------
(* Every limit together                                                    *)

(* Whatever the plan, the workers and the order in which their requests    *)
(* count and write: each other worker adds at most an import to the tasks, *)
(* the AI requests of a day exceed the quota by those that race for the    *)
(* last place and those that a late first count forgets, and requests that *)
(* come one after the other exceed nothing, neither of these nor the rate  *)
(* of a throttle.                                                          *)
THEOREM PlanLimitsHold ==
  Plan!Spec => [](Plan!OvershootBounded /\ Plan!ExactAlone)
  <1> DEFINE Inv == PlanTypes /\ TasksGranted /\ ChargesGranted /\ Alone
  <1>1. Plan!Init => Inv
    BY PlanTypesInit, GrantedInit, AloneInit
  <1>2. Inv /\ [Plan!Next]_planVars => Inv'
    BY PlanTypesNext, GrantedNext, AloneNext
  <1>3. Inv => Plan!OvershootBounded /\ Plan!ExactAlone
    <2>1. PlanTypes /\ Alone => Plan!ExactAlone
      BY DEF Alone, CountersExact, WindowsExact, Plan!ExactAlone
    <2> QED BY <2>1, GrantedIsBounded
  <1> HIDE DEF Inv
  <1>4. Inv /\ [Plan!Next]_(Plan!vars) => Inv'
    BY <1>2 DEF Plan!vars, planVars
  <1> QED BY <1>1, <1>3, <1>4, PTL DEF Plan!Spec

(* LimitsHold: every limit of a plan at once, in all that the middleware   *)
(* and the views let happen.                                               *)
THEOREM LimitsAlwaysHold ==
  ASSUME Isolated
  PROVE  Spec /\ Plan!Spec => []LimitsHold
  <1>1. SeatsBounded /\ (Plan!OvershootBounded /\ Plan!ExactAlone) => LimitsHold
    BY DEF LimitsHold
  <1> QED BY <1>1, SeatsStayBounded, PlanLimitsHold, PTL
===============================================================================
