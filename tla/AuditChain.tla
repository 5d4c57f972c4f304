----------------------------- MODULE AuditChain -------------------------------
(***************************************************************************)
(* The audit log of an organization as a chain of digests, its             *)
(* verification and the notarized checkpoints over it.                     *)
(*                                                                         *)
(* A worker is a transaction that records an entry, or a verification that *)
(* may go on to anchor a checkpoint.  A digest is the term it was computed *)
(* from: SHA-256 without collisions.  What an entry tells is its actor and *)
(* whether its text is still the original one.  A replica is read as the   *)
(* primary was at an earlier time.                                         *)
(***************************************************************************)
EXTENDS Merkle, FiniteSets

CONSTANTS
    Workers, Users,
    Keys,         \* the signing keys the service may be configured with
    NoKey,        \* no key configured, or the key service out of reach
    NoUser,       \* the actor of an entry whose account is gone
    Idle,
    Free,         \* an advisory lock nobody holds
    MaxEntries,   \* bounds the entries
    MaxPoints,    \* bounds the checkpoints
    Disturbances  \* what happens to the tables: a subset of AllDisturbances

AllDisturbances == {"edit", "rewrite", "lose", "forget", "rotate"}

ASSUME AuditAssumption ==
    /\ MaxEntries \in Nat /\ MaxPoints \in Nat
    /\ Disturbances \subseteq AllDisturbances
    /\ NoUser \notin Users /\ NoKey \notin Keys /\ Free \notin Workers

VARIABLES
    log,       \* the rows of the audit log
    points,    \* the checkpoints in their order
    lock,      \* who holds the lock of the log
    gate,      \* who holds the lock of the checkpoints
    accounts,  \* the users whose account exists
    key,       \* the signing key in use
    notarized, \* the rows each checkpoint was made from
    disturbed, \* what has happened to the tables, at most one thing
    tx         \* what each worker is in the middle of

vars == <<log, points, lock, gate, accounts, key, notarized, disturbed, tx>>

Init ==
    /\ log = {} /\ points = <<>>
    /\ lock = Free /\ gate = Free
    /\ accounts = Users /\ key \in Keys
    /\ notarized = <<>> /\ disturbed = "nothing"
    /\ tx = [w \in Workers |-> Idle]

Doing(w, phase) == tx[w] # Idle /\ tx[w].phase = phase

Go(w, step) == tx' = [tx EXCEPT ![w] = step]

-------------------------------------------------------------------------------
(* Rows and checkpoints                                                    *)

Genesis == [seq |-> 0, hash |-> <<>>]

DigestOf(r) == <<r.seq, r.prev, r.user, r.text>>

Sealed(r) == [seq |-> r.seq, prev |-> r.prev, user |-> r.user, text |-> r.text,
              hash |-> DigestOf(r)]

(* The key and the place in the store are not part of what is notarized.   *)
DigestOfPoint(c) == <<c.seq, c.prev, c.covered, c.head, c.root>>

(* In the order of their numbers.                                          *)
ChainOf(rows) ==
    CHOOSE chain \in [1..Cardinality(rows) -> rows] :
        \A i, j \in DOMAIN chain : i < j => chain[i].seq < chain[j].seq

UpTo(rows, n) == {r \in rows : r.seq <= n}

HashesOf(chain) == [i \in DOMAIN chain |-> chain[i].hash]

LastOf(seq) == IF seq = <<>> THEN Genesis ELSE Last(seq)

(* The expected predecessor of element i.                                  *)
Before(seq, i) == IF i = 1 THEN Genesis ELSE seq[i - 1]

Follows(element, previous) == element.seq = previous.seq + 1 /\ element.prev = previous.hash

-------------------------------------------------------------------------------
(* Verification                                                            *)

(* The links alone.                                                        *)
EntryLinked(chain, i) == Follows(chain[i], Before(chain, i))

EntryHolds(chain, i) ==
    Follows(chain[i], Before(chain, i)) /\ chain[i].hash = DigestOf(chain[i])

(* The checkpoint must cover the whole chain.                              *)
AnchoredAtHead(rows, c) ==
    c.head = LastOf(ChainOf(rows)).hash /\ c.root = RootOf(HashesOf(ChainOf(rows)))

Anchored(rows, c) ==
    LET leaves == ChainOf(UpTo(rows, c.covered))
    IN /\ c.covered > 0 => \E r \in rows : r.seq = c.covered /\ r.hash = c.head
       /\ Len(leaves) = c.covered /\ c.root = RootOf(HashesOf(leaves))

SignatureHolds(c, public) == c.key = public

(* Every checkpoint is taken to be signed.                                 *)
PointSigned(rows, seen, i, public) ==
    LET c == seen[i] IN
    Follows(c, Before(seen, i)) /\ c.hash = DigestOfPoint(c) /\ SignatureHolds(c, public) /\ Anchored(rows, c)

PointHolds(rows, seen, i, public) ==
    LET c == seen[i] IN
    /\ Follows(c, Before(seen, i)) /\ c.hash = DigestOfPoint(c)
    /\ c.key # NoKey => SignatureHolds(c, public)
    /\ Anchored(rows, c)

Valid(rows, seen, public) ==
    LET chain == ChainOf(rows) IN
    /\ \A i \in DOMAIN chain : EntryHolds(chain, i)
    /\ \A i \in DOMAIN seen : PointHolds(rows, seen, i, public)

(* The two tables are read one after the other.                            *)
ReadEntries(w) ==
    /\ tx[w] = Idle
    /\ Go(w, [phase |-> "reading", rows |-> log])
    /\ UNCHANGED <<log, points, lock, gate, accounts, key, notarized, disturbed>>

ReadPoints(w) ==
    /\ Doing(w, "reading")
    /\ \E public \in {key, NoKey} :
         Go(w, [phase |-> "reported", rows |-> tx[w].rows, seen |-> Len(points), public |-> public])
    /\ UNCHANGED <<log, points, lock, gate, accounts, key, notarized, disturbed>>

SeenBy(w) == SubSeq(points, 1, tx[w].seen)

ReportIsValid(w) == Valid(tx[w].rows, SeenBy(w), tx[w].public)

-------------------------------------------------------------------------------
(* Recording: within the transaction of the change, or after its commit    *)

(* The lock is not asked for.                                              *)
LockIgnored(holder) == TRUE

LockFree(holder) == holder = Free

TakeLock(w, u) ==
    /\ tx[w] = Idle /\ LockFree(lock)
    /\ lock' = w
    /\ Go(w, [phase |-> "sealing", user |-> u])
    /\ UNCHANGED <<log, points, gate, accounts, key, notarized, disturbed>>

Seal(w) ==
    LET head == LastOf(ChainOf(log)) IN
    /\ Doing(w, "sealing")
    /\ Go(w, [phase |-> "sealed",
              row |-> Sealed([seq |-> head.seq + 1, prev |-> head.hash,
                              user |-> tx[w].user, text |-> "original"])])
    /\ UNCHANGED <<log, points, lock, gate, accounts, key, notarized, disturbed>>

(* The number is unique and the account still exists.                      *)
CommitEntry(w) ==
    /\ Doing(w, "sealed") /\ tx[w].row.seq <= MaxEntries
    /\ \A r \in log : r.seq # tx[w].row.seq
    /\ tx[w].row.user \in accounts \cup {NoUser}
    /\ log' = log \cup {tx[w].row}
    /\ lock' = Free /\ Go(w, Idle)
    /\ UNCHANGED <<points, gate, accounts, key, notarized, disturbed>>

-------------------------------------------------------------------------------
(* Checkpoints                                                             *)

TakeGate(w) ==
    /\ Doing(w, "reported") /\ ReportIsValid(w)
    /\ LockFree(gate)
    /\ gate' = w
    /\ Go(w, [phase |-> "anchoring", rows |-> tx[w].rows])
    /\ UNCHANGED <<log, points, lock, accounts, key, notarized, disturbed>>

Unchanged(chain) ==
    /\ points # <<>>
    /\ Last(points).covered = LastOf(chain).seq /\ Last(points).head = LastOf(chain).hash

(* Signing may fail.                                                       *)
Signers == {key, NoKey}

(* force: also of an empty log, or of what is covered already; signer: who *)
(* signs.  A failed upload changes the status only.                        *)
Draft(w, force, signer) ==
    LET chain == ChainOf(tx[w].rows)
        last == LastOf(points)
        point == [seq |-> last.seq + 1, prev |-> last.hash, covered |-> LastOf(chain).seq,
                  head |-> LastOf(chain).hash, root |-> RootOf(HashesOf(chain))]
    IN /\ Doing(w, "anchoring") /\ (force \/ (chain # <<>> /\ ~Unchanged(chain)))
       /\ Go(w, [phase |-> "drafted", rows |-> tx[w].rows, point |-> point, key |-> signer])
       /\ UNCHANGED <<log, points, lock, gate, accounts, key, notarized, disturbed>>

(* The row and the outbox event that announces it.                         *)
CommitPoint(w) ==
    LET point == tx[w].point IN
    /\ Doing(w, "drafted") /\ Len(points) < MaxPoints
    /\ \A i \in DOMAIN points : points[i].seq # point.seq
    /\ points' = Append(points,
         [seq |-> point.seq, prev |-> point.prev, covered |-> point.covered,
          head |-> point.head, root |-> point.root, hash |-> DigestOfPoint(point),
          key |-> tx[w].key])
    /\ notarized' = Append(notarized, tx[w].rows)
    /\ gate' = Free /\ Go(w, Idle)
    /\ UNCHANGED <<log, lock, accounts, key, disturbed>>

(* A rollback, a crash, a report delivered, nothing to anchor.             *)
End(w) ==
    /\ tx[w] # Idle
    /\ lock' = IF lock = w THEN Free ELSE lock
    /\ gate' = IF gate = w THEN Free ELSE gate
    /\ Go(w, Idle)
    /\ UNCHANGED <<log, points, accounts, key, notarized, disturbed>>

-------------------------------------------------------------------------------
(* Bundles for auditors                                                    *)

Leaves(c) == HashesOf(ChainOf(UpTo(log, c.covered)))

PointVerifies(c, public) == c.hash = DigestOfPoint(c) /\ SignatureHolds(c, public)

(* That an entry is among those of a checkpoint.                           *)
InclusionVerifies(r, c, public) ==
    /\ r.hash = DigestOf(r)
    /\ Included(DigestOf(r), r.seq - 1, c.covered, InclusionProof(Leaves(c), r.seq - 1), c.root)
    /\ NoKey \notin {public, c.key} => PointVerifies(c, public)

(* That a checkpoint covers all that an earlier one covered.               *)
ConsistencyVerifies(first, second) ==
    Consistent(first.covered, second.covered, first.root, second.root,
               ConsistencyProof(Leaves(second), first.covered))

-------------------------------------------------------------------------------
(* What happens to the tables                                              *)

(* The rows with their links and digests computed anew.                    *)
Resealed(rows) ==
    LET chain == ChainOf(rows)
        new[i \in DOMAIN chain] == Sealed([chain[i] EXCEPT !.prev = Before(new, i).hash])
    IN {new[i] : i \in DOMAIN chain}

Altered(r) == [r EXCEPT !.text = "altered"]

Disturbance(kind) ==
    /\ kind \in Disturbances /\ disturbed = "nothing"
    /\ disturbed' = kind
    /\ UNCHANGED <<points, lock, gate, notarized, tx>>

Damage(r) ==
    /\ \/ Disturbance("edit") /\ log' = (log \ {r}) \cup {Altered(r)}
       \/ Disturbance("rewrite") /\ log' = Resealed((log \ {r}) \cup {Altered(r)})
       \/ Disturbance("lose") /\ log' = log \ {r}
    /\ UNCHANGED <<accounts, key>>

(* An account is deleted: SET_NULL reaches the sealed rows.                *)
Forget(u) ==
    /\ Disturbance("forget") /\ u \in accounts
    /\ accounts' = accounts \ {u}
    /\ log' = {IF r.user = u THEN [r EXCEPT !.user = NoUser] ELSE r : r \in log}
    /\ UNCHANGED key

RotateKey(k) ==
    /\ Disturbance("rotate") /\ key' = k
    /\ UNCHANGED <<log, accounts>>

-------------------------------------------------------------------------------

(* Without an account left, the system itself is the actor.                *)
Actors == IF accounts = {} THEN {NoUser} ELSE accounts

Record(w) == (\E u \in Actors : TakeLock(w, u)) \/ Seal(w) \/ CommitEntry(w)

Verify(w) == ReadEntries(w) \/ ReadPoints(w)

Anchor(w) ==
    \/ TakeGate(w)
    \/ \E force \in BOOLEAN, signer \in Signers : Draft(w, force, signer)
    \/ CommitPoint(w)

Disturb ==
    \/ \E r \in log : Damage(r)
    \/ \E u \in Users : Forget(u)
    \/ \E k \in Keys \cup {NoKey} : RotateKey(k)

Next == (\E w \in Workers : Record(w) \/ Verify(w) \/ Anchor(w) \/ End(w)) \/ Disturb

Spec == Init /\ [][Next]_vars

-------------------------------------------------------------------------------
(* Properties                                                              *)

(* Rows were altered or lost behind the service.                           *)
Damaged == disturbed \in {"edit", "rewrite", "lose"}

(* The advisory locks make the unique constraints idle: a row or a         *)
(* checkpoint that is about to be stored continues what is stored, so no   *)
(* request is rolled back for an entry of another one.                     *)
SealedRecordsFit ==
    ~Damaged => \A w \in Workers :
        /\ Doing(w, "sealed") => Follows(tx[w].row, LastOf(ChainOf(log)))
        /\ Doing(w, "drafted") => Follows(tx[w].point, LastOf(points))

(* With nothing disturbed and the key in reach, a verification that     *)
(* reads both tables at once finds nothing, also when checkpoints were     *)
(* made from reports that were old by then.                                *)
Intact == disturbed = "nothing"

IntactTablesVerify == Intact => Valid(log, points, key)

(* A valid report is true: the rows that a checkpoint covers are exactly   *)
(* those it was made from, whatever was edited, rewritten with fresh       *)
(* digests, or lost since.                                                 *)
ValidReportsAreTrue ==
    \A w \in Workers : Doing(w, "reported") /\ ReportIsValid(w) =>
        \A i \in 1..tx[w].seen :
            UpTo(tx[w].rows, points[i].covered) = notarized[i]

(* A report raises an alarm only for damage, a deleted account, a key that *)
(* is out of reach or has changed, or a checkpoint that was made between   *)
(* the two reads and covers more than the entries read.                    *)
AlarmsHaveACause ==
    \A w \in Workers : Doing(w, "reported") /\ ~ReportIsValid(w) =>
        \/ Damaged \/ disturbed = "forget"
        \/ \E i \in 1..tx[w].seen :
             \/ points[i].key \notin {NoKey, tx[w].public}
             \/ \A r \in tx[w].rows : r.seq < points[i].covered

(* Every entry has a proof of inclusion under every checkpoint that covers *)
(* it, and the later of two checkpoints is provably an extension of the    *)
(* earlier one, unless it covers less.                                     *)
EntriesAreProvable ==
    Intact => \A i \in DOMAIN points :
        /\ \A r \in log : r.seq <= points[i].covered => InclusionVerifies(r, points[i], key)
        /\ \A j \in 1..i : points[j].covered <= points[i].covered
                             => ConsistencyVerifies(points[j], points[i])
===============================================================================
