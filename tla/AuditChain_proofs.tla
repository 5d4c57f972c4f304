--------------------------- MODULE AuditChain_proofs ---------------------------
(***************************************************************************)
(* Proofs about AuditChain for any number of workers, entries, checkpoints *)
(* and keys: what the two advisory locks give, why a verification finds    *)
(* nothing in intact tables and raises no alarm without a cause, why       *)
(* tables it finds in order are what was notarized, and that the proofs of *)
(* Merkle hold for what is so, and for nothing else.                       *)
(*                                                                         *)
(* Inductions, over parts of a tree or over numbers, are about a smallest  *)
(* counterexample.                                                         *)
(***************************************************************************)
EXTENDS AuditChain, Algorithms, FiniteSetTheorems, SequenceTheorems, WellFoundedInduction, TLAPS

-------------------------------------------------------------------------------
(* The rows in the order of their numbers                                  *)

IsRow(r) ==
    r = [seq |-> r.seq, prev |-> r.prev, user |-> r.user, text |-> r.text, hash |-> r.hash]

(* The rows are numbered from 1 without a gap; chain has them in order.    *)
Lists(chain, n, rows) ==
    /\ n \in Nat /\ chain \in [1..n -> rows]
    /\ \A i \in 1..n : chain[i].seq = i
    /\ \A r \in rows : IsRow(r) /\ \E i \in 1..n : r = chain[i]

Numbered(rows) == \E n, chain : Lists(chain, n, rows)

(* The same rows without a function.                                       *)
LEMMA ListedRows ==
  ASSUME NEW rows, NEW n, NEW chain, Lists(chain, n, rows)
  PROVE  /\ n \in Nat /\ chain \in [1..n -> rows] /\ chain \in Seq(rows) /\ Len(chain) = n
         /\ \A i \in 1..n : chain[i].seq = i
         /\ \A r \in rows : IsRow(r) /\ r.seq \in 1..n /\ chain[r.seq] = r
         /\ IsFiniteSet(rows) /\ Cardinality(rows) = n
  <1>1. n \in Nat /\ chain \in [1..n -> rows]
    BY DEF Lists
  <1>2. chain \in Seq(rows) /\ Len(chain) = n
    BY <1>1
  <1>3. /\ \A i \in 1..n : chain[i].seq = i
        /\ \A r \in rows : IsRow(r) /\ r.seq \in 1..n /\ chain[r.seq] = r
    BY DEF Lists
  <1>4. \A i, j \in 1..n : chain[i] = chain[j] => i = j
    BY DEF Lists
  <1>5. \A r \in rows : \E i \in 1..n : chain[i] = r
    BY DEF Lists
  <1>6. chain \in Bijection(1..n, rows)
    BY <1>1, <1>4, <1>5 DEF Bijection, Injection, Surjection, IsInjective
  <1>7. ExistsBijection(1..n, rows)
    BY <1>6 DEF ExistsBijection
  <1>8. IsFiniteSet(rows) /\ Cardinality(rows) = n
    BY <1>1, <1>7, FS_NatBijection, FS_CountingElements
  <1> QED BY <1>1, <1>2, <1>3, <1>8

(* An increasing arrangement of numbered rows has row i at place i: at the *)
(* first place where it has not, the row's number has been passed over.    *)
LEMMA OneOrder ==
  ASSUME NEW rows, NEW n, NEW chain, Lists(chain, n, rows),
         NEW f \in [1..n -> rows], \A i, j \in 1..n : i < j => f[i].seq < f[j].seq
  PROVE  f = chain
  <1>1. /\ n \in Nat /\ chain \in [1..n -> rows] /\ IsFiniteSet(rows) /\ Cardinality(rows) = n
        /\ \A r \in rows : r.seq \in 1..n /\ chain[r.seq] = r
        /\ \A i \in 1..n : chain[i].seq = i
    BY ListedRows
  <1>2. \A i \in 1..n : f[i].seq \in 1..n /\ f[i] = chain[f[i].seq]
    BY <1>1
  <1>3. \A i, j \in 1..n : f[i] = f[j] => i = j
    <2> SUFFICES ASSUME NEW i \in 1..n, NEW j \in 1..n, f[i] = f[j] PROVE i = j
      OBVIOUS
    <2>1. ~(i < j) /\ ~(j < i)
      BY <1>2
    <2> QED BY <1>1, <2>1
  <1>4. f \in Injection(1..n, rows)
    BY <1>3 DEF Injection, IsInjective
  <1>5. IsFiniteSet(1..n) /\ Cardinality(1..n) = n
    BY <1>1, FS_Interval
  <1>6. f \in Surjection(1..n, rows)
    BY <1>1, <1>4, <1>5, FS_Injection
  <1>7. \A r \in rows : \E i \in 1..n : f[i] = r
    BY <1>6 DEF Surjection
  <1> DEFINE Misplaced == {i \in 1..n : f[i].seq # i}
  <1>8. Misplaced = {}
    <2> SUFFICES ASSUME Misplaced # {} PROVE FALSE
      OBVIOUS
    <2>1. Misplaced \subseteq Nat
      BY <1>1
    <2>2. PICK i \in Misplaced : \A k \in Misplaced : ~(<<k, i>> \in OpToRel(<, Nat))
      <3> HIDE DEF Misplaced
      <3> QED BY <2>1, NatLessThanWellFounded, WFMin, Zenon
    <2>3. \A k \in Misplaced : ~(k < i)
      BY <2>1, <2>2 DEF OpToRel
    <2>4. i \in 1..n /\ f[i].seq # i
      OBVIOUS
    <2>5. \A k \in 1..n : k < i => f[k].seq = k
      BY <2>3
    <2>6. f[i].seq > i
      <3>1. CASE i = 1
        BY <1>2, <2>4, <3>1
      <3>2. CASE i # 1
        <4>1. i - 1 \in 1..n /\ i - 1 < i /\ f[i - 1].seq = i - 1
          BY <1>1, <2>4, <2>5, <3>2
        <4>2. f[i - 1].seq < f[i].seq
          BY <2>4, <4>1
        <4> QED BY <1>2, <2>4, <4>1, <4>2
      <3> QED BY <3>1, <3>2
    <2>7. PICK j \in 1..n : f[j] = chain[i]
      BY <1>1, <1>7, <2>4
    <2>8. f[j].seq = i
      BY <1>1, <2>4, <2>7
    <2>9. j > i
      BY <1>1, <2>4, <2>5, <2>8
    <2>10. f[i].seq < f[j].seq
      BY <2>4, <2>9
    <2> QED BY <1>2, <2>4, <2>6, <2>8, <2>10
  <1>9. \A i \in 1..n : f[i] = chain[i]
    BY <1>2, <1>8
  <1> QED BY <1>1, <1>9

LEMMA ChainIsList ==
  ASSUME NEW rows, NEW n, NEW chain, Lists(chain, n, rows)
  PROVE  ChainOf(rows) = chain
  <1> DEFINE Ordered(f) == \A i, j \in DOMAIN f : i < j => f[i].seq < f[j].seq
  <1>1. Cardinality(rows) = n /\ n \in Nat /\ chain \in [1..n -> rows]
        /\ \A i \in 1..n : chain[i].seq = i
    BY ListedRows
  <1>2. chain \in [1..n -> rows] /\ Ordered(chain)
    BY <1>1
  <1>3. ASSUME NEW f \in [1..n -> rows], Ordered(f) PROVE f = chain
    BY <1>1, <1>3, OneOrder
  <1>4. ChainOf(rows) = CHOOSE f \in [1..n -> rows] : Ordered(f)
    BY <1>1 DEF ChainOf
  <1> HIDE DEF Ordered
  <1> QED BY <1>2, <1>3, <1>4

(* The last row, or the genesis.                                           *)
LEMMA HeadOfList ==
  ASSUME NEW rows, NEW n, NEW chain, Lists(chain, n, rows)
  PROVE  /\ LastOf(ChainOf(rows)) = IF n = 0 THEN Genesis ELSE chain[n]
         /\ LastOf(ChainOf(rows)).seq = n
  <1>1. ChainOf(rows) = chain /\ n \in Nat /\ chain \in Seq(rows) /\ Len(chain) = n
    BY ChainIsList, ListedRows
  <1>2. chain = <<>> <=> n = 0
    BY <1>1
  <1>3. n # 0 => chain[n].seq = n
    <2>1. \A i \in 1..n : chain[i].seq = i
      BY ListedRows
    <2> QED BY <1>1, <2>1
  <1> QED BY <1>1, <1>2, <1>3 DEF LastOf, Last, Genesis

(* Up to a number that the rows reach.                                     *)
LEMMA PartIsListed ==
  ASSUME NEW rows, NEW n, NEW chain, Lists(chain, n, rows), NEW m \in 0..n
  PROVE  Lists([i \in 1..m |-> chain[i]], m, UpTo(rows, m))
  <1> DEFINE part == [i \in 1..m |-> chain[i]]
  <1>1. /\ n \in Nat /\ chain \in [1..n -> rows]
        /\ \A i \in 1..n : chain[i].seq = i
        /\ \A r \in rows : IsRow(r) /\ r.seq \in 1..n /\ chain[r.seq] = r
    BY ListedRows
  <1>2. m \in Nat /\ \A i \in 1..m : i \in 1..n
    BY <1>1
  <1>3. part \in [1..m -> UpTo(rows, m)] /\ \A i \in 1..m : part[i].seq = i
    BY <1>1, <1>2 DEF UpTo
  <1>4. ASSUME NEW r \in UpTo(rows, m) PROVE IsRow(r) /\ \E i \in 1..m : r = part[i]
    BY <1>1, <1>2 DEF UpTo
  <1> QED BY <1>2, <1>3, <1>4 DEF Lists

(* One more row that follows the last.                                     *)
LEMMA MoreIsListed ==
  ASSUME NEW rows, NEW n, NEW chain, Lists(chain, n, rows),
         NEW row, IsRow(row), row.seq = n + 1
  PROVE  Lists([i \in 1..(n + 1) |-> IF i = n + 1 THEN row ELSE chain[i]], n + 1, rows \cup {row})
  <1> DEFINE more == [i \in 1..(n + 1) |-> IF i = n + 1 THEN row ELSE chain[i]]
  <1>1. /\ n \in Nat /\ chain \in [1..n -> rows]
        /\ \A i \in 1..n : chain[i].seq = i
        /\ \A r \in rows : IsRow(r) /\ r.seq \in 1..n /\ chain[r.seq] = r
    BY ListedRows
  <1>2. n + 1 \in Nat /\ \A i \in 1..(n + 1) : i = n + 1 \/ i \in 1..n
    BY <1>1
  <1>3. more \in [1..(n + 1) -> rows \cup {row}] /\ \A i \in 1..(n + 1) : more[i].seq = i
    BY <1>1, <1>2
  <1>4. ASSUME NEW r \in rows \cup {row} PROVE IsRow(r) /\ \E i \in 1..(n + 1) : r = more[i]
    <2>1. CASE r = row
      <3>1. n + 1 \in 1..(n + 1) /\ more[n + 1] = row
        BY <1>1
      <3> QED BY <2>1, <3>1
    <2>2. CASE r # row
      <3>1. r.seq \in 1..n /\ chain[r.seq] = r
        BY <1>1, <2>2
      <3>2. r.seq \in 1..(n + 1) /\ more[r.seq] = r
        BY <1>1, <3>1
      <3> QED BY <1>1, <2>2, <3>2
    <2> QED BY <2>1, <2>2
  <1> QED BY <1>2, <1>3, <1>4 DEF Lists

-------------------------------------------------------------------------------
(* Sound rows, their prefixes and what is anchored in them                 *)

Linked(rows) ==
    \A r \in rows : IF r.seq = 1 THEN r.prev = Genesis.hash
                    ELSE \E s \in rows : s.seq = r.seq - 1 /\ r.prev = s.hash

Sound(rows) == Numbered(rows) /\ Linked(rows) /\ \A r \in rows : r.hash = DigestOf(r)

(* What a reader had read when the log was shorter.                        *)
PrefixOf(part, rows) ==
    \E m \in Nat : part = UpTo(rows, m) /\ (m = 0 \/ \E r \in rows : r.seq = m)

LEMMA SoundHolds ==
  ASSUME NEW rows, Sound(rows)
  PROVE  \A i \in DOMAIN ChainOf(rows) : EntryHolds(ChainOf(rows), i)
  <1>1. PICK n, chain : Lists(chain, n, rows)
    BY DEF Sound, Numbered
  <1>2. /\ ChainOf(rows) = chain /\ n \in Nat /\ chain \in [1..n -> rows]
        /\ \A i \in 1..n : chain[i].seq = i
        /\ \A r \in rows : r.seq \in 1..n /\ chain[r.seq] = r
    BY <1>1, ChainIsList, ListedRows
  <1>3. ASSUME NEW i \in 1..n PROVE EntryHolds(chain, i)
    <2>1. chain[i].hash = DigestOf(chain[i]) /\ chain[i] \in rows
      BY <1>2 DEF Sound
    <2>2. CASE i = 1
      <3>1. chain[i].prev = Genesis.hash /\ chain[i].seq = 1
        BY <1>2, <2>1, <2>2 DEF Sound, Linked
      <3> QED BY <2>1, <2>2, <3>1 DEF EntryHolds, Follows, Before, Genesis
    <2>3. CASE i # 1
      <3>1. PICK s \in rows : s.seq = i - 1 /\ chain[i].prev = s.hash
        BY <1>2, <2>1, <2>3 DEF Sound, Linked
      <3>2. s = chain[i - 1] /\ chain[i].seq = s.seq + 1
        BY <1>2, <2>3, <3>1
      <3> QED BY <2>1, <2>3, <3>1, <3>2 DEF EntryHolds, Follows, Before
    <2> QED BY <2>2, <2>3
  <1> QED BY <1>2, <1>3

LEMMA PrefixIsSound ==
  ASSUME NEW rows, Sound(rows), NEW part, PrefixOf(part, rows)
  PROVE  Sound(part)
  <1>1. PICK n, chain : Lists(chain, n, rows)
    BY DEF Sound, Numbered
  <1>2. n \in Nat /\ \A r \in rows : r.seq \in 1..n
    BY <1>1, ListedRows
  <1>3. PICK m \in Nat : part = UpTo(rows, m) /\ (m = 0 \/ \E r \in rows : r.seq = m)
    BY DEF PrefixOf
  <1>4. m \in 0..n
    BY <1>2, <1>3
  <1>5. Numbered(part)
    BY <1>1, <1>3, <1>4, PartIsListed DEF Numbered
  <1>6. part \subseteq rows /\ \A r \in rows : r \in part <=> r.seq <= m
    BY <1>3 DEF UpTo
  <1>7. Linked(part)
    <2> SUFFICES ASSUME NEW r \in part, r.seq # 1
                 PROVE  \E s \in part : s.seq = r.seq - 1 /\ r.prev = s.hash
      BY <1>6 DEF Linked, Sound
    <2>1. PICK s \in rows : s.seq = r.seq - 1 /\ r.prev = s.hash
      BY <1>6 DEF Linked, Sound
    <2>2. s \in part
      BY <1>2, <1>6, <2>1
    <2> QED BY <2>1, <2>2
  <1> QED BY <1>5, <1>6, <1>7 DEF Sound

(* The number of a row that follows has not been given.                    *)
LEMMA NextNumber ==
  ASSUME NEW rows, Numbered(rows), NEW row, row.seq = LastOf(ChainOf(rows)).seq + 1
  PROVE  /\ row.seq \in Nat \ {0} /\ \A r \in rows : r.seq \in Nat /\ r.seq < row.seq
         /\ \A m \in Nat : m < row.seq => UpTo(rows \cup {row}, m) = UpTo(rows, m)
  <1>1. PICK n, chain : Lists(chain, n, rows)
    BY DEF Numbered
  <1>2. n \in Nat /\ (\A r \in rows : r.seq \in 1..n) /\ row.seq = n + 1
    BY <1>1, ListedRows, HeadOfList
  <1>3. ASSUME NEW m \in Nat, m < row.seq PROVE UpTo(rows \cup {row}, m) = UpTo(rows, m)
    BY <1>2, <1>3 DEF UpTo
  <1> QED BY <1>2, <1>3

LEMMA MoreIsSound ==
  ASSUME NEW rows, Sound(rows), NEW row, IsRow(row), row.hash = DigestOf(row),
         Follows(row, LastOf(ChainOf(rows)))
  PROVE  Sound(rows \cup {row})
  <1>1. PICK n, chain : Lists(chain, n, rows)
    BY DEF Sound, Numbered
  <1>2. /\ n \in Nat /\ chain \in [1..n -> rows] /\ \A i \in 1..n : chain[i].seq = i
        /\ LastOf(ChainOf(rows)) = (IF n = 0 THEN Genesis ELSE chain[n])
        /\ LastOf(ChainOf(rows)).seq = n
    BY <1>1, ListedRows, HeadOfList
  <1>3. row.seq = n + 1 /\ row.prev = LastOf(ChainOf(rows)).hash
    BY <1>2 DEF Follows
  <1>4. Numbered(rows \cup {row})
    BY <1>1, <1>3, MoreIsListed DEF Numbered
  <1>5. Linked(rows \cup {row})
    <2>1. CASE n = 0
      <3>1. row.seq = 1 /\ row.prev = Genesis.hash
        BY <1>2, <1>3, <2>1
      <3> QED BY <3>1 DEF Sound, Linked
    <2>2. CASE n # 0
      <3>1. chain[n] \in rows /\ chain[n].seq = row.seq - 1 /\ row.prev = chain[n].hash
        BY <1>2, <1>3, <2>2
      <3>2. row.seq # 1
        BY <1>2, <1>3, <2>2
      <3> QED BY <3>1, <3>2 DEF Sound, Linked
    <2> QED BY <2>1, <2>2
  <1> QED BY <1>4, <1>5 DEF Sound

LEMMA PrefixOfItself ==
  ASSUME NEW rows, Numbered(rows)
  PROVE  PrefixOf(rows, rows)
  <1>1. PICK n, chain : Lists(chain, n, rows)
    BY DEF Numbered
  <1>2. /\ n \in Nat /\ chain \in [1..n -> rows] /\ \A i \in 1..n : chain[i].seq = i
        /\ \A r \in rows : r.seq \in 1..n
    BY <1>1, ListedRows
  <1>3. rows = UpTo(rows, n)
    BY <1>2 DEF UpTo
  <1>4. n = 0 \/ \E r \in rows : r.seq = n
    <2> SUFFICES ASSUME n # 0 PROVE \E r \in rows : r.seq = n
      OBVIOUS
    <2>1. n \in 1..n
      BY <1>2
    <2> QED BY <1>2, <2>1
  <1> QED BY <1>2, <1>3, <1>4 DEF PrefixOf

LEMMA PrefixOfMore ==
  ASSUME NEW rows, Numbered(rows), NEW row, row.seq = LastOf(ChainOf(rows)).seq + 1,
         NEW part, PrefixOf(part, rows)
  PROVE  PrefixOf(part, rows \cup {row})
  <1>1. PICK m \in Nat : part = UpTo(rows, m) /\ (m = 0 \/ \E r \in rows : r.seq = m)
    BY DEF PrefixOf
  <1>2. row.seq \in Nat \ {0} /\ \A r \in rows : r.seq \in Nat /\ r.seq < row.seq
    BY NextNumber
  <1>3. m < row.seq
    BY <1>1, <1>2
  <1>4. UpTo(rows \cup {row}, m) = UpTo(rows, m)
    BY <1>3, NextNumber
  <1> QED BY <1>1, <1>4 DEF PrefixOf

LEMMA AnchoredInMore ==
  ASSUME NEW rows, Numbered(rows), NEW row, row.seq = LastOf(ChainOf(rows)).seq + 1,
         NEW c, c.covered \in Nat, Anchored(rows, c)
  PROVE  Anchored(rows \cup {row}, c)
  <1>1. c.covered > 0 => \E r \in rows : r.seq = c.covered /\ r.hash = c.head
    BY DEF Anchored
  <1>2. row.seq \in Nat \ {0} /\ \A r \in rows : r.seq \in Nat /\ r.seq < row.seq
    BY NextNumber
  <1>3. c.covered < row.seq
    BY <1>1, <1>2
  <1>4. UpTo(rows \cup {row}, c.covered) = UpTo(rows, c.covered)
    BY <1>3, NextNumber
  <1> QED BY <1>1, <1>4 DEF Anchored

(* A checkpoint that covers no more than the rows read.                    *)
LEMMA AnchoredInPrefix ==
  ASSUME NEW rows, Numbered(rows), NEW part, PrefixOf(part, rows),
         NEW c, c.covered \in Nat, Anchored(rows, c), \E r \in part : ~(r.seq < c.covered)
  PROVE  Anchored(part, c)
  <1>1. PICK m \in Nat : part = UpTo(rows, m)
    BY DEF PrefixOf
  <1>2. \A r \in rows : r.seq \in Nat
    <2>1. PICK n, chain : Lists(chain, n, rows)
      BY DEF Numbered
    <2> QED BY <2>1, ListedRows
  <1>3. c.covered <= m
    BY <1>1, <1>2 DEF UpTo
  <1>4. UpTo(part, c.covered) = UpTo(rows, c.covered)
    BY <1>1, <1>2, <1>3 DEF UpTo
  <1>5. \A r \in rows : r.seq = c.covered => r \in part
    BY <1>1, <1>3 DEF UpTo
  <1>6. c.covered > 0 => \E r \in part : r.seq = c.covered /\ r.hash = c.head
    BY <1>5 DEF Anchored
  <1> QED BY <1>4, <1>6 DEF Anchored

(* A checkpoint of a prefix.                                               *)
LEMMA AnchoredFromPrefix ==
  ASSUME NEW rows, Numbered(rows), NEW part, PrefixOf(part, rows), NEW c,
         c.covered = LastOf(ChainOf(part)).seq, c.head = LastOf(ChainOf(part)).hash,
         c.root = RootOf(HashesOf(ChainOf(part)))
  PROVE  c.covered \in Nat /\ Anchored(rows, c)
  <1>1. PICK n, chain : Lists(chain, n, rows)
    BY DEF Numbered
  <1>2. PICK m \in Nat : part = UpTo(rows, m) /\ (m = 0 \/ \E r \in rows : r.seq = m)
    BY DEF PrefixOf
  <1>3. m \in 0..n /\ n \in Nat
    BY <1>1, <1>2, ListedRows
  <1> DEFINE list == [i \in 1..m |-> chain[i]]
  <1>4. Lists(list, m, part)
    BY <1>1, <1>2, <1>3, PartIsListed
  <1> HIDE DEF list
  <1>5. /\ ChainOf(part) = list /\ Len(list) = m /\ list \in [1..m -> part]
        /\ \A i \in 1..m : list[i].seq = i
        /\ LastOf(ChainOf(part)) = (IF m = 0 THEN Genesis ELSE list[m])
        /\ LastOf(ChainOf(part)).seq = m
    BY <1>4, ChainIsList, ListedRows, HeadOfList
  <1>6. c.covered = m /\ UpTo(rows, c.covered) = part
    BY <1>2, <1>5
  <1>7. ASSUME c.covered > 0 PROVE \E r \in rows : r.seq = c.covered /\ r.hash = c.head
    <2>1. m \in 1..m /\ m # 0
      BY <1>6, <1>7
    <2>2. list[m] \in rows /\ list[m].seq = m /\ c.head = list[m].hash
      BY <1>2, <1>5, <2>1 DEF UpTo
    <2> QED BY <1>6, <2>2
  <1> QED BY <1>5, <1>6, <1>7 DEF Anchored

-------------------------------------------------------------------------------
(* The two locks, and what they give                                       *)

(* The tables as functions and sequences.                                  *)
Shape ==
    /\ tx = [w \in Workers |-> tx[w]]
    /\ \E S : points \in Seq(S)
    /\ disturbed \in {"nothing"} \cup AllDisturbances

Locked ==
    \A w \in Workers :
        /\ Doing(w, "sealing") \/ Doing(w, "sealed") => lock = w
        /\ Doing(w, "anchoring") \/ Doing(w, "drafted") => gate = w

LEMMA Moves ==
  ASSUME Shape, NEW w \in Workers, NEW step, Go(w, step)
  PROVE  /\ tx' = [v \in Workers |-> tx'[v]]
         /\ tx'[w] = step /\ \A v \in Workers \ {w} : tx'[v] = tx[v]
  BY DEF Shape, Go

Work(w) == Record(w) \/ Verify(w) \/ Anchor(w) \/ End(w)

LEMMA OthersWait ==
  ASSUME Shape, NEW w \in Workers, Work(w)
  PROVE  tx' = [v \in Workers |-> tx'[v]] /\ \A v \in Workers \ {w} : tx'[v] = tx[v]
  <1>1. \E step : Go(w, step)
    BY DEF Work, Record, TakeLock, Seal, CommitEntry, Verify, ReadEntries, ReadPoints, Anchor,
           TakeGate, Draft, CommitPoint, End
  <1> QED BY <1>1, Moves

Forgotten(rows, u) == {IF r.user = u THEN [r EXCEPT !.user = NoUser] ELSE r : r \in rows}

LEMMA DisturbKeeps ==
  ASSUME Disturb
  PROVE  /\ disturbed = "nothing" /\ UNCHANGED <<points, lock, gate, notarized, tx>>
         /\ \/ disturbed' \in {"edit", "rewrite", "lose"}
            \/ disturbed' = "forget" /\ key' = key
               /\ \E u \in Users : log' = Forgotten(log, u)
            \/ disturbed' = "rotate" /\ log' = log
  BY DEF Disturb, Damage, Forget, RotateKey, Disturbance, Forgotten

LEMMA ShapeStep == Shape /\ [Next]_vars => Shape'
  <1> SUFFICES ASSUME Shape, [Next]_vars PROVE Shape'
    OBVIOUS
  <1>1. ASSUME NEW w \in Workers, Work(w) PROVE Shape'
    <2>1. tx' = [v \in Workers |-> tx'[v]]
      BY <1>1, OthersWait
    <2>2. UNCHANGED disturbed
      BY <1>1 DEF Work, Record, TakeLock, Seal, CommitEntry, Verify, ReadEntries, ReadPoints,
                  Anchor, TakeGate, Draft, CommitPoint, End
    <2>3. UNCHANGED points \/ \E c : points' = Append(points, c)
      BY <1>1 DEF Work, Record, TakeLock, Seal, CommitEntry, Verify, ReadEntries, ReadPoints,
                  Anchor, TakeGate, Draft, CommitPoint, End
    <2>4. \E S : points' \in Seq(S)
      <3>1. PICK S : points \in Seq(S)
        BY DEF Shape
      <3>2. CASE UNCHANGED points
        BY <3>1, <3>2
      <3>3. ASSUME NEW c, points' = Append(points, c) PROVE points' \in Seq(S \cup {c})
        BY <3>1, <3>3
      <3> QED BY <2>3, <3>2, <3>3
    <2> QED BY <2>1, <2>2, <2>4 DEF Shape
  <1>2. CASE Disturb
    BY <1>2, DisturbKeeps DEF Shape, AllDisturbances
  <1>3. CASE UNCHANGED vars
    BY <1>3 DEF vars, Shape
  <1> QED BY <1>1, <1>2, <1>3 DEF Next, Work

LEMMA LockedStep == Shape /\ Locked /\ [Next]_vars => Locked'
  <1> SUFFICES ASSUME Shape, Locked, [Next]_vars PROVE Locked'
    OBVIOUS
  <1>1. ASSUME NEW w \in Workers, Work(w) PROVE Locked'
    <2>1. \A v \in Workers \ {w} : tx'[v] = tx[v]
      BY <1>1, OthersWait
    <2>2. ASSUME UNCHANGED <<lock, gate>>,
                 Doing(w, "sealing")' \/ Doing(w, "sealed")'
                   => Doing(w, "sealing") \/ Doing(w, "sealed"),
                 Doing(w, "anchoring")' \/ Doing(w, "drafted")'
                   => Doing(w, "anchoring") \/ Doing(w, "drafted")
          PROVE  Locked'
      BY <2>1, <2>2 DEF Locked, Doing
    <2>3. CASE \E u \in Actors : TakeLock(w, u)
      <3>1. PICK u \in Actors : TakeLock(w, u)
        BY <2>3
      <3>2. tx'[w] = [phase |-> "sealing", user |-> u]
        BY <3>1, Moves DEF TakeLock
      <3>3. lock = Free /\ lock' = w /\ gate' = gate /\ Free \notin Workers
        BY <3>1, AuditAssumption DEF TakeLock, LockFree
      <3>4. ~Doing(w, "anchoring")' /\ ~Doing(w, "drafted")'
        BY <3>2 DEF Doing
      <3>5. \A v \in Workers \ {w} : ~Doing(v, "sealing") /\ ~Doing(v, "sealed")
        BY <3>3 DEF Locked
      <3> QED BY <2>1, <3>3, <3>4, <3>5 DEF Locked, Doing
    <2>4. CASE Seal(w)
      <3>1. tx'[w].phase = "sealed"
        BY <2>4, Moves DEF Seal
      <3> QED BY <2>2, <2>4, <3>1 DEF Seal, Doing
    <2>5. ASSUME Go(w, Idle), lock' = Free, lock = w, UNCHANGED gate PROVE Locked'
      <3>1. tx'[w] = Idle
        BY <2>5, Moves
      <3> QED BY <2>1, <2>5, <3>1 DEF Locked, Doing
    <2>6. CASE CommitEntry(w)
      <3>1. lock = w
        BY <2>6 DEF CommitEntry, Locked
      <3> QED BY <2>5, <2>6, <3>1 DEF CommitEntry
    <2>7. CASE Verify(w)
      <3>1. tx'[w].phase \in {"reading", "reported"}
        BY <2>7, Moves DEF Verify, ReadEntries, ReadPoints
      <3>2. UNCHANGED <<lock, gate>>
        BY <2>7 DEF Verify, ReadEntries, ReadPoints
      <3> QED BY <2>2, <3>1, <3>2 DEF Doing
    <2>8. CASE TakeGate(w)
      <3>1. tx'[w].phase = "anchoring"
        BY <2>8, Moves DEF TakeGate
      <3>2. gate = Free /\ gate' = w /\ lock' = lock /\ Free \notin Workers
        BY <2>8, AuditAssumption DEF TakeGate, LockFree
      <3>3. ~Doing(w, "sealing")' /\ ~Doing(w, "sealed")'
        BY <3>1 DEF Doing
      <3>4. \A v \in Workers \ {w} : ~Doing(v, "anchoring") /\ ~Doing(v, "drafted")
        BY <3>2 DEF Locked
      <3> QED BY <2>1, <3>2, <3>3, <3>4 DEF Locked, Doing
    <2>9. CASE \E force \in BOOLEAN, signer \in Signers : Draft(w, force, signer)
      <3>1. tx'[w].phase = "drafted" /\ Doing(w, "anchoring") /\ UNCHANGED <<lock, gate>>
        BY <2>9, Moves DEF Draft
      <3> QED BY <2>2, <3>1 DEF Doing
    <2>10. CASE CommitPoint(w)
      <3>1. gate = w /\ gate' = Free /\ lock' = lock
        BY <2>10 DEF CommitPoint, Locked
      <3>2. tx'[w] = Idle
        BY <2>10, Moves DEF CommitPoint
      <3> QED BY <2>1, <3>1, <3>2 DEF Locked, Doing
    <2>11. CASE End(w)
      <3>1. tx'[w] = Idle
        BY <2>11, Moves DEF End
      <3>2. /\ \A v \in Workers \ {w} : lock = v => lock' = v
            /\ \A v \in Workers \ {w} : gate = v => gate' = v
        BY <2>11 DEF End
      <3> QED BY <2>1, <3>1, <3>2 DEF Locked, Doing
    <2> QED BY <1>1, <2>3, <2>4, <2>6, <2>7, <2>8, <2>9, <2>10, <2>11 DEF Work, Record, Anchor
  <1>2. CASE Disturb
    BY <1>2, DisturbKeeps DEF Locked, Doing
  <1>3. CASE UNCHANGED vars
    BY <1>3 DEF vars, Locked, Doing
  <1> QED BY <1>1, <1>2, <1>3 DEF Next, Work

(* An account is deleted: numbers and digests stay.                        *)
LEMMA ForgetKeeps ==
  ASSUME NEW rows, Numbered(rows), NEW u
  PROVE  /\ Numbered(Forgotten(rows, u))
         /\ LastOf(ChainOf(Forgotten(rows, u))).seq = LastOf(ChainOf(rows)).seq
         /\ LastOf(ChainOf(Forgotten(rows, u))).hash = LastOf(ChainOf(rows)).hash
  <1> DEFINE other == Forgotten(rows, u)
  <1> DEFINE New(r) == IF r.user = u THEN [r EXCEPT !.user = NoUser] ELSE r
  <1>1. PICK n, chain : Lists(chain, n, rows)
    BY DEF Numbered
  <1>2. /\ n \in Nat /\ chain \in [1..n -> rows] /\ \A i \in 1..n : chain[i].seq = i
        /\ \A r \in rows : IsRow(r) /\ r.seq \in 1..n /\ chain[r.seq] = r
    BY <1>1, ListedRows
  <1>3. ASSUME NEW r \in rows
        PROVE  New(r).seq = r.seq /\ New(r).hash = r.hash /\ IsRow(New(r))
    <2>1. r = [seq |-> r.seq, prev |-> r.prev, user |-> r.user, text |-> r.text, hash |-> r.hash]
      BY <1>2 DEF IsRow
    <2>2. [r EXCEPT !.user = NoUser] =
            [seq |-> r.seq, prev |-> r.prev, user |-> NoUser, text |-> r.text, hash |-> r.hash]
      BY <2>1
    <2> QED BY <2>1, <2>2 DEF IsRow
  <1> DEFINE list == [i \in 1..n |-> New(chain[i])]
  <1>4. other = {New(r) : r \in rows}
    BY DEF Forgotten
  <1> HIDE DEF New, other
  <1>5. Lists(list, n, other)
    <2>1. list \in [1..n -> other] /\ \A i \in 1..n : list[i].seq = i
      BY <1>2, <1>3, <1>4
    <2>2. ASSUME NEW s \in other PROVE IsRow(s) /\ \E i \in 1..n : s = list[i]
      <3>1. PICK r \in rows : s = New(r)
        BY <1>4
      <3> QED BY <1>2, <1>3, <3>1
    <2> QED BY <1>2, <2>1, <2>2 DEF Lists
  <1>6. /\ LastOf(ChainOf(rows)) = (IF n = 0 THEN Genesis ELSE chain[n])
        /\ LastOf(ChainOf(other)) = (IF n = 0 THEN Genesis ELSE list[n])
        /\ LastOf(ChainOf(other)).seq = n /\ LastOf(ChainOf(rows)).seq = n
    BY <1>1, <1>5, HeadOfList
  <1>7. n # 0 => chain[n] \in rows /\ list[n] = New(chain[n])
    <2>1. n # 0 => n \in 1..n
      BY <1>2
    <2> QED BY <1>2, <2>1
  <1>8. n # 0 => list[n].hash = chain[n].hash
    BY <1>3, <1>7
  <1>9. /\ Numbered(other)
        /\ LastOf(ChainOf(other)).seq = LastOf(ChainOf(rows)).seq
        /\ LastOf(ChainOf(other)).hash = LastOf(ChainOf(rows)).hash
    BY <1>5, <1>6, <1>8 DEF Numbered
  <1> QED BY <1>9 DEF other

(* A row about to be stored continues the log, a checkpoint the others.    *)
Continued ==
    /\ \A w \in Workers : Doing(w, "sealed") =>
         IsRow(tx[w].row) /\ tx[w].row.hash = DigestOf(tx[w].row)
    /\ ~Damaged => /\ Numbered(log)
                   /\ \A w \in Workers : Doing(w, "sealed") =>
                        Follows(tx[w].row, LastOf(ChainOf(log)))
    /\ \A w \in Workers : Doing(w, "drafted") => Follows(tx[w].point, LastOf(points))

LEMMA ContinuedStep == Shape /\ Locked /\ Continued /\ [Next]_vars => Continued'
  <1> SUFFICES ASSUME Shape, Locked, Continued, [Next]_vars PROVE Continued'
    OBVIOUS
  <1>1. ASSUME NEW w \in Workers, Work(w) PROVE Continued'
    <2>1. \A v \in Workers \ {w} : tx'[v] = tx[v]
      BY <1>1, OthersWait
    <2>2. ASSUME UNCHANGED <<log, points, disturbed>>, ~Doing(w, "sealed")',
                 ~Doing(w, "drafted")'
          PROVE  Continued'
      BY <2>1, <2>2 DEF Continued, Doing, Damaged
    <2>3. CASE \E u \in Actors : TakeLock(w, u)
      <3>1. tx'[w].phase = "sealing" /\ UNCHANGED <<log, points, disturbed>>
        BY <2>3, Moves DEF TakeLock
      <3> QED BY <2>2, <3>1 DEF Doing
    <2>4. CASE Seal(w)
      <3> DEFINE head == LastOf(ChainOf(log))
                 row == Sealed([seq |-> head.seq + 1, prev |-> head.hash,
                                user |-> tx[w].user, text |-> "original"])
      <3>1. tx'[w] = [phase |-> "sealed", row |-> row]
        BY <2>4, Moves DEF Seal
      <3>2. /\ IsRow(row) /\ row.hash = DigestOf(row) /\ Follows(row, head)
        BY DEF IsRow, DigestOf, Sealed, Follows
      <3>3. UNCHANGED <<log, points, disturbed>> /\ ~Doing(w, "drafted")'
        BY <2>4, <3>1 DEF Seal, Doing
      <3>4. tx'[w].row = row
        BY <3>1
      <3> HIDE DEF row
      <3> QED BY <2>1, <3>2, <3>3, <3>4 DEF Continued, Doing, Damaged
    <2>5. CASE CommitEntry(w)
      <3>1. /\ tx'[w] = Idle /\ log' = log \cup {tx[w].row} /\ UNCHANGED <<points, disturbed>>
            /\ Doing(w, "sealed") /\ lock = w
        BY <2>5, Moves DEF CommitEntry, Locked
      <3>2. \A v \in Workers : ~Doing(v, "sealed")'
        BY <2>1, <3>1 DEF Locked, Doing
      <3>3. ~Damaged => Numbered(log')
        <4> SUFFICES ASSUME ~Damaged PROVE Numbered(log')
          OBVIOUS
        <4>1. PICK n, chain : Lists(chain, n, log)
          BY DEF Continued, Numbered
        <4>2. tx[w].row.seq = n + 1 /\ IsRow(tx[w].row)
          BY <3>1, <4>1, HeadOfList DEF Continued, Follows
        <4> QED BY <3>1, <4>1, <4>2, MoreIsListed DEF Numbered
      <3> QED BY <2>1, <3>1, <3>2, <3>3 DEF Continued, Doing, Damaged
    <2>6. CASE Verify(w)
      <3>1. tx'[w].phase \in {"reading", "reported"}
        BY <2>6, Moves DEF Verify, ReadEntries, ReadPoints
      <3>2. UNCHANGED <<log, points, disturbed>>
        BY <2>6 DEF Verify, ReadEntries, ReadPoints
      <3> QED BY <2>2, <3>1, <3>2 DEF Doing
    <2>7. CASE TakeGate(w)
      <3>1. tx'[w].phase = "anchoring" /\ UNCHANGED <<log, points, disturbed>>
        BY <2>7, Moves DEF TakeGate
      <3> QED BY <2>2, <3>1 DEF Doing
    <2>8. CASE \E force \in BOOLEAN, signer \in Signers : Draft(w, force, signer)
      <3>1. /\ tx'[w].phase = "drafted" /\ UNCHANGED <<log, points, disturbed>>
            /\ Follows(tx'[w].point, LastOf(points))
        BY <2>8, Moves DEF Draft, Follows
      <3> QED BY <2>1, <3>1 DEF Continued, Doing, Damaged
    <2>9. CASE CommitPoint(w)
      <3>1. /\ tx'[w] = Idle /\ UNCHANGED <<log, disturbed>> /\ Doing(w, "drafted") /\ gate = w
        BY <2>9, Moves DEF CommitPoint, Locked
      <3>2. \A v \in Workers : ~Doing(v, "drafted")'
        BY <2>1, <3>1 DEF Locked, Doing
      <3> QED BY <2>1, <3>1, <3>2 DEF Continued, Doing, Damaged
    <2>10. CASE End(w)
      <3>1. tx'[w] = Idle /\ UNCHANGED <<log, points, disturbed>>
        BY <2>10, Moves DEF End
      <3> QED BY <2>2, <3>1 DEF Doing
    <2> QED BY <1>1, <2>3, <2>4, <2>5, <2>6, <2>7, <2>8, <2>9, <2>10 DEF Work, Record, Anchor
  <1>2. CASE Disturb
    <2>1. disturbed = "nothing" /\ UNCHANGED <<points, tx>>
      BY <1>2, DisturbKeeps
    <2>2. ~Damaged /\ Numbered(log)
      BY <2>1 DEF Damaged, Continued
    <2>3. ASSUME ~Damaged'
          PROVE  /\ Numbered(log')
                 /\ LastOf(ChainOf(log')).seq = LastOf(ChainOf(log)).seq
                 /\ LastOf(ChainOf(log')).hash = LastOf(ChainOf(log)).hash
      <3>1. CASE disturbed' = "forget"
        <4>1. PICK u \in Users : log' = Forgotten(log, u)
          BY <1>2, <3>1, DisturbKeeps
        <4>2. Numbered(log)
          BY <2>2
        <4> QED BY <4>1, <4>2, ForgetKeeps, Zenon
      <3>2. CASE disturbed' = "rotate"
        <4>1. log' = log
          BY <1>2, <3>2, DisturbKeeps
        <4> QED BY <2>2, <4>1
      <3> QED BY <1>2, <2>3, <3>1, <3>2, DisturbKeeps DEF Damaged
    <2> QED BY <2>1, <2>2, <2>3 DEF Continued, Doing, Follows
  <1>3. CASE UNCHANGED vars
    BY <1>3 DEF vars, Continued, Doing, Damaged
  <1> QED BY <1>1, <1>2, <1>3 DEF Next, Work

LEMMA LocksGoverned == Spec => [](Shape /\ Locked /\ Continued)
  <1>1. ASSUME Init PROVE Shape /\ Locked /\ Continued
    <2>1. points = <<>> /\ log = {} /\ disturbed = "nothing" /\ tx = [w \in Workers |-> Idle]
      BY <1>1 DEF Init
    <2>2. points \in Seq({})
      BY <2>1
    <2>3. Shape
      BY <2>1, <2>2 DEF Shape
    <2>4. \A w \in Workers : tx[w] = Idle
      BY <2>1
    <2>5. Numbered(log)
      <3>1. <<>> \in [1..0 -> log] /\ (\A i \in 1..0 : FALSE) /\ (\A r \in log : FALSE)
        BY <2>1
      <3>2. Lists(<<>>, 0, log)
        BY <3>1 DEF Lists
      <3> QED BY <3>2 DEF Numbered
    <2> QED BY <2>3, <2>4, <2>5 DEF Locked, Continued, Doing
  <1> QED BY <1>1, ShapeStep, LockedStep, ContinuedStep, PTL DEF Spec

(* SealedRecordsFit: holding the lock of the log (recordAuditEvent) or of  *)
(* the checkpoints, a worker stores what continues the stored rows, so the *)
(* unique constraints roll nobody back.                                    *)
THEOREM EntriesContinueTheLog == Spec => []SealedRecordsFit
  <1>1. Continued => SealedRecordsFit
    BY DEF Continued, SealedRecordsFit
  <1> QED BY <1>1, LocksGoverned, PTL

-------------------------------------------------------------------------------
(* The checkpoints form a chain of their own                               *)

LEMMA Appended ==
  ASSUME NEW S, NEW seq \in Seq(S), NEW c
  PROVE  /\ Len(Append(seq, c)) = Len(seq) + 1 /\ Len(seq) \in Nat
         /\ \A i \in 1..Len(seq) : /\ Append(seq, c)[i] = seq[i]
                                   /\ Before(Append(seq, c), i) = Before(seq, i)
         /\ Append(seq, c)[Len(seq) + 1] = c
         /\ Before(Append(seq, c), Len(seq) + 1) = LastOf(seq)
  <1>1. /\ Len(Append(seq, c)) = Len(seq) + 1 /\ Len(seq) \in Nat
        /\ \A i \in 1..Len(seq) : Append(seq, c)[i] = seq[i]
        /\ Append(seq, c)[Len(seq) + 1] = c
    <2>1. seq \in Seq(S \cup {c}) /\ c \in S \cup {c}
      OBVIOUS
    <2> QED BY <2>1
  <1>2. ASSUME NEW i \in 1..Len(seq) PROVE Before(Append(seq, c), i) = Before(seq, i)
    <2>1. CASE i = 1
      BY <2>1 DEF Before
    <2>2. CASE i # 1
      <3>1. i - 1 \in 1..Len(seq)
        BY <1>1, <2>2
      <3> QED BY <1>1, <2>2, <3>1 DEF Before
    <2> QED BY <2>1, <2>2
  <1>3. Before(Append(seq, c), Len(seq) + 1) = LastOf(seq)
    <2>1. CASE seq = <<>>
      BY <2>1 DEF Before, LastOf
    <2>2. CASE seq # <<>>
      <3>1. Len(seq) # 0 /\ Len(seq) \in 1..Len(seq) /\ Len(seq) + 1 # 1
        BY <1>1, <2>2
      <3>2. (Len(seq) + 1) - 1 = Len(seq)
        BY <1>1
      <3>3. Append(seq, c)[(Len(seq) + 1) - 1] = seq[Len(seq)]
        BY <1>1, <3>1, <3>2
      <3> QED BY <2>2, <3>1, <3>3 DEF Before, LastOf, Last
    <2> QED BY <2>1, <2>2
  <1> QED BY <1>1, <1>2, <1>3

(* Each checkpoint continues the one before it, and a reader knows some of *)
(* those there are.                                                        *)
Chained ==
    /\ \A i \in 1..Len(points) :
         Follows(points[i], Before(points, i)) /\ points[i].hash = DigestOfPoint(points[i])
    /\ \A w \in Workers : Doing(w, "reported") => tx[w].seen \in 0..Len(points)

LEMMA ChainedStep == Shape /\ Continued /\ Chained /\ [Next]_vars => Chained'
  <1> SUFFICES ASSUME Shape, Continued, Chained, [Next]_vars PROVE Chained'
    OBVIOUS
  <1>1. ASSUME NEW w \in Workers, Work(w) PROVE Chained'
    <2>1. \A v \in Workers \ {w} : tx'[v] = tx[v]
      BY <1>1, OthersWait
    <2>2. ASSUME UNCHANGED points, ~Doing(w, "reported")' PROVE Chained'
      BY <2>1, <2>2 DEF Chained, Doing
    <2>3. CASE Record(w)
      <3>1. UNCHANGED points /\ ~Doing(w, "reported")'
        <4>1. UNCHANGED points
          BY <2>3 DEF Record, TakeLock, Seal, CommitEntry
        <4>2. CASE \E u \in Actors : TakeLock(w, u)
          <5>1. tx'[w].phase = "sealing"
            BY <4>2, Moves DEF TakeLock
          <5> QED BY <4>1, <5>1 DEF Doing
        <4>3. CASE Seal(w)
          <5>1. tx'[w].phase = "sealed"
            BY <4>3, Moves DEF Seal
          <5> QED BY <4>1, <5>1 DEF Doing
        <4>4. CASE CommitEntry(w)
          <5>1. tx'[w] = Idle
            BY <4>4, Moves DEF CommitEntry
          <5> QED BY <4>1, <5>1 DEF Doing
        <4> QED BY <2>3, <4>2, <4>3, <4>4 DEF Record
      <3> QED BY <2>2, <3>1
    <2>4. CASE ReadEntries(w) \/ TakeGate(w)
               \/ \E force \in BOOLEAN, signer \in Signers : Draft(w, force, signer)
      <3>1. tx'[w].phase \in {"reading", "anchoring", "drafted"} /\ UNCHANGED points
        <4>1. CASE ReadEntries(w)
          BY <4>1, Moves DEF ReadEntries
        <4>2. CASE TakeGate(w)
          BY <4>2, Moves DEF TakeGate
        <4>3. ASSUME NEW force \in BOOLEAN, NEW signer \in Signers, Draft(w, force, signer)
              PROVE  tx'[w].phase = "drafted" /\ UNCHANGED points
          BY <4>3, Moves DEF Draft
        <4> QED BY <2>4, <4>1, <4>2, <4>3
      <3> QED BY <2>2, <3>1 DEF Doing
    <2>5. CASE ReadPoints(w)
      <3>1. tx'[w].seen = Len(points) /\ UNCHANGED points
        BY <2>5, Moves DEF ReadPoints
      <3>2. Len(points) \in Nat
        BY DEF Shape
      <3> QED BY <2>1, <3>1, <3>2 DEF Chained, Doing
    <2>6. CASE CommitPoint(w)
      <3> DEFINE point == tx[w].point
                 c == [seq |-> point.seq, prev |-> point.prev, covered |-> point.covered,
                       head |-> point.head, root |-> point.root, hash |-> DigestOfPoint(point),
                       key |-> tx[w].key]
      <3>1. points' = Append(points, c) /\ tx'[w] = Idle /\ Doing(w, "drafted")
        BY <2>6, Moves DEF CommitPoint
      <3>2. Follows(c, LastOf(points)) /\ c.hash = DigestOfPoint(c)
        BY <3>1 DEF Continued, Follows, DigestOfPoint
      <3> HIDE DEF c
      <3>3. /\ Len(points') = Len(points) + 1 /\ Len(points) \in Nat
            /\ \A i \in 1..Len(points) : /\ points'[i] = points[i]
                                         /\ Before(points', i) = Before(points, i)
            /\ points'[Len(points) + 1] = c
            /\ Before(points', Len(points) + 1) = LastOf(points)
        BY <3>1, Appended DEF Shape
      <3>4. ASSUME NEW i \in 1..Len(points')
            PROVE  /\ Follows(points'[i], Before(points', i))
                   /\ points'[i].hash = DigestOfPoint(points'[i])
        <4>1. i = Len(points) + 1 \/ i \in 1..Len(points)
          BY <3>3
        <4>2. CASE i = Len(points) + 1
          BY <3>2, <3>3, <4>2
        <4>3. CASE i \in 1..Len(points)
          <5>1. /\ Follows(points[i], Before(points, i))
                /\ points[i].hash = DigestOfPoint(points[i])
            BY <4>3 DEF Chained
          <5> QED BY <3>3, <4>3, <5>1
        <4> QED BY <4>1, <4>2, <4>3
      <3>5. ASSUME NEW v \in Workers, Doing(v, "reported")'
            PROVE  tx'[v].seen \in 0..Len(points')
        <4>1. v # w /\ tx'[v] = tx[v] /\ Doing(v, "reported")
          BY <2>1, <3>1, <3>5 DEF Doing
        <4>2. tx[v].seen \in 0..Len(points)
          BY <4>1 DEF Chained
        <4> QED BY <3>3, <4>1, <4>2
      <3> QED BY <3>4, <3>5 DEF Chained
    <2>7. CASE End(w)
      <3>1. tx'[w] = Idle /\ UNCHANGED points
        BY <2>7, Moves DEF End
      <3> QED BY <2>2, <3>1 DEF Doing
    <2> QED BY <1>1, <2>3, <2>4, <2>5, <2>6, <2>7 DEF Work, Verify, Anchor
  <1>2. CASE Disturb
    BY <1>2, DisturbKeeps DEF Chained, Doing
  <1>3. CASE UNCHANGED vars
    BY <1>3 DEF vars, Chained, Doing
  <1> QED BY <1>1, <1>2, <1>3 DEF Next, Work

-------------------------------------------------------------------------------
(* What the rows, the readers and the checkpoints have in common           *)

Untampered == disturbed \in {"nothing", "rotate"}

HoldsRows(w) ==
    Doing(w, "reading") \/ Doing(w, "reported") \/ Doing(w, "anchoring") \/ Doing(w, "drafted")

(* The log is sound, every reader has a prefix of it, and every checkpoint *)
(* is anchored in it, also one that is about to be stored.                 *)
Rooted(rows) ==
    /\ Sound(rows)
    /\ \A i \in 1..Len(points) : points[i].covered \in Nat /\ Anchored(rows, points[i])

Held(w, rows) ==
    /\ HoldsRows(w) => PrefixOf(tx[w].rows, rows)
    /\ Doing(w, "drafted") => tx[w].point.covered \in Nat /\ Anchored(rows, tx[w].point)

Reliable == Untampered => Rooted(log) /\ \A w \in Workers : Held(w, log)

LEMMA ReliableStep == Shape /\ Continued /\ Reliable /\ [Next]_vars => Reliable'
  <1> SUFFICES ASSUME Shape, Continued, Reliable, [Next]_vars PROVE Reliable'
    OBVIOUS
  <1>1. ASSUME NEW w \in Workers, Work(w), Untampered PROVE Reliable'
    <2>1. \A v \in Workers \ {w} : tx'[v] = tx[v]
      BY <1>1, OthersWait
    <2>2. /\ Rooted(log) /\ \A v \in Workers : Held(v, log)
      BY <1>1 DEF Reliable
    <2>3. Numbered(log) /\ ~Damaged
      BY <1>1, <2>2 DEF Rooted, Sound, Damaged, Untampered
    <2>4. ASSUME UNCHANGED <<log, points>>, Held(w, log)' PROVE Reliable'
      BY <2>1, <2>2, <2>4 DEF Reliable, Rooted, Held, HoldsRows, Doing
    <2>5. ASSUME tx'[w] = Idle \/ tx'[w].phase \in {"sealing", "sealed"} PROVE Held(w, log)'
      BY <2>5 DEF Held, HoldsRows, Doing
    <2>6. CASE \E u \in Actors : TakeLock(w, u)
      <3>1. tx'[w].phase = "sealing" /\ UNCHANGED <<log, points>>
        BY <2>6, Moves DEF TakeLock
      <3> QED BY <2>4, <2>5, <3>1
    <2>7. CASE Seal(w)
      <3>1. tx'[w].phase = "sealed" /\ UNCHANGED <<log, points>>
        BY <2>7, Moves DEF Seal
      <3> QED BY <2>4, <2>5, <3>1
    <2>8. CASE CommitEntry(w)
      <3> DEFINE row == tx[w].row
      <3>1. tx'[w] = Idle /\ log' = log \cup {row} /\ UNCHANGED points /\ Doing(w, "sealed")
        BY <2>8, Moves DEF CommitEntry
      <3>2. IsRow(row) /\ row.hash = DigestOf(row) /\ Follows(row, LastOf(ChainOf(log)))
        BY <2>3, <3>1 DEF Continued
      <3>3. row.seq = LastOf(ChainOf(log)).seq + 1
        BY <3>2 DEF Follows
      <3> HIDE DEF row
      <3>4. Sound(log \cup {row})
        <4>1. Sound(log)
          BY <2>2 DEF Rooted
        <4> QED BY <3>2, <4>1, MoreIsSound, Zenon
      <3>5. ASSUME NEW c, c.covered \in Nat, Anchored(log, c)
            PROVE  Anchored(log \cup {row}, c)
        BY <2>3, <3>3, <3>5, AnchoredInMore, Zenon
      <3>6. ASSUME NEW part, PrefixOf(part, log) PROVE PrefixOf(part, log \cup {row})
        BY <2>3, <3>3, <3>6, PrefixOfMore, Zenon
      <3>7. Rooted(log)'
        BY <2>2, <3>1, <3>4, <3>5 DEF Rooted
      <3>8. ASSUME NEW v \in Workers PROVE Held(v, log)'
        <4>1. CASE v = w
          BY <2>5, <3>1, <4>1
        <4>2. CASE v # w
          <5>1. tx'[v] = tx[v] /\ Held(v, log)
            BY <2>1, <2>2, <4>2
          <5> QED BY <3>1, <3>5, <3>6, <5>1 DEF Held, HoldsRows, Doing
        <4> QED BY <4>1, <4>2
      <3> QED BY <3>7, <3>8 DEF Reliable
    <2>9. CASE ReadEntries(w)
      <3>1. tx'[w] = [phase |-> "reading", rows |-> log] /\ UNCHANGED <<log, points>>
        BY <2>9, Moves DEF ReadEntries
      <3>2. tx'[w].phase = "reading" /\ tx'[w].rows = log
        BY <3>1
      <3>3. PrefixOf(log, log)
        BY <2>3, PrefixOfItself
      <3> QED BY <2>4, <3>1, <3>2, <3>3 DEF Held, HoldsRows, Doing
    <2>10. CASE ReadPoints(w) \/ TakeGate(w)
      <3>1. /\ tx'[w].phase \in {"reported", "anchoring"} /\ tx'[w].rows = tx[w].rows
            /\ UNCHANGED <<log, points>> /\ HoldsRows(w)
        <4>1. CASE ReadPoints(w)
          BY <4>1, Moves DEF ReadPoints, HoldsRows
        <4>2. CASE TakeGate(w)
          BY <4>2, Moves DEF TakeGate, HoldsRows
        <4> QED BY <2>10, <4>1, <4>2
      <3>2. PrefixOf(tx'[w].rows, log')
        BY <2>2, <3>1 DEF Held
      <3> QED BY <2>4, <3>1, <3>2 DEF Held, Doing
    <2>11. ASSUME NEW force \in BOOLEAN, NEW signer \in Signers, Draft(w, force, signer)
           PROVE  Reliable'
      <3> DEFINE chain == ChainOf(tx[w].rows)
                 last == LastOf(points)
                 point == [seq |-> last.seq + 1, prev |-> last.hash,
                           covered |-> LastOf(chain).seq, head |-> LastOf(chain).hash,
                           root |-> RootOf(HashesOf(chain))]
      <3>1. /\ tx'[w] = [phase |-> "drafted", rows |-> tx[w].rows, point |-> point,
                         key |-> signer]
            /\ UNCHANGED <<log, points>> /\ HoldsRows(w)
        BY <2>11, Moves DEF Draft, HoldsRows
      <3>2. /\ tx'[w].phase = "drafted" /\ tx'[w].rows = tx[w].rows /\ tx'[w].point = point
        BY <3>1
      <3>3. /\ point.covered = LastOf(ChainOf(tx[w].rows)).seq
            /\ point.head = LastOf(ChainOf(tx[w].rows)).hash
            /\ point.root = RootOf(HashesOf(ChainOf(tx[w].rows)))
        OBVIOUS
      <3>4. PrefixOf(tx[w].rows, log)
        BY <2>2, <3>1 DEF Held
      <3> HIDE DEF chain, last, point
      <3>5. point.covered \in Nat /\ Anchored(log, point)
        BY <2>3, <3>3, <3>4, AnchoredFromPrefix, Zenon
      <3> QED BY <2>4, <3>1, <3>2, <3>4, <3>5 DEF Held, Doing
    <2>12. CASE CommitPoint(w)
      <3> DEFINE point == tx[w].point
                 c == [seq |-> point.seq, prev |-> point.prev, covered |-> point.covered,
                       head |-> point.head, root |-> point.root, hash |-> DigestOfPoint(point),
                       key |-> tx[w].key]
      <3>1. /\ points' = Append(points, c) /\ tx'[w] = Idle /\ log' = log
            /\ Doing(w, "drafted")
        BY <2>12, Moves DEF CommitPoint
      <3>2. c.covered \in Nat /\ Anchored(log, c)
        <4>1. point.covered \in Nat /\ Anchored(log, point)
          BY <2>2, <3>1 DEF Held
        <4>2. c.covered = point.covered /\ c.head = point.head /\ c.root = point.root
          OBVIOUS
        <4> HIDE DEF c
        <4> QED BY <4>1, <4>2 DEF Anchored
      <3> HIDE DEF c
      <3>3. /\ Len(points') = Len(points) + 1 /\ Len(points) \in Nat
            /\ \A i \in 1..Len(points) : points'[i] = points[i]
            /\ points'[Len(points) + 1] = c
        BY <3>1, Appended DEF Shape
      <3>4. \A i \in 1..Len(points') : i = Len(points) + 1 \/ i \in 1..Len(points)
        BY <3>3
      <3>5. Rooted(log)'
        BY <2>2, <3>1, <3>2, <3>3, <3>4 DEF Rooted
      <3>6. \A v \in Workers : Held(v, log)'
        BY <2>1, <2>2, <2>5, <3>1 DEF Held, HoldsRows, Doing
      <3> QED BY <3>5, <3>6 DEF Reliable
    <2>13. CASE End(w)
      <3>1. tx'[w] = Idle /\ UNCHANGED <<log, points>>
        BY <2>13, Moves DEF End
      <3> QED BY <2>4, <2>5, <3>1
    <2> QED BY <1>1, <2>6, <2>7, <2>8, <2>9, <2>10, <2>11, <2>12, <2>13
            DEF Work, Record, Verify, Anchor
  <1>2. ASSUME NEW w \in Workers, Work(w), ~Untampered PROVE Reliable'
    BY <1>2 DEF Work, Record, TakeLock, Seal, CommitEntry, Verify, ReadEntries, ReadPoints,
                Anchor, TakeGate, Draft, CommitPoint, End, Reliable, Untampered
  <1>3. CASE Disturb
    <2>1. disturbed = "nothing" /\ UNCHANGED <<points, tx>> /\ (Untampered' => log' = log)
      BY <1>3, DisturbKeeps DEF Untampered
    <2> QED BY <2>1 DEF Reliable, Untampered, Rooted, Held, HoldsRows, Doing
  <1>4. CASE UNCHANGED vars
    BY <1>4 DEF vars, Reliable, Untampered, Rooted, Held, HoldsRows, Doing
  <1> QED BY <1>1, <1>2, <1>3, <1>4 DEF Next, Work

(* While the key stays, what is signed is signed with it.                  *)
KeysKept ==
    Intact => /\ \A i \in 1..Len(points) : points[i].key \in {key, NoKey}
              /\ \A w \in Workers : Doing(w, "drafted") => tx[w].key \in {key, NoKey}

LEMMA KeysKeptStep == Shape /\ KeysKept /\ [Next]_vars => KeysKept'
  <1> SUFFICES ASSUME Shape, KeysKept, [Next]_vars PROVE KeysKept'
    OBVIOUS
  <1>1. ASSUME NEW w \in Workers, Work(w), Intact PROVE KeysKept'
    <2>1. \A v \in Workers \ {w} : tx'[v] = tx[v]
      BY <1>1, OthersWait
    <2>2. UNCHANGED key
      BY <1>1 DEF Work, Record, TakeLock, Seal, CommitEntry, Verify, ReadEntries, ReadPoints,
                  Anchor, TakeGate, Draft, CommitPoint, End
    <2>3. ASSUME UNCHANGED points, Doing(w, "drafted")' => tx'[w].key \in {key, NoKey}
          PROVE  KeysKept'
      BY <1>1, <2>1, <2>2, <2>3 DEF KeysKept, Doing
    <2>4. ASSUME NEW force \in BOOLEAN, NEW signer \in Signers, Draft(w, force, signer)
          PROVE  KeysKept'
      <3>1. tx'[w].key = signer /\ UNCHANGED points
        BY <2>4, Moves DEF Draft
      <3> QED BY <2>3, <3>1 DEF Signers
    <2>5. CASE CommitPoint(w)
      <3>1. /\ Doing(w, "drafted") /\ tx'[w] = Idle
            /\ \E c : points' = Append(points, c) /\ c.key = tx[w].key
        BY <2>5, Moves DEF CommitPoint
      <3>2. PICK c : points' = Append(points, c) /\ c.key = tx[w].key
        BY <3>1
      <3>3. /\ Len(points') = Len(points) + 1 /\ Len(points) \in Nat
            /\ \A i \in 1..Len(points) : points'[i] = points[i]
            /\ points'[Len(points) + 1] = c
        BY <3>2, Appended DEF Shape
      <3>4. \A i \in 1..Len(points') : i = Len(points) + 1 \/ i \in 1..Len(points)
        BY <3>3
      <3>5. /\ c.key \in {key, NoKey} /\ \A i \in 1..Len(points) : points[i].key \in {key, NoKey}
        BY <1>1, <3>1, <3>2 DEF KeysKept
      <3>6. \A i \in 1..Len(points') : points'[i].key \in {key, NoKey}
        BY <3>3, <3>4, <3>5
      <3>7. \A v \in Workers : Doing(v, "drafted")' => tx'[v].key \in {key, NoKey}
        BY <1>1, <2>1, <3>1 DEF KeysKept, Doing
      <3> QED BY <2>2, <3>6, <3>7 DEF KeysKept
    <2>6. CASE (\E u \in Actors : TakeLock(w, u)) \/ Seal(w)
      <3>1. tx'[w].phase \in {"sealing", "sealed"} /\ UNCHANGED points
        <4>1. CASE \E u \in Actors : TakeLock(w, u)
          BY <4>1, Moves DEF TakeLock
        <4>2. CASE Seal(w)
          BY <4>2, Moves DEF Seal
        <4> QED BY <2>6, <4>1, <4>2
      <3> QED BY <2>3, <3>1 DEF Doing
    <2>7. CASE ReadEntries(w) \/ ReadPoints(w) \/ TakeGate(w)
      <3>1. tx'[w].phase \in {"reading", "reported", "anchoring"} /\ UNCHANGED points
        <4>1. CASE ReadEntries(w)
          BY <4>1, Moves DEF ReadEntries
        <4>2. CASE ReadPoints(w)
          BY <4>2, Moves DEF ReadPoints
        <4>3. CASE TakeGate(w)
          BY <4>3, Moves DEF TakeGate
        <4> QED BY <2>7, <4>1, <4>2, <4>3
      <3> QED BY <2>3, <3>1 DEF Doing
    <2>8. CASE CommitEntry(w) \/ End(w)
      <3>1. tx'[w] = Idle /\ UNCHANGED points
        <4>1. CASE CommitEntry(w)
          BY <4>1, Moves DEF CommitEntry
        <4>2. CASE End(w)
          BY <4>2, Moves DEF End
        <4> QED BY <2>8, <4>1, <4>2
      <3> QED BY <2>3, <3>1 DEF Doing
    <2> QED BY <1>1, <2>4, <2>5, <2>6, <2>7, <2>8 DEF Work, Record, Verify, Anchor
  <1>2. ASSUME NEW w \in Workers, Work(w), ~Intact PROVE KeysKept'
    BY <1>2 DEF Work, Record, TakeLock, Seal, CommitEntry, Verify, ReadEntries, ReadPoints,
                Anchor, TakeGate, Draft, CommitPoint, End, KeysKept, Intact
  <1>3. CASE Disturb
    BY <1>3, DisturbKeeps DEF KeysKept, Intact
  <1>4. CASE UNCHANGED vars
    BY <1>4 DEF vars, KeysKept, Intact, Doing
  <1> QED BY <1>1, <1>2, <1>3, <1>4 DEF Next, Work

LEMMA TablesGoverned == Spec => [](Shape /\ Chained /\ Reliable /\ KeysKept)
  <1>1. ASSUME Init PROVE Chained /\ Reliable /\ KeysKept
    <2>1. points = <<>> /\ Len(points) = 0 /\ log = {} /\ \A w \in Workers : tx[w] = Idle
      BY <1>1 DEF Init
    <2>2. Sound(log)
      <3>1. <<>> \in [1..0 -> log] /\ (\A i \in 1..0 : FALSE) /\ (\A r \in log : FALSE)
        BY <2>1
      <3>2. Lists(<<>>, 0, log)
        BY <3>1 DEF Lists
      <3> QED BY <2>1, <3>2 DEF Sound, Numbered, Linked
    <2>3. \A i \in 1..Len(points) : FALSE
      BY <2>1
    <2> QED BY <2>1, <2>2, <2>3 DEF Chained, Reliable, Rooted, Held, HoldsRows, KeysKept, Doing
  <1>2. Shape /\ Continued /\ Chained /\ Reliable /\ KeysKept /\ [Next]_vars
          => (Chained /\ Reliable /\ KeysKept)'
    BY ChainedStep, ReliableStep, KeysKeptStep
  <1> QED BY <1>1, <1>2, LocksGoverned, PTL DEF Spec

(* IntactTablesVerify: with nothing disturbed and the key in reach,        *)
(* verify_organization_audit_chain over both tables finds no fault,        *)
(* however many entries and checkpoints were recorded concurrently.        *)
THEOREM TablesVerify == Spec => []IntactTablesVerify
  <1>1. ASSUME Shape, Chained, Reliable, KeysKept, Intact PROVE Valid(log, points, key)
    <2>1. Rooted(log)
      BY <1>1 DEF Reliable, Untampered, Intact
    <2>2. \A i \in DOMAIN ChainOf(log) : EntryHolds(ChainOf(log), i)
      BY <2>1, SoundHolds DEF Rooted
    <2>3. DOMAIN points = 1..Len(points)
      BY <1>1 DEF Shape
    <2>4. ASSUME NEW i \in DOMAIN points PROVE PointHolds(log, points, i, key)
      <3>1. /\ Follows(points[i], Before(points, i))
            /\ points[i].hash = DigestOfPoint(points[i])
        BY <1>1, <2>3 DEF Chained
      <3>2. points[i].key \in {key, NoKey}
        BY <1>1, <2>3 DEF KeysKept
      <3>3. Anchored(log, points[i])
        BY <2>1, <2>3 DEF Rooted
      <3> QED BY <3>1, <3>2, <3>3 DEF PointHolds, SignatureHolds
    <2> QED BY <2>2, <2>4 DEF Valid
  <1>2. Shape /\ Chained /\ Reliable /\ KeysKept => IntactTablesVerify
    BY <1>1 DEF IntactTablesVerify
  <1> QED BY <1>2, TablesGoverned, PTL

(* AlarmsHaveACause: without damage and without a deleted account, a       *)
(* report that finds fault has seen a signature of another key, or a       *)
(* checkpoint made between its two reads that covers more than it read.    *)
THEOREM AlarmsAreExplained == Spec => []AlarmsHaveACause
  <1>1. ASSUME Shape, Chained, Reliable, NEW w \in Workers, Doing(w, "reported"),
               ~Damaged, disturbed # "forget",
               \A i \in 1..tx[w].seen : /\ points[i].key \in {NoKey, tx[w].public}
                                        /\ \E r \in tx[w].rows : ~(r.seq < points[i].covered)
        PROVE  ReportIsValid(w)
    <2> DEFINE rows == tx[w].rows
               seen == SubSeq(points, 1, tx[w].seen)
    <2>1. Rooted(log) /\ PrefixOf(rows, log)
      BY <1>1 DEF Shape, AllDisturbances, Damaged, Untampered, Reliable, Held, HoldsRows
    <2>2. Sound(log) /\ Numbered(log)
      BY <2>1 DEF Rooted, Sound
    <2>3. Sound(rows)
      BY <2>1, <2>2, PrefixIsSound, Zenon
    <2>4. \A i \in DOMAIN ChainOf(rows) : EntryHolds(ChainOf(rows), i)
      BY <2>3, SoundHolds
    <2>5. /\ tx[w].seen \in 0..Len(points) /\ Len(points) \in Nat
      BY <1>1 DEF Chained, Shape
    <2>6. /\ DOMAIN seen = 1..tx[w].seen
          /\ \A i \in 1..tx[w].seen : seen[i] = points[i]
      BY <1>1, <2>5 DEF Shape
    <2> HIDE DEF seen
    <2>7. ASSUME NEW i \in DOMAIN seen PROVE PointHolds(rows, seen, i, tx[w].public)
      <3>1. i \in 1..tx[w].seen /\ i \in 1..Len(points) /\ seen[i] = points[i]
        BY <2>5, <2>6
      <3>2. Before(seen, i) = Before(points, i)
        <4>1. CASE i = 1
          BY <4>1 DEF Before
        <4>2. CASE i # 1
          <5>1. i - 1 \in 1..tx[w].seen
            BY <2>5, <3>1, <4>2
          <5> QED BY <2>6, <4>2, <5>1 DEF Before
        <4> QED BY <4>1, <4>2
      <3>3. /\ Follows(points[i], Before(points, i))
            /\ points[i].hash = DigestOfPoint(points[i])
        BY <1>1, <3>1 DEF Chained
      <3>4. points[i].key \in {NoKey, tx[w].public}
        BY <1>1, <3>1
      <3>5. points[i].covered \in Nat /\ Anchored(log, points[i])
        BY <2>1, <3>1 DEF Rooted
      <3>6. \E r \in rows : ~(r.seq < points[i].covered)
        BY <1>1, <3>1
      <3>7. Anchored(rows, points[i])
        BY <2>1, <2>2, <3>5, <3>6, AnchoredInPrefix, Zenon
      <3> QED BY <3>1, <3>2, <3>3, <3>4, <3>7 DEF PointHolds, SignatureHolds
    <2>8. Valid(rows, seen, tx[w].public)
      BY <2>4, <2>7 DEF Valid
    <2> QED BY <2>8 DEF ReportIsValid, SeenBy, seen
  <1>2. Shape /\ Chained /\ Reliable => AlarmsHaveACause
    BY <1>1 DEF AlarmsHaveACause
  <1> QED BY <1>2, TablesGoverned, PTL

-------------------------------------------------------------------------------
(* Powers of two and the split of a tree                                    *)

(* Of some numbers, the smallest.                                          *)
LEMMA SmallestNumber ==
  ASSUME NEW S \in SUBSET Nat, S # {}
  PROVE  \E n \in S : \A m \in S : ~(m < n)
  <1>1. PICK n \in S : \A m \in S : ~(<<m, n>> \in OpToRel(<, Nat))
    BY NatLessThanWellFounded, WFMin, Zenon
  <1>2. \A m \in S : ~(m < n)
    BY <1>1 DEF OpToRel
  <1> QED BY <1>2

Powers == {p \in Nat \ {0} : IsPowerOfTwo(p)}

LEMMA PowersDouble ==
  /\ 1 \in Powers
  /\ \A p \in Powers : 2 * p \in Powers
  /\ \A p \in Powers : p # 1 => \E h \in Powers : p = 2 * h
  <1>1. 1 \in Powers
    BY DEF Powers, IsPowerOfTwo
  <1>2. ASSUME NEW p \in Powers PROVE 2 * p \in Powers
    <2>1. p \in Nat /\ p # 0
      BY DEF Powers
    <2>2. ASSUME NEW d \in 2..(2 * p), (2 * p) % d = 0, d % 2 # 0 PROVE FALSE
      <3> DEFINE q == (2 * p) \div d
                 e == d \div 2
                 r == p - e * q
      <3>1. d \in Nat /\ q \in Nat /\ d * q = 2 * p /\ e \in Nat /\ d = 2 * e + 1
        BY <2>1, <2>2
      <3> HIDE DEF q, e
      <3>2. (2 * e + 1) * q = 2 * (e * q) + q /\ e * q \in Nat
        BY <3>1
      <3>3. q = 2 * r /\ r \in Int
        BY <2>1, <3>1, <3>2
      <3>4. r \in Nat
        BY <3>1, <3>3
      <3> HIDE DEF r
      <3>5. d * (2 * r) = 2 * (d * r) /\ d * r \in Nat
        BY <3>1, <3>4
      <3>6. d * r = p
        BY <2>1, <3>1, <3>3, <3>5
      <3>7. r # 0
        BY <2>1, <3>1, <3>6
      <3>8. d <= p /\ p % d = 0
        <4>1. d * (r - 1) \in Nat /\ d * r = d + d * (r - 1)
          BY <3>1, <3>4, <3>7
        <4>2. d <= p
          BY <2>1, <3>1, <3>6, <4>1
        <4>3. p % d = 0
          BY <3>1, <3>4, <3>6, <2>2
        <4> QED BY <4>2, <4>3
      <3>9. d \in 2..p
        BY <2>1, <2>2, <3>8
      <3> QED BY <2>2, <3>8, <3>9 DEF Powers, IsPowerOfTwo
    <2> QED BY <2>1, <2>2 DEF Powers, IsPowerOfTwo
  <1>3. ASSUME NEW p \in Powers, p # 1 PROVE \E h \in Powers : p = 2 * h
    <2>1. p \in Nat /\ p \in 2..p /\ p % p = 0
      BY <1>3 DEF Powers
    <2>2. p % 2 = 0
      BY <2>1 DEF Powers, IsPowerOfTwo
    <2> DEFINE h == p \div 2
    <2>3. h \in Nat /\ p = 2 * h /\ h # 0
      BY <2>1, <2>2
    <2> HIDE DEF h
    <2>4. ASSUME NEW d \in 2..h, h % d = 0 PROVE d % 2 = 0
      <3> DEFINE q == h \div d
      <3>1. d \in Nat /\ d # 0 /\ q \in Nat /\ h = d * q
        BY <2>3, <2>4
      <3> HIDE DEF q
      <3>2. p = d * (2 * q) /\ 2 * q \in Nat
        BY <2>3, <3>1
      <3>3. p % d = 0
        BY <2>1, <3>1, <3>2
      <3>4. d \in 2..p
        BY <2>3
      <3> QED BY <3>3, <3>4 DEF Powers, IsPowerOfTwo
    <2> QED BY <2>3, <2>4 DEF Powers, IsPowerOfTwo
  <1> QED BY <1>1, <1>2, <1>3

(* The smaller of two powers divides the larger one.                       *)
LEMMA PowersDivide ==
  ASSUME NEW a \in Powers, NEW b \in Powers, a <= b
  PROVE  \E w \in Powers : b = a * w
  <1> DEFINE Bad == {n \in Powers : \E m \in Powers : m <= n /\ ~ \E w \in Powers : n = m * w}
  <1> SUFFICES ASSUME Bad # {} PROVE FALSE
    OBVIOUS
  <1>1. PICK n \in Bad : \A m \in Bad : ~(m < n)
    <2>1. Bad \in SUBSET Nat
      BY DEF Powers
    <2> HIDE DEF Bad
    <2> QED BY <2>1, SmallestNumber
  <1>2. PICK m \in Powers : m <= n /\ ~ \E w \in Powers : n = m * w
    BY <1>1
  <1>3. n \in Nat /\ n # 0 /\ m \in Nat /\ m # 0 /\ n \in Powers
    BY DEF Powers
  <1>4. m # 1
    BY <1>2, <1>3
  <1>5. n # 1
    BY <1>2, <1>3, <1>4
  <1>6. PICK h \in Powers : n = 2 * h
    BY <1>3, <1>5, PowersDouble
  <1>7. PICK g \in Powers : m = 2 * g
    BY <1>2, <1>4, PowersDouble
  <1>8. h \in Nat /\ g \in Nat /\ h # 0
    BY DEF Powers
  <1>9. h < n /\ g <= h
    BY <1>2, <1>6, <1>7, <1>8
  <1>10. h \notin Bad
    <2> HIDE DEF Bad
    <2> QED BY <1>1, <1>9
  <1>11. PICK w \in Powers : h = g * w
    BY <1>9, <1>10
  <1>12. w \in Nat
    BY DEF Powers
  <1>13. n = m * w
    BY <1>6, <1>7, <1>8, <1>11, <1>12
  <1> QED BY <1>2, <1>13

(* The largest of some powers up to a bound.                               *)
LEMMA LargestOf ==
  ASSUME NEW n \in Nat, NEW S \in SUBSET (1..n), S # {}
  PROVE  Max(S) \in S /\ \A p \in S : p <= Max(S)
  <1> DEFINE Lacks == {n - p : p \in S}
  <1>1. Lacks \in SUBSET Nat /\ Lacks # {}
    <2>1. \A p \in S : p \in 1..n
      OBVIOUS
    <2>2. \A p \in S : n - p \in Nat
      BY <2>1
    <2>3. PICK p : p \in S
      OBVIOUS
    <2>4. n - p \in Lacks
      BY <2>3
    <2> QED BY <2>2, <2>4
  <1>2. PICK lack \in Lacks : \A other \in Lacks : ~(other < lack)
    <2> HIDE DEF Lacks
    <2> QED BY <1>1, SmallestNumber
  <1>3. PICK p \in S : lack = n - p
    OBVIOUS
  <1>4. \A q \in S : p >= q
    <2> SUFFICES ASSUME NEW q \in S PROVE p >= q
      OBVIOUS
    <2>1. n - q \in Lacks
      OBVIOUS
    <2>2. ~(n - q < n - p)
      BY <1>2, <1>3, <2>1
    <2>3. p \in Nat /\ q \in Nat
      OBVIOUS
    <2> QED BY <2>2, <2>3
  <1>5. Max(S) \in S /\ \A q \in S : Max(S) >= q
    BY <1>4 DEF Max
  <1> DEFINE m == Max(S)
  <1>6. m \in S /\ \A q \in S : m >= q
    BY <1>5
  <1> HIDE DEF m
  <1>7. \A q \in S : q <= m
    BY <1>6
  <1> QED BY <1>6, <1>7 DEF m

(* The split is the power of two next below.                               *)
LEMMA Splits2 ==
  ASSUME NEW n \in Nat, n >= 2
  PROVE  Split(n) \in Powers /\ Split(n) < n /\ n <= 2 * Split(n)
  <1> DEFINE S == {p \in 1..(n - 1) : IsPowerOfTwo(p)}
             p == Split(n)
  <1>1. n - 1 \in Nat /\ 1 \in S
    BY PowersDouble DEF Powers
  <1>2. Max(S) \in S /\ \A q \in S : q <= Max(S)
    <2>1. S \in SUBSET (1..(n - 1)) /\ S # {}
      BY <1>1
    <2> HIDE DEF S
    <2> QED BY <1>1, <2>1, LargestOf
  <1>3. p = Max(S)
    BY DEF Split
  <1>4. p \in Powers /\ p \in Nat /\ p < n
    BY <1>2, <1>3 DEF Powers
  <1>5. ASSUME 2 * p < n PROVE FALSE
    <2>1. 2 * p \in S
      BY <1>4, <1>5, PowersDouble DEF Powers
    <2>2. 2 * p <= p
      <3> HIDE DEF S, p
      <3> QED BY <1>2, <1>3, <2>1
    <2> HIDE DEF p, S
    <2> QED BY <1>4, <2>2 DEF Powers
  <1> HIDE DEF p, S
  <1>6. n <= 2 * p
    BY <1>4, <1>5
  <1> QED BY <1>4, <1>6 DEF p

LEMMA SplitIs ==
  ASSUME NEW n \in Nat, NEW p \in Powers, p < n, n <= 2 * p
  PROVE  Split(n) = p
  <1> DEFINE q == Split(n)
  <1>1. p \in Nat /\ p # 0
    BY DEF Powers
  <1>2. q \in Powers /\ q < n /\ n <= 2 * q
    BY <1>1, Splits2
  <1>3. q \in Nat /\ q # 0
    BY <1>2 DEF Powers
  <1> HIDE DEF q
  <1>4. ASSUME NEW a \in Powers, NEW b \in Powers, a < b PROVE 2 * a <= b
    <2>1. a \in Nat /\ b \in Nat /\ a # 0
      BY DEF Powers
    <2>2. PICK w \in Powers : b = a * w
      BY <1>4, <2>1, PowersDivide
    <2>3. w \in Nat /\ w # 0
      BY DEF Powers
    <2>4. w # 1
      BY <1>4, <2>1, <2>2
    <2>5. a * w = 2 * a + a * (w - 2) /\ a * (w - 2) \in Nat
      BY <2>1, <2>3, <2>4
    <2> QED BY <2>1, <2>2, <2>5
  <1>5. ~(p < q) /\ ~(q < p)
    BY <1>1, <1>2, <1>3, <1>4
  <1> QED BY <1>1, <1>3, <1>5 DEF q

(* The largest power that divides an odd multiple of one is that one.      *)
LEMMA SpanIs ==
  ASSUME NEW w \in Powers, NEW c \in Nat, NEW n \in Nat, n = w * (2 * c + 1)
  PROVE  Span(n) = w
  <1> DEFINE S == {p \in 1..n : IsPowerOfTwo(p) /\ n % p = 0}
  <1>1. w \in Nat /\ w # 0
    BY DEF Powers
  <1>2. n # 0 /\ w <= n
    <2>1. w * (2 * c + 1) = w + 2 * (w * c) /\ w * c \in Nat
      BY <1>1
    <2> QED BY <1>1, <2>1
  <1>3. w \in S
    <2>1. n % w = 0
      BY <1>1
    <2> QED BY <1>1, <1>2, <2>1 DEF Powers
  <1>4. Max(S) \in S /\ \A q \in S : q <= Max(S)
    <2>1. S \in SUBSET (1..n) /\ S # {}
      BY <1>3
    <2> HIDE DEF S
    <2> QED BY <2>1, LargestOf
  <1> DEFINE p == Max(S)
  <1>5. p \in Powers /\ p \in Nat /\ n % p = 0 /\ p # 0
    BY <1>4 DEF Powers
  <1>6. w <= p
    BY <1>3, <1>4
  <1>7. Span(n) = p
    BY <1>2 DEF Span
  <1> HIDE DEF p, S
  <1>8. PICK v \in Powers : p = w * v
    BY <1>5, <1>6, PowersDivide
  <1>9. v \in Nat
    BY DEF Powers
  <1>10. v = 1
    <2> SUFFICES ASSUME v # 1 PROVE FALSE
      OBVIOUS
    <2>1. PICK h \in Powers : v = 2 * h
      BY PowersDouble
    <2> DEFINE q == n \div p
    <2>2. h \in Nat /\ q \in Nat /\ n = p * q
      BY <1>5, <2>1 DEF Powers
    <2> HIDE DEF q
    <2>3. p * q = w * (2 * (h * q)) /\ h * q \in Nat
      <3>1. (w * (2 * h)) * q = w * (2 * (h * q))
        BY <1>1, <2>2
      <3> QED BY <1>8, <2>1, <2>2, <3>1
    <2>4. w * (2 * (h * q)) = w * (2 * c + 1)
      BY <2>2, <2>3
    <2> DEFINE x == h * q
    <2>5. x \in Nat /\ w * (2 * x) = w * (2 * c + 1)
      BY <2>3, <2>4
    <2> HIDE DEF x
    <2>6. w * (2 * x - (2 * c + 1)) = w * (2 * x) - w * (2 * c + 1)
      BY <1>1, <2>5
    <2>7. 2 * x - (2 * c + 1) = 0
      BY <1>1, <2>5, <2>6
    <2> QED BY <2>5, <2>7
  <1> QED BY <1>1, <1>7, <1>8, <1>10

-------------------------------------------------------------------------------
(* The root of a Merkle tree                                                *)

LEMMA SplitsInside ==
  ASSUME NEW n \in Nat, n >= 2
  PROVE  Split(n) \in 1..(n - 1)
  <1>1. Split(n) \in Powers /\ Split(n) < n
    BY Splits2
  <1> QED BY <1>1 DEF Powers

(* The trees over parts of at most so many leaves and one.                 *)
Grown(leaves, n, d, tree) ==
    /\ tree = [part \in Parts(n) |-> tree[part]]
    /\ \A part \in Parts(n) : part[2] - part[1] <= d => tree[part] = TreeOver(leaves, tree, part)

(* A part of more than one leaf is split into two smaller ones.            *)
LEMMA Halves ==
  ASSUME NEW n \in Nat, NEW part \in Parts(n), part[1] # part[2]
  PROVE  LET k == part[1] + Split(part[2] - part[1] + 1) IN
         /\ k \in Nat /\ part[1] < k /\ k <= part[2]
         /\ <<part[1], k - 1>> \in Parts(n) /\ <<k, part[2]>> \in Parts(n)
  <1> DEFINE lo == part[1]
             hi == part[2]
             size == hi - lo + 1
             k == lo + Split(size)
  <1>1. lo \in 1..n /\ hi \in 1..n /\ lo < hi
    BY DEF Parts
  <1>2. size \in Nat /\ size >= 2
    BY <1>1
  <1> HIDE DEF size
  <1>3. Split(size) \in 1..(size - 1)
    BY <1>2, SplitsInside
  <1>4. k \in Nat /\ lo < k /\ k <= hi
    BY <1>1, <1>3 DEF size
  <1>5. <<lo, k - 1>> \in Parts(n) /\ <<k, hi>> \in Parts(n)
    <2>1. k - 1 \in 1..n /\ k \in 1..n /\ lo <= k - 1
      BY <1>1, <1>4
    <2> HIDE DEF lo, hi, k
    <2>2. <<lo, k - 1>>[1] = lo /\ <<lo, k - 1>>[2] = k - 1 /\ <<k, hi>>[1] = k /\ <<k, hi>>[2] = hi
      OBVIOUS
    <2> QED BY <1>1, <1>4, <2>1, <2>2 DEF Parts
  <1> QED BY <1>4, <1>5 DEF size

LEMMA GrowsFurther ==
  ASSUME NEW leaves, NEW n \in Nat, NEW d \in Nat, NEW tree, Grown(leaves, n, d, tree)
  PROVE  \E larger : Grown(leaves, n, d + 1, larger)
  <1> DEFINE larger == [part \in Parts(n) |-> IF part[2] - part[1] <= d THEN tree[part]
                                              ELSE TreeOver(leaves, tree, part)]
  <1>1. ASSUME NEW part \in Parts(n), part[2] - part[1] <= d + 1
        PROVE  larger[part] = TreeOver(leaves, tree, part)
    BY <1>1 DEF Grown
  <1>2. ASSUME NEW part \in Parts(n), part[2] - part[1] <= d + 1
        PROVE  TreeOver(leaves, tree, part) = TreeOver(leaves, larger, part)
    <2>1. CASE part[1] = part[2]
      BY <2>1 DEF TreeOver
    <2>2. CASE part[1] # part[2]
      <3> DEFINE lo == part[1]
                 hi == part[2]
                 k == lo + Split(hi - lo + 1)
                 left == <<lo, k - 1>>
                 right == <<k, hi>>
      <3>1. k \in Nat /\ lo < k /\ k <= hi /\ left \in Parts(n) /\ right \in Parts(n)
        BY <2>2, Halves
      <3>2. lo \in Nat /\ hi \in Nat
        BY DEF Parts
      <3>3. hi - lo <= d + 1
        BY <1>2
      <3> HIDE DEF k, lo, hi
      <3>4. left[2] - left[1] <= d /\ right[2] - right[1] <= d
        BY <3>1, <3>2, <3>3
      <3>5. larger[left] = tree[left] /\ larger[right] = tree[right]
        BY <3>1, <3>4
      <3> HIDE DEF left, right, larger
      <3> QED BY <3>5 DEF TreeOver, left, right, k, lo, hi
    <2> QED BY <2>1, <2>2
  <1>3. larger = [part \in Parts(n) |-> larger[part]]
    OBVIOUS
  <1> HIDE DEF larger
  <1>4. Grown(leaves, n, d + 1, larger)
    BY <1>1, <1>2, <1>3 DEF Grown
  <1> QED BY <1>4

LEMMA TreesGrow ==
  ASSUME NEW leaves, NEW n \in Nat, NEW d \in Nat
  PROVE  \E tree : Grown(leaves, n, d, tree)
  <1> DEFINE Stunted == {e \in Nat : ~ \E tree : Grown(leaves, n, e, tree)}
  <1> SUFFICES ASSUME Stunted # {} PROVE FALSE
    OBVIOUS
  <1>1. Stunted \subseteq Nat
    OBVIOUS
  <1>2. PICK e \in Stunted : \A other \in Stunted : ~(<<other, e>> \in OpToRel(<, Nat))
    <2> HIDE DEF Stunted
    <2> QED BY <1>1, NatLessThanWellFounded, WFMin, Zenon
  <1>3. \A other \in Nat : other < e => other \notin Stunted
    BY <1>1, <1>2 DEF OpToRel
  <1>4. CASE e = 0
    <2> DEFINE tree == [part \in Parts(n) |-> Leaf(leaves[part[1]])]
    <2>1. ASSUME NEW part \in Parts(n), part[2] - part[1] <= 0
          PROVE  tree[part] = TreeOver(leaves, tree, part)
      <3>1. part[1] = part[2]
        BY <2>1 DEF Parts
      <3> QED BY <3>1 DEF TreeOver
    <2>2. tree = [part \in Parts(n) |-> tree[part]]
      OBVIOUS
    <2> HIDE DEF tree
    <2>3. Grown(leaves, n, 0, tree)
      BY <2>1, <2>2 DEF Grown
    <2> QED BY <1>4, <2>3
  <1>5. CASE e # 0
    <2>1. e - 1 \in Nat /\ e - 1 < e /\ (e - 1) + 1 = e
      BY <1>5
    <2>2. PICK tree : Grown(leaves, n, e - 1, tree)
      BY <1>3, <2>1
    <2> HIDE DEF Stunted
    <2>3. \E larger : Grown(leaves, n, (e - 1) + 1, larger)
      BY <2>1, <2>2, GrowsFurther, Zenon
    <2> QED BY <2>1, <2>3 DEF Stunted
  <1> QED BY <1>4, <1>5

(* The recursion has a solution, so TreesOver is one.                      *)
LEMMA TreesAreGrown ==
  ASSUME NEW leaves, Len(leaves) \in Nat, NEW part \in Parts(Len(leaves))
  PROVE  TreesOver(leaves)[part] = TreeOver(leaves, TreesOver(leaves), part)
  <1> DEFINE n == Len(leaves)
  <1>1. PICK tree : Grown(leaves, n, n, tree)
    BY TreesGrow
  <1>2. \A p \in Parts(n) : p[2] - p[1] <= n
    BY DEF Parts
  <1>3. tree = [p \in Parts(n) |-> TreeOver(leaves, tree, p)]
    BY <1>1, <1>2 DEF Grown
  <1>4. TreesOver(leaves) = [p \in Parts(n) |-> TreeOver(leaves, TreesOver(leaves), p)]
    BY <1>3 DEF TreesOver
  <1> QED BY <1>4

(* Trees over parts of equal size tell their leaves apart.                 *)
LEMMA TreesDiffer ==
  ASSUME NEW a, NEW b, NEW n \in Nat, Len(a) = n, Len(b) = n,
         NEW whole \in Parts(n), TreesOver(a)[whole] = TreesOver(b)[whole]
  PROVE  \A i \in whole[1]..whole[2] : a[i] = b[i]
  <1> DEFINE Equal(part) == TreesOver(a)[part] = TreesOver(b)[part]
             Same(part) == \A i \in part[1]..part[2] : a[i] = b[i]
             Wrong == {part \in Parts(n) : Equal(part) /\ ~Same(part)}
             Sizes == {part[2] - part[1] : part \in Wrong}
  <1> SUFFICES ASSUME Wrong # {} PROVE FALSE
    OBVIOUS
  <1>1. Sizes \subseteq Nat /\ Sizes # {}
    BY DEF Parts
  <1>2. PICK size \in Sizes : \A other \in Sizes : ~(<<other, size>> \in OpToRel(<, Nat))
    <2> HIDE DEF Sizes
    <2> QED BY <1>1, NatLessThanWellFounded, WFMin, Zenon
  <1>3. PICK part \in Wrong : size = part[2] - part[1]
    OBVIOUS
  <1>4. \A other \in Wrong : ~(other[2] - other[1] < part[2] - part[1])
    <2> SUFFICES ASSUME NEW other \in Wrong, other[2] - other[1] < part[2] - part[1] PROVE FALSE
      OBVIOUS
    <2>1. other[2] - other[1] \in Sizes
      OBVIOUS
    <2> QED BY <1>1, <1>2, <1>3, <2>1 DEF OpToRel
  <1>5. part \in Parts(n) /\ Equal(part) /\ ~Same(part)
    OBVIOUS
  <1>6. /\ TreesOver(a)[part] = TreeOver(a, TreesOver(a), part)
        /\ TreesOver(b)[part] = TreeOver(b, TreesOver(b), part)
    BY <1>5, TreesAreGrown
  <1> DEFINE lo == part[1]
             hi == part[2]
  <1>7. lo \in 1..n /\ hi \in 1..n /\ lo <= hi
    BY <1>5 DEF Parts
  <1>8. CASE lo = hi
    <2>1. Leaf(a[lo]) = Leaf(b[lo])
      BY <1>5, <1>6, <1>8 DEF TreeOver
    <2>2. a[lo] = b[lo]
      BY <2>1 DEF Leaf
    <2>3. \A i \in lo..hi : i = lo
      BY <1>7, <1>8
    <2> QED BY <1>5, <2>2, <2>3
  <1>9. CASE lo # hi
    <2> DEFINE k == lo + Split(hi - lo + 1)
               left == <<lo, k - 1>>
               right == <<k, hi>>
    <2>1. k \in Nat /\ lo < k /\ k <= hi /\ left \in Parts(n) /\ right \in Parts(n)
      BY <1>5, <1>9, Halves
    <2>2. Node(TreesOver(a)[left], TreesOver(a)[right])
            = Node(TreesOver(b)[left], TreesOver(b)[right])
      BY <1>5, <1>6, <1>9 DEF TreeOver
    <2>3. Equal(left) /\ Equal(right)
      BY <2>2 DEF Node
    <2>4. left[1] = lo /\ left[2] = k - 1 /\ right[1] = k /\ right[2] = hi
      OBVIOUS
    <2> HIDE DEF Equal, k, left, right, Same
    <2>5. left \notin Wrong /\ right \notin Wrong
      BY <1>4, <1>7, <2>1, <2>4
    <2>6. Same(left) /\ Same(right)
      BY <2>1, <2>3, <2>5
    <2>7. \A i \in lo..hi : i \in lo..(k - 1) \/ i \in k..hi
      BY <1>7, <2>1
    <2>8. Same(part)
      BY <2>4, <2>6, <2>7 DEF Same
    <2> QED BY <1>5, <2>8
  <1> QED BY <1>8, <1>9

(* The root stands for all leaves, given their number.                     *)
LEMMA RootsDiffer ==
  ASSUME NEW n \in Nat, NEW a, NEW b, a = [i \in 1..n |-> a[i]], b = [i \in 1..n |-> b[i]],
         RootOf(a) = RootOf(b)
  PROVE  a = b
  <1>1. Len(a) = n /\ Len(b) = n
    OBVIOUS
  <1>2. CASE n = 0
    BY <1>2
  <1>3. CASE n # 0
    <2>1. a # <<>> /\ b # <<>>
      BY <1>1, <1>3
    <2>2. <<1, n>> \in Parts(n)
      BY <1>3 DEF Parts
    <2>3. TreesOver(a)[<<1, n>>] = TreesOver(b)[<<1, n>>]
      BY <1>1, <2>1 DEF RootOf
    <2>4. \A i \in 1..n : a[i] = b[i]
      BY <1>1, <2>2, <2>3, TreesDiffer
    <2> QED BY <2>4
  <1> QED BY <1>2, <1>3

-------------------------------------------------------------------------------
(* The parts of a tree and the places of a verifier                         *)

LEMMA PowersGap ==
  ASSUME NEW a \in Powers, NEW b \in Powers, a < b
  PROVE  2 * a <= b
  <1>1. a \in Nat /\ b \in Nat /\ a # 0
    BY DEF Powers
  <1>2. PICK w \in Powers : b = a * w
    BY <1>1, PowersDivide
  <1>3. w \in Nat /\ w # 0
    BY DEF Powers
  <1>4. w # 1
    BY <1>1, <1>2
  <1>5. a * w = 2 * a + a * (w - 2) /\ a * (w - 2) \in Nat
    BY <1>1, <1>3, <1>4
  <1> QED BY <1>1, <1>2, <1>5

(* The full tree that a tree of so many leaves would fill.                 *)
Filled(size) == IF size = 1 THEN 1 ELSE 2 * Split(size)

LEMMA Units ==
  ASSUME NEW s \in Nat, s # 0
  PROVE  /\ Filled(s) \in Powers /\ s <= Filled(s)
         /\ \A u \in Powers : s <= u => Filled(s) <= u
         /\ s \in Powers => Filled(s) = s
  <1>1. CASE s = 1
    BY <1>1, PowersDouble DEF Filled, Powers
  <1>2. CASE s # 1
    <2> DEFINE p == Split(s)
    <2>1. p \in Powers /\ p < s /\ s <= 2 * p
      BY <1>2, Splits2
    <2>2. Filled(s) = 2 * p
      BY <1>2 DEF Filled
    <2>3. p \in Nat /\ 2 * p \in Powers
      BY <2>1, PowersDouble DEF Powers
    <2>4. \A u \in Powers : p < u => 2 * p <= u
      <3> HIDE DEF p
      <3> QED BY <2>1, PowersGap
    <2> HIDE DEF p
    <2>5. \A u \in Powers : s <= u => 2 * p <= u
      BY <2>1, <2>3, <2>4 DEF Powers
    <2>6. s \in Powers => 2 * p = s
      BY <2>1, <2>3, <2>5
    <2> QED BY <2>1, <2>2, <2>3, <2>5, <2>6
  <1> QED BY <1>1, <1>2

SizeOf(part) == part[2] - part[1] + 1

(* The two halves of a part.                                               *)
HalfOf(part) == part[1] + Split(SizeOf(part))
LeftOf(part) == <<part[1], HalfOf(part) - 1>>
RightOf(part) == <<HalfOf(part), part[2]>>

(* The parts that the splits arrive at: a full tree of its level, or one   *)
(* cut off at the last leaf.                                               *)
Aligned(n, part) ==
    /\ part \in Parts(n)
    /\ (part[1] - 1) % Filled(SizeOf(part)) = 0
    /\ SizeOf(part) = Filled(SizeOf(part)) \/ part[2] = n

(* Where the verifier is when it has the hash of a part.                   *)
PlaceOf(n, part) ==
    <<(part[1] - 1) \div Filled(SizeOf(part)), (n - 1) \div Filled(SizeOf(part))>>

LEMMA DivTwice ==
  ASSUME NEW a \in Nat, NEW b \in Nat, NEW c \in Nat, b # 0, c # 0
  PROVE  (a \div b) \div c = a \div (b * c)
  OBVIOUS

LEMMA DivExact ==
  ASSUME NEW a \in Nat, NEW b \in Nat, b # 0, a % b = 0
  PROVE  a \div b \in Nat /\ a = b * (a \div b)
  OBVIOUS

LEMMA DivIs ==
  ASSUME NEW b \in Nat, NEW q \in Nat, NEW r \in Nat, r < b
  PROVE  (b * q + r) \div b = q
  OBVIOUS

LEMMA StepsLeft ==
  ASSUME NEW n \in Nat, NEW part, Aligned(n, part), part[1] # part[2]
  PROVE  LET left == LeftOf(part)
             at == PlaceOf(n, left)
         IN /\ Aligned(n, left)
            /\ ~IsRight(at) /\ at[2] # 0 /\ at[1] % 2 = 0
            /\ Filled(SizeOf(left)) = SizeOf(left)
            /\ <<at[1] \div 2, at[2] \div 2>> = PlaceOf(n, part)
  <1> DEFINE lo == part[1]
             hi == part[2]
             s == SizeOf(part)
             p == Split(s)
             k == lo + p
             left == <<lo, k - 1>>
             at == PlaceOf(n, left)
             c == (lo - 1) \div (2 * p)
             b == (n - 1) \div p
  <1>1. lo \in 1..n /\ hi \in 1..n /\ lo < hi
    BY DEF Aligned, Parts
  <1>2. s \in Nat /\ s >= 2 /\ s = hi - lo + 1
    BY <1>1 DEF SizeOf
  <1>3. p \in Powers /\ p < s /\ s <= 2 * p
    <2> HIDE DEF s
    <2> QED BY <1>2, Splits2
  <1>4. p \in Nat /\ p # 0
    BY <1>3 DEF Powers
  <1>5. Filled(s) = 2 * p /\ Filled(p) = p
    BY <1>2, <1>3, <1>4, Units DEF Filled
  <1>6. left \in Parts(n)
    BY <1>1, Halves DEF Aligned, SizeOf
  <1>7. SizeOf(left) = p
    <2> HIDE DEF p
    <2> QED BY <1>1, <1>4 DEF SizeOf
  <1>8. (lo - 1) % (2 * p) = 0
    BY <1>5 DEF Aligned
  <1> HIDE DEF p, s
  <1>9. c \in Nat /\ lo - 1 = (2 * p) * c
    <2>1. lo - 1 \in Nat /\ 2 * p \in Nat /\ 2 * p # 0
      BY <1>1, <1>4
    <2> QED BY <1>8, <2>1, DivExact
  <1>10. at = <<(lo - 1) \div p, b>> /\ PlaceOf(n, part) = <<c, (n - 1) \div (2 * p)>>
    BY <1>5, <1>7 DEF PlaceOf, s
  <1> HIDE DEF c, left
  <1>11. lo - 1 = p * (2 * c)
    BY <1>4, <1>9
  <1>12. (lo - 1) \div p = 2 * c /\ (lo - 1) % p = 0
    BY <1>4, <1>9, <1>11
  <1>13. b \in Nat /\ b >= 2 * c + 1
    <2>1. n - 1 \in Nat /\ n - 1 >= p * (2 * c) + p
      BY <1>1, <1>2, <1>3, <1>4, <1>11
    <2>2. p * (2 * c) + p = p * (2 * c + 1)
      BY <1>4, <1>9
    <2>3. b \in Nat /\ n - 1 < p * b + p
      BY <1>4, <2>1
    <2> HIDE DEF b
    <2>4. p * (2 * c + 1) < p * (b + 1)
      BY <1>4, <1>9, <2>1, <2>2, <2>3
    <2>5. 2 * c + 1 < b + 1
      BY <1>4, <1>9, <2>3, <2>4
    <2> QED BY <1>9, <2>3, <2>5
  <1>14. b \div 2 = (n - 1) \div (2 * p)
    <2>1. \A m \in Nat : (m \div p) \div 2 = m \div (2 * p)
      BY <1>4, DivTwice
    <2>2. n - 1 \in Nat
      BY <1>1
    <2> QED BY <2>1, <2>2
  <1> HIDE DEF b, at
  <1>15. at[1] = 2 * c /\ at[2] = b
    BY <1>10, <1>12
  <1>16. ~IsRight(at) /\ at[2] # 0 /\ at[1] % 2 = 0 /\ at[1] \div 2 = c
    BY <1>9, <1>13, <1>15 DEF IsRight
  <1>17. Aligned(n, left)
    <2>1. left[1] = lo
      BY DEF left
    <2> QED BY <1>5, <1>6, <1>7, <1>12, <2>1 DEF Aligned
  <1> QED BY <1>5, <1>7, <1>10, <1>14, <1>15, <1>16, <1>17 DEF at, left, p, s, LeftOf, HalfOf

LEMMA StepsRight ==
  ASSUME NEW n \in Nat, NEW part, Aligned(n, part), part[1] # part[2]
  PROVE  LET right == RightOf(part)
             at == PlaceOf(n, right)
         IN /\ Aligned(n, right)
            /\ IsRight(at) /\ at[2] # 0
            /\ Parent(at) = PlaceOf(n, part)
  <1> DEFINE lo == part[1]
             hi == part[2]
             s == SizeOf(part)
             p == Split(s)
             k == lo + p
             right == <<k, hi>>
             at == PlaceOf(n, right)
             c == (lo - 1) \div (2 * p)
             r == s - p
             v == Filled(r)
             b == (n - 1) \div v
  <1>1. lo \in 1..n /\ hi \in 1..n /\ lo < hi
    BY DEF Aligned, Parts
  <1>2. s \in Nat /\ s >= 2 /\ s = hi - lo + 1
    BY <1>1 DEF SizeOf
  <1>3. p \in Powers /\ p < s /\ s <= 2 * p
    <2> HIDE DEF s
    <2> QED BY <1>2, Splits2
  <1>4. p \in Nat /\ p # 0
    BY <1>3 DEF Powers
  <1>5. Filled(s) = 2 * p
    BY <1>2 DEF Filled
  <1>6. right \in Parts(n)
    BY <1>1, Halves DEF Aligned, SizeOf
  <1>7. (lo - 1) % (2 * p) = 0 /\ (s = 2 * p \/ hi = n)
    BY <1>5 DEF Aligned
  <1> HIDE DEF p, s
  <1>8. SizeOf(right) = r
    BY <1>1, <1>2, <1>4 DEF SizeOf
  <1>9. c \in Nat /\ lo - 1 = (2 * p) * c
    <2>1. lo - 1 \in Nat /\ 2 * p \in Nat /\ 2 * p # 0
      BY <1>1, <1>4
    <2> QED BY <1>7, <2>1, DivExact
  <1>10. at = <<(k - 1) \div v, b>> /\ PlaceOf(n, part) = <<c, (n - 1) \div (2 * p)>>
    <2>1. right[1] = k
      OBVIOUS
    <2> HIDE DEF right
    <2> QED BY <1>5, <1>8, <2>1 DEF PlaceOf, s
  <1>11. r \in Nat /\ r # 0 /\ r <= p
    BY <1>2, <1>3, <1>4
  <1> HIDE DEF c, right, r
  <1>12. v \in Powers /\ r <= v /\ v <= p /\ (r \in Powers => v = r)
    BY <1>3, <1>11, Units
  <1>13. v \in Nat /\ v # 0
    BY <1>12 DEF Powers
  <1> HIDE DEF v
  <1>14. PICK w \in Powers : p = v * w
    BY <1>3, <1>12, PowersDivide
  <1>15. w \in Nat /\ w # 0
    BY DEF Powers
  <1> DEFINE a == w * (2 * c + 1)
  <1>16. a \in Nat /\ k - 1 = v * a
    <2>1. (2 * (v * w)) * c + v * w = v * (w * (2 * c + 1))
      BY <1>9, <1>13, <1>15
    <2>2. k - 1 = (lo - 1) + p
      BY <1>1, <1>4
    <2> QED BY <1>9, <1>14, <1>15, <2>1, <2>2
  <1>17. a # 0
    <2>1. w * (2 * c + 1) = w + 2 * (w * c) /\ w * c \in Nat
      BY <1>9, <1>15
    <2> QED BY <1>15, <2>1
  <1>18. Span(a) = w
    BY <1>9, <1>16, SpanIs
  <1>19. a = (2 * w) * c + w
    BY <1>9, <1>15
  <1> HIDE DEF a, k
  <1>20. (k - 1) \div v = a /\ (k - 1) % v = 0
    BY <1>13, <1>16
  <1>21. a \div (2 * w) = c
    BY <1>9, <1>15, <1>19
  <1>22. n - 1 \in Nat /\ n - 1 >= k - 1 /\ k - 1 = lo - 1 + p
    BY <1>1, <1>2, <1>3, <1>4 DEF k
  <1>23. b \div (2 * w) = (n - 1) \div (2 * p)
    <2>1. v * (2 * w) = 2 * p
      BY <1>13, <1>14, <1>15
    <2>2. 2 * w \in Nat /\ 2 * w # 0
      BY <1>15
    <2>3. ((n - 1) \div v) \div (2 * w) = (n - 1) \div (v * (2 * w))
      BY <1>13, <1>22, <2>2, DivTwice
    <2> QED BY <2>1, <2>3
  <1>24. b \in Nat /\ b >= a
    <2>1. b \in Nat /\ n - 1 < v * b + v
      BY <1>13, <1>22
    <2> HIDE DEF b
    <2>2. v * a < v * (b + 1)
      BY <1>13, <1>16, <1>22, <2>1
    <2>3. a < b + 1
      BY <1>13, <1>16, <2>1, <2>2
    <2> QED BY <1>16, <2>1, <2>3
  <1>25. w = 1 => a % 2 = 1
    BY <1>9, <1>19
  <1>26. w # 1 => a = b
    <2> SUFFICES ASSUME w # 1 PROVE a = b
      OBVIOUS
    <2>1. v * w = 2 * v + v * (w - 2) /\ v * (w - 2) \in Nat
      BY <1>13, <1>15
    <2>2. v < p
      BY <1>13, <1>14, <2>1
    <2>3. s # 2 * p
      BY <1>2, <1>4, <1>12, <1>13, <2>2 DEF r
    <2>4. n = hi
      BY <1>7, <2>3
    <2>5. n - 1 = v * a + (r - 1) /\ r - 1 \in Nat /\ r - 1 < v
      BY <1>1, <1>2, <1>4, <1>11, <1>12, <1>13, <1>16, <1>22, <2>4 DEF r
    <2>6. (v * a + (r - 1)) \div v = a
      BY <1>13, <1>16, <2>5, DivIs
    <2> QED BY <2>5, <2>6
  <1> HIDE DEF b, at
  <1>27. at[1] = a /\ at[2] = b
    BY <1>10, <1>20
  <1>28. IsRight(at) /\ at[2] # 0
    BY <1>16, <1>17, <1>24, <1>25, <1>26, <1>27 DEF IsRight
  <1>29. Parent(at) = PlaceOf(n, part)
    BY <1>10, <1>18, <1>21, <1>23, <1>27 DEF Parent
  <1>30. Aligned(n, right)
    <2>1. right[1] = k /\ right[2] = hi
      BY DEF right
    <2>2. r = v \/ hi = n
      <3>1. CASE s = 2 * p
        <4>1. r = p
          BY <1>4, <3>1 DEF r
        <4> QED BY <1>3, <1>12, <4>1
      <3> QED BY <1>7, <3>1
    <2> QED BY <1>6, <1>8, <1>20, <2>1, <2>2 DEF Aligned, v
  <1> QED BY <1>28, <1>29, <1>30 DEF at, right, k, p, s, RightOf, HalfOf

(* The whole, where a verification ends.                                   *)
LEMMA WholeIsAligned ==
  ASSUME NEW n \in Nat, n # 0
  PROVE  Aligned(n, <<1, n>>) /\ PlaceOf(n, <<1, n>>) = <<0, 0>>
  <1> DEFINE whole == <<1, n>>
             u == Filled(n)
  <1>1. whole[1] = 1 /\ whole[2] = n /\ whole \in Parts(n) /\ SizeOf(whole) = n
    BY DEF Parts, SizeOf
  <1>2. u \in Nat /\ u # 0 /\ n <= u
    BY Units DEF Powers
  <1> HIDE DEF u, whole
  <1>3. 0 % u = 0 /\ 0 \div u = 0 /\ (n - 1) \div u = 0
    BY <1>2
  <1> QED BY <1>1, <1>3 DEF Aligned, PlaceOf, whole, u

-------------------------------------------------------------------------------
(* The recursions and folds of the proofs                                   *)

(* A recursion that appends to what it has for something smaller.          *)
Appends(f, D, Stop, init, next, sibling) ==
    f = [x \in D |-> IF x \in Stop THEN init[x] ELSE Append(f[next[x]], sibling[x])]

LEMMA AppendingExists ==
  ASSUME NEW D, NEW m \in Nat, NEW size \in [D -> 0..m], NEW Stop, NEW init, NEW next, NEW sibling,
         \A x \in D \ Stop : next[x] \in D /\ size[next[x]] < size[x]
  PROVE  \E f : Appends(f, D, Stop, init, next, sibling)
  <1> DEFINE Step(f, x) == IF x \in Stop THEN init[x] ELSE Append(f[next[x]], sibling[x])
             Solves(f, d) == /\ f = [x \in D |-> f[x]]
                             /\ \A x \in D : size[x] <= d => f[x] = Step(f, x)
             Unsolved == {d \in Nat : ~ \E f : Solves(f, d)}
  <1>1. Unsolved = {}
    <2> SUFFICES ASSUME Unsolved # {} PROVE FALSE
      OBVIOUS
    <2>1. PICK d \in Unsolved : \A e \in Unsolved : ~(e < d)
      <3>1. Unsolved \in SUBSET Nat
        OBVIOUS
      <3> HIDE DEF Unsolved
      <3> QED BY <3>1, SmallestNumber
    <2>2. PICK f : /\ f = [x \in D |-> f[x]]
                   /\ \A x \in D : size[x] < d => f[x] = Step(f, x)
      <3>1. CASE d = 0
        <4>1. \A x \in D : ~(size[x] < 0)
          OBVIOUS
        <4> DEFINE g == [x \in D |-> {}]
        <4>2. g = [x \in D |-> g[x]]
          OBVIOUS
        <4> HIDE DEF g
        <4> QED BY <3>1, <4>1, <4>2
      <3>2. CASE d # 0
        <4>1. d - 1 \in Nat /\ d - 1 < d
          BY <3>2
        <4>2. d - 1 \notin Unsolved
          <5> HIDE DEF Unsolved
          <5> QED BY <2>1, <4>1
        <4>3. PICK f : Solves(f, d - 1)
          BY <4>1, <4>2
        <4>4. \A x \in D : size[x] < d => size[x] <= d - 1
          BY <4>1
        <4> QED BY <4>3, <4>4
      <3> QED BY <3>1, <3>2
    <2> DEFINE g == [x \in D |-> IF size[x] < d THEN f[x] ELSE Step(f, x)]
    <2>3. ASSUME NEW x \in D, size[x] <= d PROVE g[x] = Step(g, x)
      <3>1. g[x] = Step(f, x)
        BY <2>2
      <3>2. CASE x \in Stop
        BY <3>1, <3>2
      <3>3. CASE x \notin Stop
        <4>1. next[x] \in D /\ size[next[x]] < d
          BY <2>3, <3>3
        <4>2. g[next[x]] = f[next[x]]
          BY <4>1
        <4> QED BY <3>1, <3>3, <4>2
      <3> QED BY <3>2, <3>3
    <2>4. g = [x \in D |-> g[x]]
      OBVIOUS
    <2> HIDE DEF g, Step
    <2>5. Solves(g, d)
      BY <2>3, <2>4
    <2> QED BY <2>5
  <1>2. PICK f : Solves(f, m)
    BY <1>1
  <1>3. f = [x \in D |-> Step(f, x)]
    <2>1. \A x \in D : size[x] <= m
      OBVIOUS
    <2> HIDE DEF Step
    <2> QED BY <1>2, <2>1
  <1> QED BY <1>3 DEF Appends

(* PathsOver is a solution of its recursion.                               *)
LEMMA PathsAreOver ==
  ASSUME NEW leaves, Len(leaves) \in Nat, NEW index \in Nat, NEW part \in Parts(Len(leaves))
  PROVE  PathsOver(leaves, index)[part] = PathOver(leaves, index, PathsOver(leaves, index), part)
  <1> DEFINE n == Len(leaves)
             D == Parts(n)
             K(x) == x[1] + Split(x[2] - x[1] + 1)
             size == [x \in D |-> x[2] - x[1]]
             Stop == {x \in D : x[1] = x[2]}
             next == [x \in D |-> IF index + 1 < K(x) THEN <<x[1], K(x) - 1>> ELSE <<K(x), x[2]>>]
             sibling == [x \in D |-> IF index + 1 < K(x) THEN RootOfPart(leaves, K(x), x[2])
                                     ELSE RootOfPart(leaves, x[1], K(x) - 1)]
             init == [x \in D |-> <<>>]
  <1>1. size \in [D -> 0..n]
    BY DEF Parts
  <1>2. \A x \in D \ Stop : next[x] \in D /\ size[next[x]] < size[x]
    <2> SUFFICES ASSUME NEW x \in D, x[1] # x[2] PROVE next[x] \in D /\ size[next[x]] < size[x]
      OBVIOUS
    <2>1. /\ K(x) \in Nat /\ x[1] < K(x) /\ K(x) <= x[2]
          /\ <<x[1], K(x) - 1>> \in D /\ <<K(x), x[2]>> \in D
      BY Halves
    <2>2. x[1] \in Nat /\ x[2] \in Nat
      BY DEF Parts
    <2> HIDE DEF K, D
    <2> QED BY <2>1, <2>2
  <1>3. PICK f : f = [x \in D |-> IF x \in Stop THEN init[x] ELSE Append(f[next[x]], sibling[x])]
    <2>1. n \in Nat
      OBVIOUS
    <2> HIDE DEF n, D, size, Stop, next, sibling, init
    <2>2. \E f : Appends(f, D, Stop, init, next, sibling)
      BY <1>1, <1>2, <2>1, AppendingExists
    <2> QED BY <2>2 DEF Appends
  <1>4. ASSUME NEW x \in D
        PROVE  (IF x \in Stop THEN init[x] ELSE Append(f[next[x]], sibling[x]))
                 = PathOver(leaves, index, f, x)
    <2> HIDE DEF D
    <2> QED BY DEF PathOver
  <1>5. f = [x \in D |-> PathOver(leaves, index, f, x)]
    <2> HIDE DEF Stop, init, next, sibling
    <2> QED BY <1>3, <1>4
  <1>6. PathsOver(leaves, index) = [x \in D |-> PathOver(leaves, index, PathsOver(leaves, index), x)]
    BY <1>5 DEF PathsOver
  <1> QED BY <1>6

LEMMA PathsAreFrom ==
  ASSUME NEW leaves, Len(leaves) \in Nat, NEW first \in Nat,
         NEW part \in Parts(Len(leaves)), first \in part[1]..part[2], NEW old \in BOOLEAN
  PROVE  PathsFrom(leaves, first)[<<part, old>>]
           = PathFrom(leaves, first, PathsFrom(leaves, first), <<part, old>>)
  <1> DEFINE n == Len(leaves)
             Around == {p \in Parts(n) : first \in p[1]..p[2]}
             D == Around \X BOOLEAN
             K(x) == x[1] + Split(x[2] - x[1] + 1)
             size == [x \in D |-> x[1][2] - x[1][1]]
             Stop == {x \in D : first = x[1][2]}
             next == [x \in D |-> IF first < K(x[1]) THEN <<<<x[1][1], K(x[1]) - 1>>, x[2]>>
                                  ELSE <<<<K(x[1]), x[1][2]>>, FALSE>>]
             sibling == [x \in D |-> IF first < K(x[1]) THEN RootOfPart(leaves, K(x[1]), x[1][2])
                                     ELSE RootOfPart(leaves, x[1][1], K(x[1]) - 1)]
             init == [x \in D |-> IF x[2] THEN <<>> ELSE <<RootOfPart(leaves, x[1][1], x[1][2])>>]
  <1>1. size \in [D -> 0..n]
    <2> SUFFICES ASSUME NEW x \in D PROVE x[1][2] - x[1][1] \in 0..n
      OBVIOUS
    <2>1. x[1] \in Parts(n)
      OBVIOUS
    <2> QED BY <2>1 DEF Parts
  <1>2. \A x \in D \ Stop : next[x] \in D /\ size[next[x]] < size[x]
    <2> SUFFICES ASSUME NEW x \in D, first # x[1][2] PROVE next[x] \in D /\ size[next[x]] < size[x]
      OBVIOUS
    <2> DEFINE p == x[1]
               lo == p[1]
               hi == p[2]
               k == K(p)
               left == <<lo, k - 1>>
               right == <<k, hi>>
    <2>1. p \in Parts(n) /\ first \in lo..hi /\ x[2] \in BOOLEAN
      OBVIOUS
    <2>2. lo \in Nat /\ hi \in Nat /\ lo # hi /\ first < hi
      BY <2>1 DEF Parts
    <2>3. k \in Nat /\ lo < k /\ k <= hi /\ left \in Parts(n) /\ right \in Parts(n)
      BY <2>1, <2>2, Halves
    <2>4. /\ left[1] = lo /\ left[2] = k - 1 /\ right[1] = k /\ right[2] = hi
          /\ size[x] = hi - lo
      OBVIOUS
    <2>5. next[x] = IF first < k THEN <<left, x[2]>> ELSE <<right, FALSE>>
      OBVIOUS
    <2> HIDE DEF K, k, left, right, lo, hi, p, next
    <2>6. CASE first < k
      <3>1. left \in Around /\ next[x] = <<left, x[2]>>
        BY <2>1, <2>2, <2>3, <2>4, <2>5, <2>6
      <3>2. next[x] \in D /\ next[x][1] = left
        BY <2>1, <3>1
      <3>3. size[next[x]] = (k - 1) - lo
        BY <2>4, <3>2
      <3> HIDE DEF D, size
      <3> QED BY <2>2, <2>3, <2>4, <3>2, <3>3
    <2>7. CASE ~(first < k)
      <3>1. next[x] = <<right, FALSE>> /\ FALSE \in BOOLEAN
        BY <2>5, <2>7, Zenon
      <3>2. next[x] \in D /\ next[x][1] = right
        <4>1. right \in Around
          BY <2>1, <2>2, <2>3, <2>4, <2>7
        <4>2. PICK b \in BOOLEAN : next[x] = <<right, b>>
          BY <3>1, Zenon
        <4> HIDE DEF Around
        <4> QED BY <4>1, <4>2
      <3>3. size[next[x]] = hi - k
        BY <2>4, <3>2
      <3> HIDE DEF D, size
      <3> QED BY <2>2, <2>3, <2>4, <3>2, <3>3
    <2> QED BY <2>6, <2>7
  <1>3. PICK f : f = [x \in D |-> IF x \in Stop THEN init[x] ELSE Append(f[next[x]], sibling[x])]
    <2>1. n \in Nat
      OBVIOUS
    <2> HIDE DEF n, D, size, Stop, next, sibling, init
    <2>2. \E f : Appends(f, D, Stop, init, next, sibling)
      BY <1>1, <1>2, <2>1, AppendingExists
    <2> QED BY <2>2 DEF Appends
  <1>4. ASSUME NEW x \in D
        PROVE  (IF x \in Stop THEN init[x] ELSE Append(f[next[x]], sibling[x]))
                 = PathFrom(leaves, first, f, x)
    <2> HIDE DEF D
    <2> QED BY DEF PathFrom
  <1>5. f = [x \in D |-> PathFrom(leaves, first, f, x)]
    <2> HIDE DEF Stop, init, next, sibling
    <2> QED BY <1>3, <1>4
  <1>6. PathsFrom(leaves, first) = [x \in D |-> PathFrom(leaves, first, PathsFrom(leaves, first), x)]
    BY <1>5 DEF PathsFrom
  <1>7. <<part, old>> \in D
    OBVIOUS
  <1> QED BY <1>6, <1>7

-------------------------------------------------------------------------------
(* Folds over sequences                                                    *)

(* What both verifiers have after the elements of some set of positions.   *)
Folding(f, m, path, start, both) ==
    f = [s \in SUBSET (1..m) |->
           IF s = {} THEN <<start, both>>
           ELSE <<Climb(f[s \ {Max(s)}][1], path[Max(s)]), ClimbBoth(f[s \ {Max(s)}][2], path[Max(s)])>>]

LEMMA FoldingExists ==
  ASSUME NEW m \in Nat, NEW path, NEW start, NEW both
  PROVE  \E f : Folding(f, m, path, start, both)
  <1> DEFINE Sets == SUBSET (1..m)
             Step(f, s) == IF s = {} THEN <<start, both>>
                           ELSE <<Climb(f[s \ {Max(s)}][1], path[Max(s)]),
                                  ClimbBoth(f[s \ {Max(s)}][2], path[Max(s)])>>
             Solves(f, d) == /\ f = [s \in Sets |-> f[s]]
                             /\ \A s \in Sets : s \subseteq 1..d => f[s] = Step(f, s)
             Unsolved == {d \in Nat : ~ \E f : Solves(f, d)}
  <1>1. Unsolved = {}
    <2> SUFFICES ASSUME Unsolved # {} PROVE FALSE
      OBVIOUS
    <2>1. PICK d \in Unsolved : \A e \in Unsolved : ~(e < d)
      <3>1. Unsolved \in SUBSET Nat
        OBVIOUS
      <3> HIDE DEF Unsolved
      <3> QED BY <3>1, SmallestNumber
    <2>2. CASE d = 0
      <3> DEFINE g == [s \in Sets |-> <<start, both>>]
      <3>1. \A s \in Sets : s \subseteq 1..d => s = {}
        BY <2>2
      <3>2. Solves(g, d)
        BY <3>1
      <3> QED BY <3>2
    <2>3. CASE d # 0
      <3>1. d - 1 \in Nat /\ d - 1 < d
        BY <2>3
      <3>2. PICK f : Solves(f, d - 1)
        <4>1. d - 1 \notin Unsolved
          <5> HIDE DEF Unsolved
          <5> QED BY <2>1, <3>1
        <4> QED BY <3>1, <4>1
      <3> DEFINE g == [s \in Sets |-> IF s \subseteq 1..(d - 1) THEN f[s] ELSE Step(f, s)]
      <3>3. ASSUME NEW s \in Sets, s \subseteq 1..d PROVE g[s] = Step(g, s)
        <4>1. g[s] = Step(f, s)
          BY <3>2
        <4>2. CASE s = {}
          BY <4>1, <4>2
        <4>3. CASE s # {}
          <5>1. Max(s) \in s /\ \A i \in s : i <= Max(s)
            <6>1. s \in SUBSET (1..d)
              BY <3>3
            <6> QED BY <4>3, <6>1, LargestOf
          <5> DEFINE t == s \ {Max(s)}
          <5>2. t \in Sets /\ t \subseteq 1..(d - 1)
            BY <3>1, <3>3, <5>1
          <5>3. g[t] = f[t]
            BY <5>2
          <5> HIDE DEF g
          <5> QED BY <4>1, <4>3, <5>3
        <4> QED BY <4>2, <4>3
      <3>4. g = [s \in Sets |-> g[s]]
        OBVIOUS
      <3> HIDE DEF g, Step, Sets
      <3>5. Solves(g, d)
        BY <3>3, <3>4
      <3> QED BY <3>5
    <2> QED BY <2>2, <2>3
  <1>2. PICK f : Solves(f, m)
    BY <1>1
  <1>3. f = [s \in Sets |-> Step(f, s)]
    <2> HIDE DEF Step
    <2> QED BY <1>2
  <1> QED BY <1>3 DEF Folding

(* The states of a verifier, sibling by sibling.                           *)
Climbing(c, start, m, path) ==
    c[0] = start /\ \A j \in 1..m : c[j] = Climb(c[j - 1], path[j])

ClimbingBoth(c, start, m, path) ==
    c[0] = start /\ \A j \in 1..m : c[j] = ClimbBoth(c[j - 1], path[j])

LEMMA Initials ==
  ASSUME NEW j \in Nat, j # 0
  PROVE  Max(1..j) = j /\ (1..j) \ {j} = 1..(j - 1) /\ 1..j # {}
  <1>1. 1..j \in SUBSET (1..j) /\ 1..j # {} /\ j \in 1..j
    OBVIOUS
  <1> DEFINE S == 1..j
             m == Max(S)
  <1>2. m \in S /\ \A i \in S : i <= m
    <2> HIDE DEF S
    <2> QED BY <1>1, LargestOf DEF S
  <1> HIDE DEF m
  <1>3. m = j
    BY <1>2
  <1>4. (1..j) \ {j} = 1..(j - 1)
    OBVIOUS
  <1> QED BY <1>1, <1>3, <1>4 DEF m

LEMMA ClimbsAlong ==
  ASSUME NEW m \in Nat, NEW path, DOMAIN path = 1..m, NEW start
  PROVE  \E c : Climbing(c, start, m, path) /\ FoldLeft(Climb, start, path) = c[m]
  <1> DEFINE Folded(f) == f = [s \in SUBSET (1..m) |->
                                 IF s = {} THEN start ELSE Climb(f[s \ {Max(s)}], path[Max(s)])]
  <1>1. PICK h : Folding(h, m, path, start, start)
    BY FoldingExists
  <1>2. Folded([s \in SUBSET (1..m) |-> h[s][1]])
    <2> DEFINE g == [s \in SUBSET (1..m) |-> h[s][1]]
    <2>1. ASSUME NEW s \in SUBSET (1..m)
          PROVE  g[s] = IF s = {} THEN start ELSE Climb(g[s \ {Max(s)}], path[Max(s)])
      <3>1. s \ {Max(s)} \in SUBSET (1..m)
        OBVIOUS
      <3>2. g[s] = h[s][1] /\ g[s \ {Max(s)}] = h[s \ {Max(s)}][1]
        BY <3>1
      <3>3. h[s] = IF s = {} THEN <<start, start>>
                   ELSE <<Climb(h[s \ {Max(s)}][1], path[Max(s)]),
                          ClimbBoth(h[s \ {Max(s)}][2], path[Max(s)])>>
        BY <1>1 DEF Folding
      <3>4. h[s][1] = IF s = {} THEN start ELSE Climb(h[s \ {Max(s)}][1], path[Max(s)])
        BY <3>3
      <3> HIDE DEF g
      <3> QED BY <3>2, <3>4
    <2> HIDE DEF g
    <2>2. g = [s \in SUBSET (1..m) |-> g[s]]
      BY DEF g
    <2>3. Folded(g)
      BY <2>1, <2>2
    <2> QED BY <2>3 DEF g
  <1> DEFINE f == CHOOSE g : Folded(g)
  <1>3. Folded(f)
    BY <1>2
  <1>4. FoldLeft(Climb, start, path) = f[1..m]
    BY DEF FoldLeft, MapThenFoldSet
  <1> HIDE DEF f
  <1> DEFINE c == [j \in 0..m |-> f[1..j]]
  <1>5. c[0] = start
    <2>1. 1..0 = {} /\ {} \in SUBSET (1..m)
      OBVIOUS
    <2>2. f[{}] = start
      BY <1>3
    <2> QED BY <2>1, <2>2
  <1>6. ASSUME NEW j \in 1..m PROVE c[j] = Climb(c[j - 1], path[j])
    <2>1. Max(1..j) = j /\ (1..j) \ {j} = 1..(j - 1) /\ 1..j # {}
      <3>1. j \in Nat /\ j # 0
        OBVIOUS
      <3> QED BY <3>1, Initials
    <2>2. 1..j \in SUBSET (1..m)
      OBVIOUS
    <2>3. f[1..j] = Climb(f[(1..j) \ {Max(1..j)}], path[Max(1..j)])
      BY <1>3, <2>1, <2>2
    <2>4. c[j] = f[1..j] /\ c[j - 1] = f[1..(j - 1)]
      OBVIOUS
    <2> HIDE DEF c
    <2> QED BY <2>1, <2>3, <2>4
  <1>7. c[m] = f[1..m]
    OBVIOUS
  <1> HIDE DEF c
  <1> QED BY <1>4, <1>5, <1>6, <1>7 DEF Climbing

LEMMA ClimbsBothAlong ==
  ASSUME NEW m \in Nat, NEW path, DOMAIN path = 1..m, NEW start
  PROVE  \E c : ClimbingBoth(c, start, m, path) /\ FoldLeft(ClimbBoth, start, path) = c[m]
  <1> DEFINE Folded(f) == f = [s \in SUBSET (1..m) |->
                                 IF s = {} THEN start ELSE ClimbBoth(f[s \ {Max(s)}], path[Max(s)])]
  <1>1. PICK h : Folding(h, m, path, start, start)
    BY FoldingExists
  <1>2. Folded([s \in SUBSET (1..m) |-> h[s][2]])
    <2> DEFINE g == [s \in SUBSET (1..m) |-> h[s][2]]
    <2>1. ASSUME NEW s \in SUBSET (1..m)
          PROVE  g[s] = IF s = {} THEN start ELSE ClimbBoth(g[s \ {Max(s)}], path[Max(s)])
      <3>1. s \ {Max(s)} \in SUBSET (1..m)
        OBVIOUS
      <3>2. g[s] = h[s][2] /\ g[s \ {Max(s)}] = h[s \ {Max(s)}][2]
        BY <3>1
      <3>3. h[s] = IF s = {} THEN <<start, start>>
                   ELSE <<Climb(h[s \ {Max(s)}][1], path[Max(s)]),
                          ClimbBoth(h[s \ {Max(s)}][2], path[Max(s)])>>
        BY <1>1 DEF Folding
      <3>4. h[s][2] = IF s = {} THEN start ELSE ClimbBoth(h[s \ {Max(s)}][2], path[Max(s)])
        BY <3>3
      <3> HIDE DEF g
      <3> QED BY <3>2, <3>4
    <2> HIDE DEF g
    <2>2. g = [s \in SUBSET (1..m) |-> g[s]]
      BY DEF g
    <2>3. Folded(g)
      BY <2>1, <2>2
    <2> QED BY <2>3 DEF g
  <1> DEFINE f == CHOOSE g : Folded(g)
  <1>3. Folded(f)
    BY <1>2
  <1>4. FoldLeft(ClimbBoth, start, path) = f[1..m]
    BY DEF FoldLeft, MapThenFoldSet
  <1> HIDE DEF f
  <1> DEFINE c == [j \in 0..m |-> f[1..j]]
  <1>5. c[0] = start
    <2>1. 1..0 = {} /\ {} \in SUBSET (1..m)
      OBVIOUS
    <2>2. f[{}] = start
      BY <1>3
    <2> QED BY <2>1, <2>2
  <1>6. ASSUME NEW j \in 1..m PROVE c[j] = ClimbBoth(c[j - 1], path[j])
    <2>1. Max(1..j) = j /\ (1..j) \ {j} = 1..(j - 1) /\ 1..j # {}
      <3>1. j \in Nat /\ j # 0
        OBVIOUS
      <3> QED BY <3>1, Initials
    <2>2. 1..j \in SUBSET (1..m)
      OBVIOUS
    <2>3. f[1..j] = ClimbBoth(f[(1..j) \ {Max(1..j)}], path[Max(1..j)])
      BY <1>3, <2>1, <2>2
    <2>4. c[j] = f[1..j] /\ c[j - 1] = f[1..(j - 1)]
      OBVIOUS
    <2> HIDE DEF c
    <2> QED BY <2>1, <2>3, <2>4
  <1>7. c[m] = f[1..m]
    OBVIOUS
  <1> HIDE DEF c
  <1> QED BY <1>4, <1>5, <1>6, <1>7 DEF ClimbingBoth

-------------------------------------------------------------------------------
(* Trees over parts                                                         *)

(* Of some parts, one of the smallest.                                     *)
LEMMA SmallestPart ==
  ASSUME NEW n \in Nat, NEW P \in SUBSET Parts(n), P # {}
  PROVE  \E part \in P : \A other \in P : ~(other[2] - other[1] < part[2] - part[1])
  <1> DEFINE Sizes == {part[2] - part[1] : part \in P}
  <1>1. Sizes \in SUBSET Nat /\ Sizes # {}
    BY DEF Parts
  <1>2. PICK size \in Sizes : \A other \in Sizes : ~(other < size)
    <2> HIDE DEF Sizes
    <2> QED BY <1>1, SmallestNumber
  <1>3. PICK part \in P : size = part[2] - part[1]
    OBVIOUS
  <1>4. \A other \in P : other[2] - other[1] \in Sizes
    OBVIOUS
  <1> HIDE DEF Sizes
  <1> QED BY <1>2, <1>3, <1>4

LEMMA HalvesAre ==
  ASSUME NEW n \in Nat, NEW part \in Parts(n), part[1] # part[2]
  PROVE  /\ HalfOf(part) \in Nat /\ part[1] < HalfOf(part) /\ HalfOf(part) <= part[2]
         /\ LeftOf(part) \in Parts(n) /\ LeftOf(part)[1] = part[1] /\ LeftOf(part)[2] = HalfOf(part) - 1
         /\ RightOf(part) \in Parts(n) /\ RightOf(part)[1] = HalfOf(part) /\ RightOf(part)[2] = part[2]
         /\ part[1] \in 1..n /\ part[2] \in 1..n /\ part[1] < part[2]
  <1>1. part[1] \in 1..n /\ part[2] \in 1..n /\ part[1] < part[2]
    BY DEF Parts
  <1> QED BY <1>1, Halves DEF HalfOf, LeftOf, RightOf, SizeOf

LEMMA TreeIs ==
  ASSUME NEW a, Len(a) \in Nat, NEW part \in Parts(Len(a))
  PROVE  TreesOver(a)[part] = IF part[1] = part[2] THEN Leaf(a[part[1]])
                              ELSE Node(TreesOver(a)[LeftOf(part)], TreesOver(a)[RightOf(part)])
  BY TreesAreGrown DEF TreeOver, LeftOf, RightOf, HalfOf, SizeOf

(* Equal leaves have equal trees, wherever they are in their sequences:    *)
(* the split of a part depends on its size alone.                          *)
Moved(off, part) == <<off + part[1], off + part[2]>>

Same(a, b, off, part) == \A i \in part[1]..part[2] : b[i] = a[off + i]

LEMMA TreesShift ==
  ASSUME NEW n \in Nat, NEW m \in Nat, NEW off \in Nat, off + m <= n,
         NEW a, NEW b, Len(a) = n, Len(b) = m,
         NEW whole \in Parts(m), Same(a, b, off, whole)
  PROVE  TreesOver(b)[whole] = TreesOver(a)[Moved(off, whole)]
  <1> DEFINE Wrong == {part \in Parts(m) : Same(a, b, off, part)
                                         /\ TreesOver(b)[part] # TreesOver(a)[Moved(off, part)]}
  <1> SUFFICES ASSUME Wrong # {} PROVE FALSE
    OBVIOUS
  <1>1. PICK part \in Wrong : \A other \in Wrong : ~(other[2] - other[1] < part[2] - part[1])
    <2>1. Wrong \in SUBSET Parts(m)
      OBVIOUS
    <2> HIDE DEF Wrong
    <2> QED BY <2>1, SmallestPart
  <1> DEFINE lo == part[1]
             hi == part[2]
             moved == Moved(off, part)
  <1>2. part \in Parts(m) /\ Same(a, b, off, part) /\ TreesOver(b)[part] # TreesOver(a)[moved]
    OBVIOUS
  <1>3. lo \in 1..m /\ hi \in 1..m /\ lo <= hi
    BY <1>2 DEF Parts
  <1>4. moved[1] = off + lo /\ moved[2] = off + hi /\ moved \in Parts(n)
    BY <1>3 DEF Parts, Moved
  <1>5. CASE lo = hi
    <2>1. TreesOver(b)[part] = Leaf(b[lo])
      BY <1>2, <1>5, TreeIs
    <2>2. TreesOver(a)[moved] = Leaf(a[off + lo])
      <3>1. moved[1] = moved[2] /\ moved[1] = off + lo
        BY <1>4, <1>5
      <3> HIDE DEF moved
      <3> QED BY <1>4, <3>1, TreeIs
    <2>3. b[lo] = a[off + lo]
      BY <1>2, <1>3, <1>5 DEF Same
    <2> QED BY <1>2, <2>1, <2>2, <2>3
  <1>6. CASE lo # hi
    <2> DEFINE k == HalfOf(part)
               left == LeftOf(part)
               right == RightOf(part)
    <2>1. /\ k \in Nat /\ lo < k /\ k <= hi /\ left \in Parts(m) /\ right \in Parts(m)
          /\ left[1] = lo /\ left[2] = k - 1 /\ right[1] = k /\ right[2] = hi
      BY <1>2, <1>6, HalvesAre
    <2>2. HalfOf(moved) = off + k
      <3>1. (off + hi) - (off + lo) = hi - lo
        BY <1>3
      <3>2. HalfOf(moved) = moved[1] + Split(moved[2] - moved[1] + 1)
        BY DEF HalfOf, SizeOf
      <3>3. k = lo + Split(hi - lo + 1)
        BY DEF HalfOf, SizeOf
      <3> HIDE DEF lo, hi, moved, k
      <3>4. HalfOf(moved) = (off + lo) + Split(hi - lo + 1)
        BY <1>4, <3>1, <3>2
      <3>5. Split(hi - lo + 1) \in Nat
        <4>1. hi - lo + 1 \in Nat /\ hi - lo + 1 >= 2
          BY <1>3, <1>6
        <4> QED BY <4>1, Splits2 DEF Powers
      <3> QED BY <1>3, <3>3, <3>4, <3>5
    <2> HIDE DEF k, left, right, Wrong
    <2>3. LeftOf(moved) = Moved(off, left) /\ RightOf(moved) = Moved(off, right)
      <3>1. (off + k) - 1 = off + (k - 1)
        BY <2>1
      <3> HIDE DEF moved
      <3> QED BY <1>4, <2>1, <2>2, <3>1 DEF LeftOf, RightOf, Moved
    <2>4. left \notin Wrong /\ right \notin Wrong
      BY <1>1, <1>3, <2>1
    <2>5. Same(a, b, off, left) /\ Same(a, b, off, right)
      BY <1>2, <1>3, <2>1 DEF Same
    <2>6. TreesOver(b)[left] = TreesOver(a)[Moved(off, left)] /\ TreesOver(b)[right] = TreesOver(a)[Moved(off, right)]
      BY <2>1, <2>4, <2>5 DEF Wrong
    <2>7. TreesOver(b)[part] = Node(TreesOver(b)[left], TreesOver(b)[right])
      BY <1>2, <1>6, TreeIs DEF left, right
    <2>8. TreesOver(a)[moved] = Node(TreesOver(a)[LeftOf(moved)], TreesOver(a)[RightOf(moved)])
      <3>1. moved[1] # moved[2]
        BY <1>3, <1>4, <1>6
      <3> HIDE DEF moved
      <3> QED BY <1>4, <3>1, TreeIs
    <2> QED BY <1>2, <2>3, <2>6, <2>7, <2>8
  <1> QED BY <1>5, <1>6

(* A tree tells its first leaf.                                            *)
LEMMA TreesTellFirst ==
  ASSUME NEW n \in Nat, NEW m \in Nat, NEW a, NEW b, Len(a) = n, Len(b) = m,
         NEW p \in Parts(n), NEW q \in Parts(m), TreesOver(a)[p] = TreesOver(b)[q]
  PROVE  a[p[1]] = b[q[1]]
  <1> DEFINE Wrong == {x \in Parts(n) : \E y \in Parts(m) :
                         TreesOver(a)[x] = TreesOver(b)[y] /\ a[x[1]] # b[y[1]]}
  <1> SUFFICES ASSUME Wrong # {} PROVE FALSE
    OBVIOUS
  <1>1. PICK x \in Wrong : \A other \in Wrong : ~(other[2] - other[1] < x[2] - x[1])
    <2>1. Wrong \in SUBSET Parts(n)
      OBVIOUS
    <2> HIDE DEF Wrong
    <2> QED BY <2>1, SmallestPart
  <1>2. x \in Parts(n)
    OBVIOUS
  <1>3. PICK y \in Parts(m) : TreesOver(a)[x] = TreesOver(b)[y] /\ a[x[1]] # b[y[1]]
    BY <1>1
  <1> HIDE DEF Wrong
  <1>4. TreesOver(a)[x] = IF x[1] = x[2] THEN Leaf(a[x[1]])
                          ELSE Node(TreesOver(a)[LeftOf(x)], TreesOver(a)[RightOf(x)])
    BY <1>2, TreeIs
  <1>5. TreesOver(b)[y] = IF y[1] = y[2] THEN Leaf(b[y[1]])
                          ELSE Node(TreesOver(b)[LeftOf(y)], TreesOver(b)[RightOf(y)])
    BY TreeIs
  <1>6. \A d, l, r : Leaf(d) # Node(l, r)
    BY DEF Leaf, Node
  <1>7. CASE x[1] = x[2]
    <2>1. y[1] = y[2]
      BY <1>3, <1>4, <1>5, <1>6, <1>7
    <2>2. Leaf(a[x[1]]) = Leaf(b[y[1]])
      BY <1>3, <1>4, <1>5, <1>7, <2>1
    <2> QED BY <1>3, <2>2 DEF Leaf
  <1>8. CASE x[1] # x[2]
    <2>1. y[1] # y[2]
      BY <1>3, <1>4, <1>5, <1>6, <1>8
    <2>2. TreesOver(a)[LeftOf(x)] = TreesOver(b)[LeftOf(y)]
      <3>1. Node(TreesOver(a)[LeftOf(x)], TreesOver(a)[RightOf(x)])
              = Node(TreesOver(b)[LeftOf(y)], TreesOver(b)[RightOf(y)])
        BY <1>3, <1>4, <1>5, <1>8, <2>1
      <3> QED BY <3>1 DEF Node
    <2>3. /\ LeftOf(x) \in Parts(n) /\ LeftOf(x)[1] = x[1]
          /\ LeftOf(x)[2] - LeftOf(x)[1] < x[2] - x[1]
      BY <1>2, <1>8, HalvesAre
    <2>4. LeftOf(y) \in Parts(m) /\ LeftOf(y)[1] = y[1]
      BY <2>1, HalvesAre
    <2>5. LeftOf(x) \notin Wrong
      BY <1>1, <2>3
    <2>6. a[LeftOf(x)[1]] = b[LeftOf(y)[1]]
      BY <2>2, <2>3, <2>4, <2>5 DEF Wrong
    <2> QED BY <1>3, <2>3, <2>4, <2>6
  <1> QED BY <1>7, <1>8

(* The root of a part is its tree in the whole.                            *)
LEMMA PartsAreTrees ==
  ASSUME NEW S, NEW a \in Seq(S), NEW part \in Parts(Len(a))
  PROVE  RootOfPart(a, part[1], part[2]) = TreesOver(a)[part]
  <1> DEFINE n == Len(a)
             lo == part[1]
             hi == part[2]
             b == SubSeq(a, lo, hi)
             m == hi - lo + 1
  <1>1. lo \in 1..n /\ hi \in 1..n /\ lo <= hi /\ part = <<lo, hi>> /\ n \in Nat
    BY DEF Parts
  <1>2. m \in Nat /\ m # 0 /\ lo - 1 \in Nat /\ (lo - 1) + m <= n
    BY <1>1
  <1>3. b \in Seq(S) /\ Len(b) = m /\ \A i \in 1..m : b[i] = a[lo + i - 1]
    BY <1>1, SubSeqProperties
  <1>4. \A i \in 1..m : lo + i - 1 = (lo - 1) + i
    BY <1>1
  <1> HIDE DEF lo, hi, m, b, n
  <1>5. \A i \in 1..m : b[i] = a[(lo - 1) + i]
    BY <1>3, <1>4
  <1>6. <<1, m>> \in Parts(m) /\ <<1, m>>[1] = 1 /\ <<1, m>>[2] = m
    BY <1>2 DEF Parts
  <1>7. TreesOver(b)[<<1, m>>] = TreesOver(a)[<<(lo - 1) + 1, (lo - 1) + m>>]
    <2>1. Len(a) = n /\ n \in Nat
      BY <1>1 DEF n
    <2> DEFINE off == lo - 1
               whole == <<1, m>>
    <2>2. Same(a, b, off, whole)
      BY <1>5, <1>6 DEF Same
    <2>3. off \in Nat /\ off + m <= n
      BY <1>2
    <2>4. whole \in Parts(m) /\ whole[1] = 1 /\ whole[2] = m
      BY <1>6
    <2> HIDE DEF off, whole
    <2>5. TreesOver(b)[whole] = TreesOver(a)[Moved(off, whole)]
      BY <1>2, <1>3, <2>1, <2>2, <2>3, <2>4, TreesShift
    <2>6. Moved(off, whole) = <<off + 1, off + m>>
      BY <2>4 DEF Moved
    <2> QED BY <2>5, <2>6 DEF off, whole
  <1>8. (lo - 1) + 1 = lo /\ (lo - 1) + m = hi
    BY <1>1 DEF m
  <1>9. RootOf(b) = TreesOver(b)[<<1, m>>]
    <2>1. b # <<>>
      BY <1>2, <1>3
    <2> QED BY <1>3, <2>1 DEF RootOf
  <1> QED BY <1>1, <1>7, <1>8, <1>9 DEF RootOfPart, b, lo, hi

-------------------------------------------------------------------------------
(* Inclusion                                                                *)

(* The siblings of all parts.                                              *)
Siblings(a) == {TreesOver(a)[part] : part \in Parts(Len(a))}

LEMMA PathIs ==
  ASSUME NEW S, NEW a \in Seq(S), NEW x \in 1..Len(a), NEW part \in Parts(Len(a))
  PROVE  PathsOver(a, x - 1)[part]
           = IF part[1] = part[2] THEN <<>>
             ELSE IF x < HalfOf(part)
             THEN Append(PathsOver(a, x - 1)[LeftOf(part)], TreesOver(a)[RightOf(part)])
             ELSE Append(PathsOver(a, x - 1)[RightOf(part)], TreesOver(a)[LeftOf(part)])
  <1> DEFINE n == Len(a)
             path == PathsOver(a, x - 1)
             k == HalfOf(part)
  <1>1. n \in Nat /\ x - 1 \in Nat /\ (x - 1) + 1 = x
    OBVIOUS
  <1>2. path[part] = PathOver(a, x - 1, path, part)
    BY <1>1, PathsAreOver
  <1>3. path[part] = IF part[1] = part[2] THEN <<>>
                     ELSE IF x < k
                     THEN Append(path[<<part[1], k - 1>>], RootOfPart(a, k, part[2]))
                     ELSE Append(path[<<k, part[2]>>], RootOfPart(a, part[1], k - 1))
    <2> HIDE DEF path
    <2> QED BY <1>1, <1>2 DEF PathOver, HalfOf, SizeOf
  <1>4. CASE part[1] # part[2]
    <2>1. RootOfPart(a, k, part[2]) = TreesOver(a)[RightOf(part)]
      <3>1. RightOf(part) \in Parts(n) /\ RightOf(part)[1] = k /\ RightOf(part)[2] = part[2]
        BY <1>1, <1>4, HalvesAre
      <3> HIDE DEF k, n
      <3> QED BY <3>1, PartsAreTrees DEF n
    <2>2. RootOfPart(a, part[1], k - 1) = TreesOver(a)[LeftOf(part)]
      <3>1. LeftOf(part) \in Parts(n) /\ LeftOf(part)[1] = part[1] /\ LeftOf(part)[2] = k - 1
        BY <1>1, <1>4, HalvesAre
      <3> HIDE DEF k, n
      <3> QED BY <3>1, PartsAreTrees DEF n
    <2>3. LeftOf(part) = <<part[1], k - 1>> /\ RightOf(part) = <<k, part[2]>>
      BY DEF LeftOf, RightOf
    <2> QED BY <1>3, <1>4, <2>1, <2>2, <2>3
  <1>5. CASE part[1] = part[2]
    BY <1>3, <1>5
  <1> QED BY <1>4, <1>5

LEMMA PathsAreSequences ==
  ASSUME NEW S, NEW a \in Seq(S), NEW x \in 1..Len(a), NEW whole \in Parts(Len(a))
  PROVE  PathsOver(a, x - 1)[whole] \in Seq(Siblings(a))
  <1> DEFINE n == Len(a)
             path == PathsOver(a, x - 1)
             Wrong == {part \in Parts(n) : path[part] \notin Seq(Siblings(a))}
  <1> SUFFICES ASSUME Wrong # {} PROVE FALSE
    OBVIOUS
  <1>0. n \in Nat
    OBVIOUS
  <1>1. PICK part \in Wrong : \A other \in Wrong : ~(other[2] - other[1] < part[2] - part[1])
    <2>1. Wrong \in SUBSET Parts(n)
      OBVIOUS
    <2> HIDE DEF Wrong, n
    <2> QED BY <1>0, <2>1, SmallestPart
  <1>2. part \in Parts(n) /\ path[part] \notin Seq(Siblings(a))
    OBVIOUS
  <1>3. path[part] = IF part[1] = part[2] THEN <<>>
                     ELSE IF x < HalfOf(part)
                     THEN Append(path[LeftOf(part)], TreesOver(a)[RightOf(part)])
                     ELSE Append(path[RightOf(part)], TreesOver(a)[LeftOf(part)])
    BY <1>2, PathIs
  <1>4. part[1] # part[2]
    <2> SUFFICES ASSUME part[1] = part[2] PROVE FALSE
      OBVIOUS
    <2>1. path[part] = <<>>
      BY <1>3
    <2>2. path[part] \in Seq(Siblings(a))
      <3> HIDE DEF path
      <3>1. <<>> \in Seq(Siblings(a))
        OBVIOUS
      <3> QED BY <2>1, <3>1
    <2> QED BY <1>2, <2>2
  <1>5. /\ LeftOf(part) \in Parts(n) /\ RightOf(part) \in Parts(n)
        /\ LeftOf(part)[2] - LeftOf(part)[1] < part[2] - part[1]
        /\ RightOf(part)[2] - RightOf(part)[1] < part[2] - part[1]
    BY <1>0, <1>2, <1>4, HalvesAre
  <1>6. LeftOf(part) \notin Wrong /\ RightOf(part) \notin Wrong
    BY <1>1, <1>5
  <1>7. path[LeftOf(part)] \in Seq(Siblings(a)) /\ path[RightOf(part)] \in Seq(Siblings(a))
    BY <1>5, <1>6
  <1>8. TreesOver(a)[LeftOf(part)] \in Siblings(a) /\ TreesOver(a)[RightOf(part)] \in Siblings(a)
    BY <1>5 DEF Siblings
  <1> HIDE DEF path
  <1> QED BY <1>2, <1>3, <1>4, <1>7, <1>8

(* The half of a part that has an element, and the other one.              *)
Near(part, x) == IF x < HalfOf(part) THEN LeftOf(part) ELSE RightOf(part)
Far(part, x) == IF x < HalfOf(part) THEN RightOf(part) ELSE LeftOf(part)

(* How far up a part is for an element.                                    *)
Depth(a, x, part) == Len(PathsOver(a, x - 1)[part])

Within(part, x) == x \in part[1]..part[2]

LEMMA NearIsNear ==
  ASSUME NEW n \in Nat, NEW part \in Parts(n), part[1] # part[2], NEW x \in part[1]..part[2]
  PROVE  /\ Near(part, x) \in Parts(n) /\ Far(part, x) \in Parts(n) /\ Within(Near(part, x), x)
         /\ Near(part, x)[2] - Near(part, x)[1] < part[2] - part[1]
         /\ x \in 1..n
         /\ \A i \in part[1]..part[2] : Within(Near(part, x), i) \/ Within(Far(part, x), i)
         /\ \A i \in Nat : Within(Near(part, x), i) \/ Within(Far(part, x), i) => i \in part[1]..part[2]
  <1> DEFINE k == HalfOf(part)
             left == LeftOf(part)
             right == RightOf(part)
             lo == part[1]
             hi == part[2]
  <1>1. /\ k \in Nat /\ lo < k /\ k <= hi
        /\ left \in Parts(n) /\ left[1] = lo /\ left[2] = k - 1
        /\ right \in Parts(n) /\ right[1] = k /\ right[2] = hi
        /\ lo \in 1..n /\ hi \in 1..n /\ lo < hi
    BY HalvesAre
  <1> HIDE DEF k, left, right
  <1>2. CASE x < k
    <2>1. Near(part, x) = left /\ Far(part, x) = right
      BY <1>2 DEF Near, Far, k, left, right
    <2> QED BY <1>1, <1>2, <2>1 DEF Within
  <1>3. CASE ~(x < k)
    <2>1. Near(part, x) = right /\ Far(part, x) = left
      BY <1>3 DEF Near, Far, k, left, right
    <2> QED BY <1>1, <1>3, <2>1 DEF Within
  <1> QED BY <1>2, <1>3

(* A path is the path of the nearer half and the root of the other one.    *)
LEMMA PathGoesOn ==
  ASSUME NEW S, NEW a \in Seq(S), NEW part \in Parts(Len(a)), NEW x \in part[1]..part[2],
         part[1] # part[2]
  PROVE  LET path == PathsOver(a, x - 1)
             near == Near(part, x)
         IN /\ Depth(a, x, near) \in Nat
            /\ Depth(a, x, part) = Depth(a, x, near) + 1
            /\ path[part][Depth(a, x, part)] = TreesOver(a)[Far(part, x)]
            /\ \A j \in 1..Depth(a, x, near) : path[part][j] = path[near][j]
  <1> DEFINE n == Len(a)
             path == PathsOver(a, x - 1)
             near == Near(part, x)
             far == Far(part, x)
  <1>0. n \in Nat
    OBVIOUS
  <1>1. near \in Parts(n) /\ far \in Parts(n) /\ x \in 1..n
    BY <1>0, NearIsNear
  <1>2. path[part] = Append(path[near], TreesOver(a)[far])
    BY <1>1, PathIs DEF Near, Far
  <1>3. path[near] \in Seq(Siblings(a)) /\ TreesOver(a)[far] \in Siblings(a)
    BY <1>1, PathsAreSequences DEF Siblings
  <1> HIDE DEF path, near, far
  <1>4. /\ Len(path[near]) \in Nat
        /\ Len(path[part]) = Len(path[near]) + 1
        /\ path[part][Len(path[part])] = TreesOver(a)[far]
        /\ \A j \in 1..Len(path[near]) : path[part][j] = path[near][j]
    BY <1>2, <1>3
  <1> QED BY <1>4 DEF Depth, path, near, far

LEMMA PathStarts ==
  ASSUME NEW S, NEW a \in Seq(S), NEW part \in Parts(Len(a)), NEW x \in part[1]..part[2],
         part[1] = part[2]
  PROVE  Depth(a, x, part) = 0 /\ x = part[1]
  <1>1. x = part[1] /\ x \in 1..Len(a)
    BY DEF Parts
  <1>2. PathsOver(a, x - 1)[part] = <<>>
    BY <1>1, PathIs
  <1> QED BY <1>1, <1>2 DEF Depth

LEMMA AlignedHalves ==
  ASSUME NEW n \in Nat, NEW part, Aligned(n, part), part[1] # part[2], NEW x \in part[1]..part[2]
  PROVE  /\ Aligned(n, Near(part, x)) /\ PlaceOf(n, Near(part, x))[2] # 0
         /\ IF x < HalfOf(part)
            THEN /\ ~IsRight(PlaceOf(n, Near(part, x)))
                 /\ <<PlaceOf(n, Near(part, x))[1] \div 2, PlaceOf(n, Near(part, x))[2] \div 2>>
                      = PlaceOf(n, part)
            ELSE /\ IsRight(PlaceOf(n, Near(part, x)))
                 /\ Parent(PlaceOf(n, Near(part, x))) = PlaceOf(n, part)
  <1>2. CASE x < HalfOf(part)
    <2>1. Near(part, x) = LeftOf(part)
      BY <1>2 DEF Near
    <2>2. /\ Aligned(n, LeftOf(part)) /\ PlaceOf(n, LeftOf(part))[2] # 0
          /\ ~IsRight(PlaceOf(n, LeftOf(part)))
          /\ <<PlaceOf(n, LeftOf(part))[1] \div 2, PlaceOf(n, LeftOf(part))[2] \div 2>>
               = PlaceOf(n, part)
      BY StepsLeft
    <2> QED BY <1>2, <2>1, <2>2
  <1>3. CASE ~(x < HalfOf(part))
    <2>1. Near(part, x) = RightOf(part)
      BY <1>3 DEF Near
    <2> QED BY <1>3, <2>1, StepsRight
  <1> QED BY <1>2, <1>3

(* The state of a verifier that has the hash of a part.                    *)
Meets(n, s, part) == s = [place |-> PlaceOf(n, part), hash |-> s.hash, fits |-> TRUE]

LEMMA ClimbsToPart ==
  ASSUME NEW n \in Nat, NEW part, Aligned(n, part), part[1] # part[2], NEW x \in part[1]..part[2],
         NEW s, Meets(n, s, Near(part, x)), NEW sibling
  PROVE  /\ Meets(n, Climb(s, sibling), part)
         /\ Climb(s, sibling).hash = IF x < HalfOf(part) THEN Node(s.hash, sibling)
                                     ELSE Node(sibling, s.hash)
  <1> DEFINE at == PlaceOf(n, Near(part, x))
             to == PlaceOf(n, part)
             hash == s.hash
  <1>1. s = [place |-> at, hash |-> hash, fits |-> TRUE]
    BY DEF Meets
  <1>2. CASE x < HalfOf(part)
    <2>1. at[2] # 0 /\ ~IsRight(at) /\ <<at[1] \div 2, at[2] \div 2>> = to
      BY <1>2, AlignedHalves
    <2> HIDE DEF at, to, hash
    <2>2. Climb(s, sibling) = [place |-> <<at[1] \div 2, at[2] \div 2>>,
                               hash |-> Node(hash, sibling), fits |-> TRUE]
      BY <1>1, <2>1 DEF Climb
    <2>3. Climb(s, sibling) = [place |-> to, hash |-> Node(hash, sibling), fits |-> TRUE]
      BY <2>1, <2>2
    <2>4. Climb(s, sibling).hash = Node(hash, sibling)
      BY <2>3
    <2> QED BY <1>2, <2>3, <2>4 DEF Meets, to, hash
  <1>3. CASE ~(x < HalfOf(part))
    <2>1. at[2] # 0 /\ IsRight(at) /\ Parent(at) = to
      BY <1>3, AlignedHalves
    <2> HIDE DEF at, to, hash
    <2>2. Climb(s, sibling) = [place |-> Parent(at), hash |-> Node(sibling, hash), fits |-> TRUE]
      BY <1>1, <2>1 DEF Climb
    <2> QED BY <1>3, <2>1, <2>2 DEF Meets, to, hash
  <1> QED BY <1>2, <1>3

StartOf(n, y, digest) == [place |-> <<y - 1, n - 1>>, hash |-> Leaf(digest), fits |-> TRUE]

LEMMA StartMeets ==
  ASSUME NEW n \in Nat, NEW y \in 1..n, NEW digest
  PROVE  Meets(n, StartOf(n, y, digest), <<y, y>>)
  <1> DEFINE part == <<y, y>>
  <1>1. part[1] = y /\ part[2] = y
    OBVIOUS
  <1> HIDE DEF part
  <1>2. SizeOf(part) = 1
    BY <1>1 DEF SizeOf
  <1>3. PlaceOf(n, part) = <<y - 1, n - 1>>
    <2>1. (y - 1) \div 1 = y - 1 /\ (n - 1) \div 1 = n - 1
      OBVIOUS
    <2> QED BY <1>1, <1>2, <2>1 DEF PlaceOf, Filled
  <1> QED BY <1>3 DEF Meets, StartOf, part

(* The verifier has the hash of every part around the leaf, one after the  *)
(* other, for as long as it has siblings.                                  *)
LEMMA ClimbMeets ==
  ASSUME NEW S, NEW a \in Seq(S), NEW n, n = Len(a), NEW y \in 1..n, NEW digest, NEW m \in Nat,
         NEW path, NEW c, Climbing(c, StartOf(n, y, digest), m, path),
         NEW whole, Aligned(n, whole), y \in whole[1]..whole[2], Depth(a, y, whole) <= m
  PROVE  Meets(n, c[Depth(a, y, whole)], whole)
  <1> DEFINE depth(part) == Depth(a, y, part)
             Wrong == {part \in Parts(n) : /\ Aligned(n, part) /\ y \in part[1]..part[2]
                                           /\ depth(part) <= m /\ ~Meets(n, c[depth(part)], part)}
  <1> SUFFICES ASSUME Wrong # {} PROVE FALSE
    BY DEF Aligned
  <1>1. n \in Nat
    OBVIOUS
  <1>2. PICK part \in Wrong : \A other \in Wrong : ~(other[2] - other[1] < part[2] - part[1])
    <2>1. Wrong \in SUBSET Parts(n)
      OBVIOUS
    <2> HIDE DEF Wrong
    <2> QED BY <1>1, <2>1, SmallestPart
  <1>3. /\ part \in Parts(n) /\ Aligned(n, part) /\ y \in part[1]..part[2]
        /\ depth(part) <= m /\ ~Meets(n, c[depth(part)], part)
    OBVIOUS
  <1>4. CASE part[1] = part[2]
    <2>1. depth(part) = 0 /\ y = part[1] /\ part = <<y, y>>
      <3>1. depth(part) = 0 /\ y = part[1]
        BY <1>3, <1>4, PathStarts
      <3>2. part = <<part[1], part[2]>>
        BY <1>3 DEF Parts
      <3> QED BY <1>4, <3>1, <3>2
    <2>2. c[0] = StartOf(n, y, digest)
      BY DEF Climbing
    <2> QED BY <1>1, <1>3, <2>1, <2>2, StartMeets
  <1>5. CASE part[1] # part[2]
    <2> DEFINE near == Near(part, y)
    <2>1. near \in Parts(n) /\ y \in near[1]..near[2] /\ near[2] - near[1] < part[2] - part[1]
      BY <1>1, <1>3, <1>5, NearIsNear DEF Within
    <2>2. Aligned(n, near)
      BY <1>1, <1>3, <1>5, AlignedHalves
    <2>3. depth(near) \in Nat /\ depth(part) = depth(near) + 1
      BY <1>3, <1>5, PathGoesOn
    <2>4. near \notin Wrong
      BY <1>2, <2>1
    <2> HIDE DEF near, depth
    <2>5. Meets(n, c[depth(near)], near)
      BY <1>3, <2>1, <2>2, <2>3, <2>4
    <2>6. c[depth(part)] = Climb(c[depth(near)], path[depth(part)])
      <3>1. depth(part) \in 1..m /\ depth(part) - 1 = depth(near)
        BY <1>3, <2>3
      <3> QED BY <3>1 DEF Climbing
    <2> QED BY <1>1, <1>3, <1>5, <2>5, <2>6, ClimbsToPart DEF near
  <1> QED BY <1>4, <1>5

(* On the way to a part there is a smaller one for every step.             *)
LEMMA Levels ==
  ASSUME NEW S, NEW a \in Seq(S), NEW n, n = Len(a), NEW y \in 1..n,
         NEW whole, Aligned(n, whole), y \in whole[1]..whole[2],
         NEW j \in Nat, j < Depth(a, y, whole)
  PROVE  \E part : /\ Aligned(n, part) /\ y \in part[1]..part[2]
                   /\ Depth(a, y, part) = j /\ PlaceOf(n, part)[2] # 0
  <1> DEFINE depth(part) == Depth(a, y, part)
             Found(part) == /\ Aligned(n, part) /\ y \in part[1]..part[2]
                            /\ depth(part) = j /\ PlaceOf(n, part)[2] # 0
             Wrong == {part \in Parts(n) : /\ Aligned(n, part) /\ y \in part[1]..part[2]
                                           /\ j < depth(part) /\ ~ \E other : Found(other)}
  <1> SUFFICES ASSUME Wrong # {} PROVE FALSE
    BY DEF Aligned
  <1>1. n \in Nat
    OBVIOUS
  <1>2. PICK part \in Wrong : \A other \in Wrong : ~(other[2] - other[1] < part[2] - part[1])
    <2>1. Wrong \in SUBSET Parts(n)
      OBVIOUS
    <2> HIDE DEF Wrong
    <2> QED BY <1>1, <2>1, SmallestPart
  <1>3. /\ part \in Parts(n) /\ Aligned(n, part) /\ y \in part[1]..part[2]
        /\ j < depth(part) /\ ~ \E other : Found(other)
    BY <1>2
  <1>4. part[1] # part[2]
    BY <1>3, PathStarts
  <1> DEFINE near == Near(part, y)
  <1>5. near \in Parts(n) /\ y \in near[1]..near[2] /\ near[2] - near[1] < part[2] - part[1]
    BY <1>1, <1>3, <1>4, NearIsNear DEF Within
  <1>6. Aligned(n, near) /\ PlaceOf(n, near)[2] # 0
    BY <1>1, <1>3, <1>4, AlignedHalves
  <1>7. depth(near) \in Nat /\ depth(part) = depth(near) + 1
    BY <1>3, <1>4, PathGoesOn
  <1>8. near \notin Wrong
    BY <1>2, <1>5
  <1> HIDE DEF near, depth
  <1>9. j = depth(near)
    BY <1>3, <1>5, <1>6, <1>7, <1>8
  <1> QED BY <1>3, <1>5, <1>6, <1>9

IsClimber(s) == s = [place |-> s.place, hash |-> s.hash, fits |-> s.fits]

LEMMA ClimbFails ==
  ASSUME NEW s, IsClimber(s), NEW sibling, s.place[2] = 0 \/ ~s.fits
  PROVE  IsClimber(Climb(s, sibling)) /\ ~Climb(s, sibling).fits
  <1> DEFINE at == s.place
             hash == s.hash
             fits == s.fits
  <1>1. s = [place |-> at, hash |-> hash, fits |-> fits]
    BY DEF IsClimber
  <1> HIDE DEF at, hash, fits
  <1>2. CASE at[2] = 0
    <2>1. Climb(s, sibling) = [place |-> at, hash |-> hash, fits |-> FALSE]
      BY <1>1, <1>2 DEF Climb
    <2> QED BY <2>1 DEF IsClimber
  <1>3. CASE at[2] # 0
    <2>0. ~fits
      BY <1>3 DEF at, fits
    <2>1. CASE IsRight(at)
      <3>1. Climb(s, sibling) = [place |-> Parent(at), hash |-> Node(sibling, hash), fits |-> fits]
        BY <1>1, <1>3, <2>1 DEF Climb
      <3> QED BY <2>0, <3>1 DEF IsClimber
    <2>2. CASE ~IsRight(at)
      <3>1. Climb(s, sibling) = [place |-> <<at[1] \div 2, at[2] \div 2>>,
                                 hash |-> Node(hash, sibling), fits |-> fits]
        BY <1>1, <1>3, <2>2 DEF Climb
      <3> QED BY <2>0, <3>1 DEF IsClimber
    <2> QED BY <2>1, <2>2
  <1> QED BY <1>2, <1>3

(* A verification uses up its path exactly when the path has as many       *)
(* siblings as the leaf has levels above it.                               *)
LEMMA ClimbEnds ==
  ASSUME NEW S, NEW a \in Seq(S), NEW n, n = Len(a), NEW y \in 1..n, NEW digest, NEW m \in Nat,
         NEW path, NEW c, Climbing(c, StartOf(n, y, digest), m, path)
  PROVE  c[m].fits /\ c[m].place[2] = 0 <=> Depth(a, y, <<1, n>>) = m
  <1> DEFINE whole == <<1, n>>
             depth == Depth(a, y, whole)
  <1>1. n \in Nat /\ n # 0 /\ whole[1] = 1 /\ whole[2] = n /\ y \in whole[1]..whole[2]
    OBVIOUS
  <1>2. Aligned(n, whole) /\ PlaceOf(n, whole) = <<0, 0>>
    BY <1>1, WholeIsAligned
  <1>3. depth \in Nat
    <2>1. whole \in Parts(n)
      BY <1>2 DEF Aligned
    <2>2. PathsOver(a, y - 1)[whole] \in Seq(Siblings(a))
      BY <2>1, PathsAreSequences
    <2> QED BY <2>2 DEF Depth
  <1> HIDE DEF whole
  <1>4. depth <= m => Meets(n, c[depth], whole)
    BY <1>1, <1>2, ClimbMeets
  <1>5. depth = m => c[m].fits /\ c[m].place[2] = 0
    <2> SUFFICES ASSUME depth = m PROVE c[m].fits /\ c[m].place[2] = 0
      OBVIOUS
    <2>1. Meets(n, c[m], whole)
      <3> HIDE DEF depth
      <3>1. depth <= m /\ c[m] = c[depth]
        OBVIOUS
      <3> QED BY <1>4, <3>1
    <2>2. c[m] = [place |-> <<0, 0>>, hash |-> c[m].hash, fits |-> TRUE]
      BY <1>2, <2>1 DEF Meets
    <2> QED BY <2>2
  <1>6. m < depth => c[m].place[2] # 0
    <2> SUFFICES ASSUME m < depth PROVE c[m].place[2] # 0
      OBVIOUS
    <2>1. PICK part : /\ Aligned(n, part) /\ y \in part[1]..part[2]
                      /\ Depth(a, y, part) = m /\ PlaceOf(n, part)[2] # 0
      BY <1>1, <1>2, Levels
    <2>2. Meets(n, c[m], part)
      <3>1. Depth(a, y, part) <= m
        BY <2>1
      <3>2. Meets(n, c[Depth(a, y, part)], part)
        BY <2>1, <3>1, ClimbMeets
      <3> QED BY <2>1, <3>2
    <2>3. c[m].place = PlaceOf(n, part)
      BY <2>2 DEF Meets
    <2> QED BY <2>1, <2>3
  <1>7. depth < m => ~c[m].fits
    <2> SUFFICES ASSUME depth < m PROVE ~c[m].fits
      OBVIOUS
    <2> DEFINE Lost(j) == IsClimber(c[j]) /\ ~c[j].fits
               Wrong == {j \in (depth + 1)..m : ~Lost(j)}
    <2>1. Meets(n, c[depth], whole)
      <3> HIDE DEF depth
      <3>1. depth <= m
        BY <1>3
      <3> QED BY <1>4, <3>1
    <2>2. IsClimber(c[depth]) /\ c[depth].place[2] = 0
      <3>1. c[depth] = [place |-> <<0, 0>>, hash |-> c[depth].hash, fits |-> TRUE]
        BY <1>2, <2>1 DEF Meets
      <3> QED BY <3>1 DEF IsClimber
    <2> HIDE DEF depth
    <2>3. Wrong = {}
      <3> SUFFICES ASSUME Wrong # {} PROVE FALSE
        OBVIOUS
      <3>1. PICK j \in Wrong : \A i \in Wrong : ~(i < j)
        <4>1. Wrong \in SUBSET Nat
          BY <1>3
        <4> HIDE DEF Wrong
        <4> QED BY <4>1, SmallestNumber
      <3>2. j \in (depth + 1)..m /\ ~Lost(j)
        OBVIOUS
      <3>3. j - 1 = depth \/ j - 1 \in (depth + 1)..m
        BY <1>3, <3>2
      <3>4. IsClimber(c[j - 1]) /\ (c[j - 1].place[2] = 0 \/ ~c[j - 1].fits)
        <4>1. CASE j - 1 = depth
          BY <2>2, <4>1
        <4>2. CASE j - 1 # depth
          <5>1. j - 1 \in (depth + 1)..m /\ j - 1 < j
            BY <1>3, <3>2, <3>3, <4>2
          <5>2. j - 1 \notin Wrong
            BY <3>1, <5>1
          <5> QED BY <5>1, <5>2
        <4> QED BY <4>1, <4>2
      <3>5. c[j] = Climb(c[j - 1], path[j])
        <4>1. j \in 1..m
          BY <1>3, <3>2
        <4> QED BY <4>1 DEF Climbing
      <3>6. Lost(j)
        BY <3>4, <3>5, ClimbFails
      <3> QED BY <3>2, <3>6
    <2>4. m \in (depth + 1)..m
      BY <1>3
    <2> QED BY <2>3, <2>4
  <1>8. depth = m \/ m < depth \/ depth < m
    BY <1>3
  <1> QED BY <1>5, <1>6, <1>7, <1>8 DEF whole

LEMMA SameTrees ==
  ASSUME NEW n \in Nat, NEW a, NEW b, Len(a) = n, Len(b) = n, NEW part \in Parts(n),
         \A i \in part[1]..part[2] : a[i] = b[i]
  PROVE  TreesOver(a)[part] = TreesOver(b)[part]
  <1>1. part = <<part[1], part[2]>> /\ part[1] \in 1..n /\ part[2] \in 1..n
    BY DEF Parts
  <1>2. Same(a, b, 0, part)
    BY <1>1 DEF Same
  <1>3. Moved(0, part) = part
    BY <1>1 DEF Moved
  <1>4. 0 \in Nat /\ 0 + n <= n
    OBVIOUS
  <1> QED BY <1>2, <1>3, <1>4, TreesShift

HashAt(c, j) == c[j].hash

(* What the verifier hashes on its way.                                    *)
Hashes(a, y, digest, path, c, part) ==
    HashAt(c, Depth(a, y, part))
      = IF part[1] = part[2] THEN Leaf(digest)
        ELSE IF y < HalfOf(part)
        THEN Node(HashAt(c, Depth(a, y, LeftOf(part))), path[Depth(a, y, part)])
        ELSE Node(path[Depth(a, y, part)], HashAt(c, Depth(a, y, RightOf(part))))

LEMMA HashGrows ==
  ASSUME NEW S, NEW n \in Nat, NEW a \in Seq(S), Len(a) = n, NEW y \in 1..n, NEW digest,
         NEW m \in Nat, NEW path, NEW c, Climbing(c, StartOf(n, y, digest), m, path),
         NEW part, Aligned(n, part), y \in part[1]..part[2], Depth(a, y, part) <= m
  PROVE  Hashes(a, y, digest, path, c, part)
  <1> DEFINE depth == Depth(a, y, part)
             near == Near(part, y)
             below == Depth(a, y, near)
  <1>1. n \in Nat /\ part \in Parts(n)
    BY DEF Aligned
  <1>2. CASE part[1] = part[2]
    <2>1. depth = 0 /\ c[0] = StartOf(n, y, digest)
      BY <1>1, <1>2, PathStarts DEF Climbing
    <2>2. c[depth].hash = Leaf(digest)
      BY <2>1 DEF StartOf
    <2> QED BY <1>2, <2>2 DEF HashAt, Hashes
  <1>3. CASE part[1] # part[2]
    <2>1. below \in Nat /\ depth = below + 1
      BY <1>1, <1>3, PathGoesOn
    <2>2. Aligned(n, near) /\ y \in near[1]..near[2]
      BY <1>1, <1>3, AlignedHalves, NearIsNear DEF Within
    <2> HIDE DEF near, depth, below
    <2>3. depth <= m /\ below <= m /\ depth \in 1..m /\ depth - 1 = below
      <3>1. depth <= m
        BY DEF depth
      <3> QED BY <2>1, <3>1
    <2>4. Meets(n, c[below], near)
      <3>1. Depth(a, y, near) <= m
        BY <2>3 DEF below
      <3> QED BY <2>2, <3>1, ClimbMeets DEF below
    <2>5. c[depth] = Climb(c[below], path[depth])
      BY <2>3 DEF Climbing
    <2>6. c[depth].hash = IF y < HalfOf(part) THEN Node(c[below].hash, path[depth])
                          ELSE Node(path[depth], c[below].hash)
      BY <1>1, <1>3, <2>4, <2>5, ClimbsToPart DEF near
    <2>7. near = IF y < HalfOf(part) THEN LeftOf(part) ELSE RightOf(part)
      BY DEF near, Near
    <2> QED BY <1>3, <2>6, <2>7 DEF depth, below, HashAt, Hashes
  <1> QED BY <1>2, <1>3

(* n leaves.                                                               *)
LeavesIn(S, n) == [1..n -> S]

Replaces(a, b, n, y, digest) ==
    digest = b[y] /\ \A i \in 1..n : i # y => a[i] = b[i]

Following(path, paths, part, depth) == \A j \in 1..depth : path[j] = paths[part][j]

(* A leaf and its own path make the tree again, whatever else the leaf is. *)
LEMMA PathMakesTree ==
  ASSUME NEW S, NEW n \in Nat, NEW a \in LeavesIn(S, n), NEW b \in LeavesIn(S, n),
         NEW y \in 1..n, NEW digest, Replaces(a, b, n, y, digest),
         NEW m \in Nat, NEW path, NEW c,
         Climbing(c, StartOf(n, y, digest), m, path),
         NEW whole, Aligned(n, whole), y \in whole[1]..whole[2], Depth(a, y, whole) <= m,
         Following(path, PathsOver(a, y - 1), whole, Depth(a, y, whole))
  PROVE  HashAt(c, Depth(a, y, whole)) = TreesOver(b)[whole]
  <1> DEFINE depth(part) == Depth(a, y, part)
             paths == PathsOver(a, y - 1)
             Wrong == {part \in Parts(n) : /\ Aligned(n, part) /\ y \in part[1]..part[2]
                                           /\ depth(part) <= m
                                           /\ \A j \in 1..depth(part) : path[j] = paths[part][j]
                                           /\ HashAt(c, depth(part)) # TreesOver(b)[part]}
  <1> SUFFICES ASSUME Wrong # {} PROVE FALSE
    BY DEF Aligned, Following
  <1>1. n \in Nat /\ a \in Seq(S) /\ Len(a) = n /\ Len(b) = n
    BY DEF LeavesIn
  <1>2. PICK part \in Wrong : \A other \in Wrong : ~(other[2] - other[1] < part[2] - part[1])
    <2>1. Wrong \in SUBSET Parts(n)
      OBVIOUS
    <2> HIDE DEF Wrong
    <2> QED BY <1>1, <2>1, SmallestPart
  <1>3. /\ part \in Parts(n) /\ Aligned(n, part) /\ y \in part[1]..part[2]
        /\ depth(part) <= m
        /\ \A j \in 1..depth(part) : path[j] = paths[part][j]
        /\ HashAt(c, depth(part)) # TreesOver(b)[part]
    OBVIOUS
  <1>4. HashAt(c, depth(part))
           = IF part[1] = part[2] THEN Leaf(digest)
             ELSE IF y < HalfOf(part)
             THEN Node(HashAt(c, depth(LeftOf(part))), path[depth(part)])
             ELSE Node(path[depth(part)], HashAt(c, depth(RightOf(part))))
    <2>1. Depth(a, y, part) <= m /\ Climbing(c, StartOf(n, y, digest), m, path)
      BY <1>3
    <2>2. Hashes(a, y, digest, path, c, part)
      BY <1>1, <1>3, <2>1, HashGrows
    <2> QED BY <2>2 DEF Hashes
  <1>5. TreesOver(b)[part] = IF part[1] = part[2] THEN Leaf(b[part[1]])
                             ELSE Node(TreesOver(b)[LeftOf(part)], TreesOver(b)[RightOf(part)])
    BY <1>1, <1>3, TreeIs
  <1>6. part[1] # part[2]
    <2> SUFFICES ASSUME part[1] = part[2] PROVE FALSE
      OBVIOUS
    <2>1. y = part[1]
      BY <1>1, <1>3
    <2> QED BY <1>3, <1>4, <1>5, <2>1 DEF Replaces
  <1> DEFINE near == Near(part, y)
             far == Far(part, y)
  <1>7. /\ near \in Parts(n) /\ far \in Parts(n) /\ y \in near[1]..near[2]
        /\ near[2] - near[1] < part[2] - part[1]
    BY <1>1, <1>3, <1>6, NearIsNear DEF Within
  <1>8. Aligned(n, near)
    BY <1>1, <1>3, <1>6, AlignedHalves
  <1>9. /\ depth(near) \in Nat /\ depth(part) = depth(near) + 1
        /\ paths[part][depth(part)] = TreesOver(a)[far]
        /\ \A j \in 1..depth(near) : paths[part][j] = paths[near][j]
    <2>1. /\ Depth(a, y, Near(part, y)) \in Nat
          /\ Depth(a, y, part) = Depth(a, y, Near(part, y)) + 1
          /\ PathsOver(a, y - 1)[part][Depth(a, y, part)] = TreesOver(a)[Far(part, y)]
          /\ \A j \in 1..Depth(a, y, Near(part, y)) :
               PathsOver(a, y - 1)[part][j] = PathsOver(a, y - 1)[Near(part, y)][j]
      BY <1>1, <1>3, <1>6, PathGoesOn
    <2> QED BY <2>1
  <1>10. near \notin Wrong
    BY <1>2, <1>7
  <1>11. TreesOver(a)[far] = TreesOver(b)[far]
    <2>1. \A i \in far[1]..far[2] : i # y /\ i \in 1..n
      <3>1. /\ HalfOf(part) \in Nat
            /\ LeftOf(part)[1] = part[1] /\ LeftOf(part)[2] = HalfOf(part) - 1
            /\ RightOf(part)[1] = HalfOf(part) /\ RightOf(part)[2] = part[2]
            /\ part[1] \in 1..n /\ part[2] \in 1..n
            /\ part[1] < HalfOf(part) /\ HalfOf(part) <= part[2]
        BY <1>1, <1>3, <1>6, HalvesAre
      <3>2. CASE y < HalfOf(part)
        <4>1. far = RightOf(part)
          BY <3>2 DEF Far
        <4> HIDE DEF far
        <4> QED BY <1>3, <3>1, <3>2, <4>1
      <3>3. CASE ~(y < HalfOf(part))
        <4>1. far = LeftOf(part)
          BY <3>3 DEF Far
        <4> HIDE DEF far
        <4> QED BY <1>3, <3>1, <3>3, <4>1
      <3> QED BY <3>2, <3>3
    <2>2. \A i \in far[1]..far[2] : a[i] = b[i]
      BY <2>1 DEF Replaces
    <2>3. Len(a) = n /\ Len(b) = n /\ far \in Parts(n)
      BY <1>1, <1>7
    <2> HIDE DEF far
    <2> QED BY <1>1, <2>2, <2>3, SameTrees
  <1> HIDE DEF depth, paths, near, far
  <1>12. /\ depth(near) <= m /\ depth(part) \in 1..depth(part)
         /\ \A j \in 1..depth(near) : j \in 1..depth(part)
    BY <1>3, <1>9
  <1>13. HashAt(c, depth(near)) = TreesOver(b)[near]
    BY <1>3, <1>7, <1>8, <1>9, <1>10, <1>12
  <1>14. path[depth(part)] = TreesOver(b)[far]
    BY <1>3, <1>9, <1>11, <1>12
  <1>15. CASE y < HalfOf(part)
    <2>1. near = LeftOf(part) /\ far = RightOf(part)
      BY <1>15 DEF near, far, Near, Far
    <2> QED BY <1>3, <1>4, <1>5, <1>6, <1>13, <1>14, <1>15, <2>1
  <1>16. CASE ~(y < HalfOf(part))
    <2>1. near = RightOf(part) /\ far = LeftOf(part)
      BY <1>16 DEF near, far, Near, Far
    <2> QED BY <1>3, <1>4, <1>5, <1>6, <1>13, <1>14, <1>16, <2>1
  <1> QED BY <1>15, <1>16

(* What a path that leads to the tree tells of the leaf and of the others. *)
Told(a, b, x, y, digest, part) ==
    x = y /\ digest = b[y] /\ \A i \in part[1]..part[2] : i # y => a[i] = b[i]

(* A path is of use to its own leaf alone.                                 *)
LEMMA PathTells ==
  ASSUME NEW S, NEW n \in Nat, NEW a \in LeavesIn(S, n), NEW b \in LeavesIn(S, n),
         \A i, j \in 1..n : a[i] = b[j] => i = j,
         NEW x \in 1..n, NEW y \in 1..n, NEW digest, NEW m \in Nat, NEW path, NEW c,
         Climbing(c, StartOf(n, y, digest), m, path),
         NEW whole, Aligned(n, whole), x \in whole[1]..whole[2], y \in whole[1]..whole[2],
         Depth(a, x, whole) <= m, Depth(a, y, whole) = Depth(a, x, whole),
         Following(path, PathsOver(a, x - 1), whole, Depth(a, x, whole)),
         HashAt(c, Depth(a, y, whole)) = TreesOver(b)[whole]
  PROVE  Told(a, b, x, y, digest, whole)
  <1> DEFINE depth(part) == Depth(a, x, part)
             paths == PathsOver(a, x - 1)
             Wrong == {part \in Parts(n) : /\ Aligned(n, part)
                                           /\ x \in part[1]..part[2] /\ y \in part[1]..part[2]
                                           /\ depth(part) <= m /\ Depth(a, y, part) = depth(part)
                                           /\ Following(path, paths, part, depth(part))
                                           /\ HashAt(c, Depth(a, y, part)) = TreesOver(b)[part]
                                           /\ ~Told(a, b, x, y, digest, part)}
  <1> SUFFICES ASSUME Wrong # {} PROVE FALSE
    BY DEF Aligned
  <1>1. n \in Nat /\ a \in Seq(S) /\ Len(a) = n /\ Len(b) = n
    BY DEF LeavesIn
  <1>2. PICK part \in Wrong : \A other \in Wrong : ~(other[2] - other[1] < part[2] - part[1])
    <2>1. Wrong \in SUBSET Parts(n)
      OBVIOUS
    <2> HIDE DEF Wrong
    <2> QED BY <1>1, <2>1, SmallestPart
  <1>3. /\ part \in Parts(n) /\ Aligned(n, part) /\ x \in part[1]..part[2] /\ y \in part[1]..part[2]
        /\ depth(part) <= m /\ Depth(a, y, part) = depth(part)
        /\ Following(path, paths, part, depth(part))
        /\ HashAt(c, Depth(a, y, part)) = TreesOver(b)[part]
        /\ ~Told(a, b, x, y, digest, part)
    OBVIOUS
  <1> HIDE DEF Wrong
  <1>4. Hashes(a, y, digest, path, c, part)
    <2>1. Depth(a, y, part) <= m /\ Climbing(c, StartOf(n, y, digest), m, path)
      BY <1>3
    <2> QED BY <1>1, <1>3, <2>1, HashGrows
  <1>5. TreesOver(b)[part] = IF part[1] = part[2] THEN Leaf(b[part[1]])
                             ELSE Node(TreesOver(b)[LeftOf(part)], TreesOver(b)[RightOf(part)])
    BY <1>1, <1>3, TreeIs
  <1>6. CASE part[1] = part[2]
    <2>1. x = part[1] /\ y = part[1] /\ \A i \in part[1]..part[2] : i = y
      BY <1>3, <1>6 DEF Parts
    <2>2. Leaf(digest) = Leaf(b[y])
      BY <1>3, <1>4, <1>5, <1>6, <2>1 DEF Hashes
    <2>3. digest = b[y]
      BY <2>2 DEF Leaf
    <2> QED BY <1>3, <2>1, <2>3 DEF Told
  <1>7. CASE part[1] # part[2]
    <2> DEFINE k == HalfOf(part)
               left == LeftOf(part)
               right == RightOf(part)
               near == Near(part, x)
               far == Far(part, x)
               close == Near(part, y)
    <2>1. /\ k \in Nat /\ part[1] \in 1..n /\ part[2] \in 1..n /\ part[1] < k /\ k <= part[2]
          /\ left \in Parts(n) /\ left[1] = part[1] /\ left[2] = k - 1
          /\ right \in Parts(n) /\ right[1] = k /\ right[2] = part[2]
      BY <1>1, <1>3, <1>7, HalvesAre
    <2>2. /\ depth(near) \in Nat /\ depth(part) = depth(near) + 1
          /\ paths[part][depth(part)] = TreesOver(a)[far]
          /\ \A j \in 1..depth(near) : paths[part][j] = paths[near][j]
      BY <1>1, <1>3, <1>7, PathGoesOn
    <2>3. /\ near \in Parts(n) /\ x \in near[1]..near[2]
          /\ near[2] - near[1] < part[2] - part[1] /\ Aligned(n, near)
      BY <1>1, <1>3, <1>7, NearIsNear, AlignedHalves DEF Within
    <2>4. Depth(a, y, close) \in Nat /\ Depth(a, y, part) = Depth(a, y, close) + 1
      BY <1>1, <1>3, <1>7, PathGoesOn
    <2>5. y \in close[1]..close[2]
      BY <1>1, <1>3, <1>7, NearIsNear DEF Within
    <2>6. near = (IF x < k THEN left ELSE right) /\ far = (IF x < k THEN right ELSE left)
          /\ close = IF y < k THEN left ELSE right
      BY DEF Near, Far
    <2> HIDE DEF depth, paths, k, left, right, near, far, close
    <2>7. path[depth(part)] = TreesOver(a)[far]
      <3>1. depth(part) \in 1..depth(part)
        BY <2>2
      <3> QED BY <1>3, <2>2, <3>1 DEF Following
    <2>8. IF y < k THEN HashAt(c, Depth(a, y, close)) = TreesOver(b)[left]
                        /\ TreesOver(a)[far] = TreesOver(b)[right]
          ELSE HashAt(c, Depth(a, y, close)) = TreesOver(b)[right]
               /\ TreesOver(a)[far] = TreesOver(b)[left]
      <3>1. HashAt(c, Depth(a, y, part))
              = IF y < k THEN Node(HashAt(c, Depth(a, y, left)), path[Depth(a, y, part)])
                ELSE Node(path[Depth(a, y, part)], HashAt(c, Depth(a, y, right)))
        BY <1>4, <1>7 DEF Hashes, k, left, right
      <3>2. TreesOver(b)[part] = Node(TreesOver(b)[left], TreesOver(b)[right])
        BY <1>5, <1>7 DEF left, right
      <3>3. path[Depth(a, y, part)] = TreesOver(a)[far]
        BY <1>3, <2>7
      <3>4. CASE y < k
        <4>1. Node(HashAt(c, Depth(a, y, close)), TreesOver(a)[far])
                = Node(TreesOver(b)[left], TreesOver(b)[right])
          BY <1>3, <2>6, <3>1, <3>2, <3>3, <3>4
        <4> QED BY <3>4, <4>1 DEF Node
      <3>5. CASE ~(y < k)
        <4>1. Node(TreesOver(a)[far], HashAt(c, Depth(a, y, close)))
                = Node(TreesOver(b)[left], TreesOver(b)[right])
          BY <1>3, <2>6, <3>1, <3>2, <3>3, <3>5
        <4> QED BY <3>5, <4>1 DEF Node
      <3> QED BY <3>4, <3>5
    <2>9. CASE near = close
      <3>1. HashAt(c, Depth(a, y, near)) = TreesOver(b)[near] /\ TreesOver(a)[far] = TreesOver(b)[far]
        <4>1. x < k <=> y < k
          <5>1. left # right
            BY <2>1
          <5> QED BY <2>6, <2>9, <5>1
        <4> QED BY <2>6, <2>8, <2>9, <4>1
      <3>2. Depth(a, y, near) = depth(near)
        BY <1>3, <2>2, <2>4, <2>9 DEF depth
      <3>3. y \in near[1]..near[2]
        BY <2>5, <2>9
      <3>4. Following(path, paths, near, depth(near))
        <4>1. \A j \in 1..depth(near) : j \in 1..depth(part)
          BY <2>2
        <4> QED BY <1>3, <2>2, <4>1 DEF Following
      <3>5. depth(near) <= m
        BY <1>3, <2>2
      <3>6. near \notin Wrong
        BY <1>2, <2>3
      <3>7. Told(a, b, x, y, digest, near)
        BY <2>3, <3>1, <3>2, <3>3, <3>4, <3>5, <3>6 DEF Wrong
      <3>8. \A i \in far[1]..far[2] : a[i] = b[i]
        <4>1. far \in Parts(n)
          BY <2>1, <2>6
        <4> QED BY <1>1, <3>1, <4>1, TreesDiffer
      <3>9. \A i \in part[1]..part[2] : i \in near[1]..near[2] \/ i \in far[1]..far[2]
        BY <2>1, <2>6
      <3> QED BY <1>3, <3>7, <3>8, <3>9 DEF Told
    <2>10. CASE near # close
      <3>1. far = close /\ (far = left \/ far = right)
        BY <2>6, <2>10
      <3> DEFINE other == IF far = left THEN right ELSE left
      <3>2. TreesOver(a)[far] = TreesOver(b)[other]
        <4>1. left # right
          BY <2>1
        <4> QED BY <2>6, <2>8, <2>10, <3>1, <4>1
      <3>3. a[far[1]] = b[other[1]]
        <4>1. far \in Parts(n) /\ other \in Parts(n)
          BY <2>1, <3>1
        <4> HIDE DEF other
        <4> QED BY <1>1, <3>2, <4>1, TreesTellFirst
      <3>4. far[1] # other[1] /\ far[1] \in 1..n /\ other[1] \in 1..n
        BY <2>1, <3>1
      <3> QED BY <3>3, <3>4
    <2> QED BY <2>9, <2>10
  <1> QED BY <1>6, <1>7

RootIs(n, a) == RootOf(a) = TreesOver(a)[<<1, n>>]

LEMMA RootsAreTrees ==
  ASSUME NEW S, NEW n \in Nat, n # 0, NEW a \in LeavesIn(S, n)
  PROVE  RootIs(n, a)
  <1>1. a # <<>> /\ Len(a) = n
    BY DEF LeavesIn
  <1> QED BY <1>1 DEF RootOf, RootIs

(* What a verification comes to.                                           *)
LEMMA InclusionRuns ==
  ASSUME NEW S, NEW n \in Nat, NEW a \in LeavesIn(S, n), NEW x \in 1..n, NEW y \in 1..n, NEW digest
  PROVE  \E c, m : /\ m \in Nat /\ m = Depth(a, x, <<1, n>>)
                   /\ Climbing(c, StartOf(n, y, digest), m, InclusionProof(a, x - 1))
                   /\ \A root : Included(digest, y - 1, n, InclusionProof(a, x - 1), root)
                                  <=> Depth(a, y, <<1, n>>) = m /\ HashAt(c, m) = root
  <1> DEFINE path == InclusionProof(a, x - 1)
             m == Depth(a, x, <<1, n>>)
             start == StartOf(n, y, digest)
  <1>1. a \in Seq(S) /\ Len(a) = n /\ <<1, n>> \in Parts(n)
    BY DEF Parts, LeavesIn
  <1>2. path = PathsOver(a, x - 1)[<<1, n>>] /\ path \in Seq(Siblings(a)) /\ m = Len(path)
    BY <1>1, PathsAreSequences DEF InclusionProof, Depth
  <1>3. m \in Nat /\ DOMAIN path = 1..m
    BY <1>2
  <1> HIDE DEF path, m
  <1>4. PICK c : Climbing(c, start, m, path) /\ FoldLeft(Climb, start, path) = c[m]
    <2> HIDE DEF start
    <2> QED BY <1>3, ClimbsAlong
  <1>5. c[m].fits /\ c[m].place[2] = 0 <=> Depth(a, y, <<1, n>>) = m
    <2>1. n = Len(a)
      BY <1>1
    <2> QED BY <1>1, <1>3, <1>4, <2>1, ClimbEnds
  <1>6. ASSUME NEW root
        PROVE  Included(digest, y - 1, n, path, root) <=> Depth(a, y, <<1, n>>) = m /\ HashAt(c, m) = root
    <2>1. y - 1 < n
      OBVIOUS
    <2>2. start = [place |-> <<y - 1, n - 1>>, hash |-> Leaf(digest), fits |-> TRUE]
      BY DEF StartOf
    <2> HIDE DEF start
    <2>3. Included(digest, y - 1, n, path, root) <=> c[m].fits /\ c[m].place[2] = 0 /\ c[m].hash = root
      BY <1>4, <2>1, <2>2 DEF Included
    <2> QED BY <1>5, <2>3 DEF HashAt
  <1> QED BY <1>3, <1>4, <1>6 DEF path, m

(* Every entry is proved under its own digest and place.                   *)
LEMMA InclusionHolds ==
  ASSUME NEW S, NEW n \in Nat, NEW a \in LeavesIn(S, n), NEW b \in LeavesIn(S, n), NEW y \in 1..n,
         NEW digest, Replaces(a, b, n, y, digest)
  PROVE  Included(digest, y - 1, n, InclusionProof(a, y - 1), RootOf(b))
  <1> DEFINE path == InclusionProof(a, y - 1)
             whole == <<1, n>>
  <1>1. PICK c, m : /\ m \in Nat /\ m = Depth(a, y, whole)
                    /\ Climbing(c, StartOf(n, y, digest), m, path)
                    /\ \A root : Included(digest, y - 1, n, path, root)
                                   <=> Depth(a, y, whole) = m /\ HashAt(c, m) = root
    BY InclusionRuns
  <1>2. n # 0 /\ a \in Seq(S) /\ Len(a) = n /\ whole[1] = 1 /\ whole[2] = n
    BY DEF LeavesIn
  <1>3. Aligned(n, whole)
    BY <1>2, WholeIsAligned
  <1>4. path = PathsOver(a, y - 1)[whole]
    BY <1>2 DEF InclusionProof
  <1>5. HashAt(c, Depth(a, y, whole)) = TreesOver(b)[whole]
    <2>1. y \in whole[1]..whole[2] /\ Depth(a, y, whole) <= m
      BY <1>1, <1>2
    <2>2. Following(path, PathsOver(a, y - 1), whole, Depth(a, y, whole))
      BY <1>4 DEF Following
    <2>4. m \in Nat /\ Climbing(c, StartOf(n, y, digest), m, path)
      BY <1>1
    <2> HIDE DEF path, whole
    <2> QED BY <1>3, <2>1, <2>2, <2>4, PathMakesTree
  <1>6. RootOf(b) = TreesOver(b)[whole]
    BY <1>2, RootsAreTrees DEF RootIs
  <1> HIDE DEF path, whole
  <1>7. Included(digest, y - 1, n, path, RootOf(b))
    BY <1>1, <1>5, <1>6
  <1> QED BY <1>7 DEF path

(* And under no other, nor in a tree that differs elsewhere.               *)
LEMMA InclusionTells ==
  ASSUME NEW S, NEW n \in Nat, NEW a \in LeavesIn(S, n), NEW b \in LeavesIn(S, n),
         \A i, j \in 1..n : a[i] = b[j] => i = j,
         NEW x \in 1..n, NEW y \in 1..n, NEW digest,
         Included(digest, y - 1, n, InclusionProof(a, x - 1), RootOf(b))
  PROVE  x = y /\ digest = b[y] /\ \A i \in 1..n : i # y => a[i] = b[i]
  <1> DEFINE path == InclusionProof(a, x - 1)
             whole == <<1, n>>
  <1>1. PICK c, m : /\ m \in Nat /\ m = Depth(a, x, whole)
                    /\ Climbing(c, StartOf(n, y, digest), m, path)
                    /\ \A root : Included(digest, y - 1, n, path, root)
                                   <=> Depth(a, y, whole) = m /\ HashAt(c, m) = root
    BY InclusionRuns
  <1>2. n # 0 /\ a \in Seq(S) /\ Len(a) = n /\ whole[1] = 1 /\ whole[2] = n
    BY DEF LeavesIn
  <1>3. Aligned(n, whole)
    BY <1>2, WholeIsAligned
  <1>4. path = PathsOver(a, x - 1)[whole]
    BY <1>2 DEF InclusionProof
  <1>5. RootOf(b) = TreesOver(b)[whole]
    BY <1>2, RootsAreTrees DEF RootIs
  <1>6. Depth(a, y, whole) = Depth(a, x, whole) /\ HashAt(c, Depth(a, y, whole)) = TreesOver(b)[whole]
    BY <1>1, <1>5
  <1>7. Following(path, PathsOver(a, x - 1), whole, Depth(a, x, whole))
    BY <1>4 DEF Following
  <1>8. x \in whole[1]..whole[2] /\ y \in whole[1]..whole[2] /\ Depth(a, x, whole) <= m
    BY <1>1, <1>2
  <1>9. Told(a, b, x, y, digest, whole)
    <2> HIDE DEF path, whole
    <2> QED BY <1>1, <1>3, <1>6, <1>7, <1>8, PathTells
  <1> QED BY <1>2, <1>9 DEF Told

-------------------------------------------------------------------------------
(* Consistency                                                              *)

(* The consistency path up to a part, without the tree it starts from and  *)
(* with it.                                                                *)
FromOld(a, f, part) == PathsFrom(a, f)[<<part, TRUE>>]
FromNew(a, f, part) == PathsFrom(a, f)[<<part, FALSE>>]

LEMMA FromIs ==
  ASSUME NEW S, NEW a \in Seq(S), NEW f \in Nat, NEW part \in Parts(Len(a)), Within(part, f)
  PROVE  /\ FromOld(a, f, part)
              = (IF f = part[2] THEN <<>>
                 ELSE IF f < HalfOf(part)
                 THEN Append(FromOld(a, f, LeftOf(part)), TreesOver(a)[RightOf(part)])
                 ELSE Append(FromNew(a, f, RightOf(part)), TreesOver(a)[LeftOf(part)]))
         /\ FromNew(a, f, part)
              = (IF f = part[2] THEN <<TreesOver(a)[part]>>
                 ELSE IF f < HalfOf(part)
                 THEN Append(FromNew(a, f, LeftOf(part)), TreesOver(a)[RightOf(part)])
                 ELSE Append(FromNew(a, f, RightOf(part)), TreesOver(a)[LeftOf(part)]))
  <1> DEFINE n == Len(a)
             paths == PathsFrom(a, f)
             k == HalfOf(part)
             left == LeftOf(part)
             right == RightOf(part)
  <1>1. n \in Nat /\ f \in part[1]..part[2]
    BY DEF Within
  <1>2. ASSUME NEW old \in BOOLEAN
        PROVE  paths[<<part, old>>]
                 = IF f = part[2] THEN IF old THEN <<>> ELSE <<RootOfPart(a, part[1], part[2])>>
                   ELSE IF f < k THEN Append(paths[<<left, old>>], RootOfPart(a, k, part[2]))
                   ELSE Append(paths[<<right, FALSE>>], RootOfPart(a, part[1], k - 1))
    <2>1. paths[<<part, old>>] = PathFrom(a, f, paths, <<part, old>>)
      BY <1>1, PathsAreFrom
    <2>2. left = <<part[1], k - 1>> /\ right = <<k, part[2]>>
      BY DEF LeftOf, RightOf
    <2>3. k = part[1] + Split(part[2] - part[1] + 1)
      BY DEF HalfOf, SizeOf
    <2> DEFINE place == <<part, old>>
    <2>4. place[1] = part /\ place[2] = old
      OBVIOUS
    <2> HIDE DEF paths, k, left, right, place
    <2>5. PathFrom(a, f, paths, place)
            = IF f = part[2] THEN IF old THEN <<>> ELSE <<RootOfPart(a, part[1], part[2])>>
              ELSE IF f < k THEN Append(paths[<<<<part[1], k - 1>>, old>>], RootOfPart(a, k, part[2]))
              ELSE Append(paths[<<<<k, part[2]>>, FALSE>>], RootOfPart(a, part[1], k - 1))
      BY <2>3, <2>4, Zenon DEF PathFrom
    <2> QED BY <2>1, <2>2, <2>5 DEF place
  <1>3. RootOfPart(a, part[1], part[2]) = TreesOver(a)[part]
    BY PartsAreTrees
  <1>4. CASE part[1] # part[2]
    <2>1. left \in Parts(n) /\ left[1] = part[1] /\ left[2] = k - 1
          /\ right \in Parts(n) /\ right[1] = k /\ right[2] = part[2]
      BY <1>1, <1>4, HalvesAre
    <2>2. RootOfPart(a, k, part[2]) = TreesOver(a)[right]
      <3> HIDE DEF k, n, right
      <3> QED BY <2>1, PartsAreTrees DEF n
    <2>3. RootOfPart(a, part[1], k - 1) = TreesOver(a)[left]
      <3> HIDE DEF k, n, left
      <3> QED BY <2>1, PartsAreTrees DEF n
    <2> HIDE DEF k, left, right
    <2> QED BY <1>2, <1>3, <2>2, <2>3, Zenon DEF FromOld, FromNew, k, left, right
  <1>5. CASE part[1] = part[2]
    <2>1. f = part[2]
      BY <1>1, <1>5 DEF Parts
    <2> QED BY <1>2, <1>3, <2>1, Zenon DEF FromOld, FromNew
  <1> QED BY <1>4, <1>5

(* The same with the half that the path goes on in.                        *)
LEMMA FromGoesOn ==
  ASSUME NEW S, NEW a \in Seq(S), NEW f \in Nat, NEW part \in Parts(Len(a)), Within(part, f)
  PROVE  /\ f = part[2] => /\ FromOld(a, f, part) = <<>>
                           /\ FromNew(a, f, part) = <<TreesOver(a)[part]>>
         /\ f # part[2] =>
              /\ FromNew(a, f, part) = Append(FromNew(a, f, Near(part, f)), TreesOver(a)[Far(part, f)])
              /\ FromOld(a, f, part)
                   = IF f < HalfOf(part)
                     THEN Append(FromOld(a, f, Near(part, f)), TreesOver(a)[Far(part, f)])
                     ELSE FromNew(a, f, part)
  <1>1. CASE f = part[2]
    BY <1>1, FromIs
  <1>2. CASE f # part[2]
    <2>1. CASE f < HalfOf(part)
      <3>1. Near(part, f) = LeftOf(part) /\ Far(part, f) = RightOf(part)
        BY <2>1 DEF Near, Far
      <3> QED BY <1>2, <2>1, <3>1, FromIs
    <2>2. CASE ~(f < HalfOf(part))
      <3>1. Near(part, f) = RightOf(part) /\ Far(part, f) = LeftOf(part)
        BY <2>2 DEF Near, Far
      <3>2. FromNew(a, f, part) = Append(FromNew(a, f, RightOf(part)), TreesOver(a)[LeftOf(part)])
        BY <1>2, <2>2, FromIs
      <3>3. FromOld(a, f, part) = Append(FromNew(a, f, RightOf(part)), TreesOver(a)[LeftOf(part)])
        BY <1>2, <2>2, FromIs
      <3> QED BY <1>2, <2>2, <3>1, <3>2, <3>3, Zenon
    <2> QED BY <2>1, <2>2
  <1> QED BY <1>1, <1>2

(* How many siblings come after the first tree of the path.                *)
Up(a, f, part) == Len(FromNew(a, f, part)) - 1

LEMMA FromNewIsASequence ==
  ASSUME NEW S, NEW a \in Seq(S), NEW f \in Nat, NEW whole \in Parts(Len(a)), Within(whole, f)
  PROVE  FromNew(a, f, whole) \in Seq(Siblings(a))
  <1> DEFINE n == Len(a)
             Wrong == {part \in Parts(n) : Within(part, f) /\ FromNew(a, f, part) \notin Seq(Siblings(a))}
  <1> SUFFICES ASSUME Wrong # {} PROVE FALSE
    OBVIOUS
  <1>0. n \in Nat
    OBVIOUS
  <1>1. PICK part \in Wrong : \A other \in Wrong : ~(other[2] - other[1] < part[2] - part[1])
    <2>1. Wrong \in SUBSET Parts(n)
      OBVIOUS
    <2> HIDE DEF Wrong, n
    <2> QED BY <1>0, <2>1, SmallestPart
  <1>2. part \in Parts(n) /\ Within(part, f) /\ FromNew(a, f, part) \notin Seq(Siblings(a))
    OBVIOUS
  <1>3. CASE f = part[2]
    <2>1. FromNew(a, f, part) = <<TreesOver(a)[part]>>
      BY <1>2, <1>3, FromGoesOn
    <2>2. TreesOver(a)[part] \in Siblings(a)
      BY <1>2 DEF Siblings
    <2> QED BY <1>2, <2>1, <2>2
  <1>4. CASE f # part[2]
    <2> DEFINE near == Near(part, f)
               far == Far(part, f)
    <2>1. FromNew(a, f, part) = Append(FromNew(a, f, near), TreesOver(a)[far])
      BY <1>2, <1>4, FromGoesOn
    <2>2. part[1] # part[2] /\ f \in part[1]..part[2]
      BY <1>2, <1>4 DEF Within, Parts
    <2>3. near \in Parts(n) /\ far \in Parts(n) /\ Within(near, f) /\ near[2] - near[1] < part[2] - part[1]
      BY <1>0, <1>2, <2>2, NearIsNear
    <2>4. near \notin Wrong
      BY <1>1, <2>3
    <2>5. FromNew(a, f, near) \in Seq(Siblings(a)) /\ TreesOver(a)[far] \in Siblings(a)
      BY <2>3, <2>4 DEF Siblings
    <2> HIDE DEF near, far
    <2> QED BY <1>2, <2>1, <2>5
  <1> QED BY <1>3, <1>4

LEMMA FromNewStarts ==
  ASSUME NEW S, NEW a \in Seq(S), NEW part \in Parts(Len(a))
  PROVE  FromNew(a, part[2], part)[1] = TreesOver(a)[part] /\ Up(a, part[2], part) = 0
  <1>1. part[2] \in Nat /\ Within(part, part[2])
    BY DEF Parts, Within
  <1>2. FromNew(a, part[2], part) = <<TreesOver(a)[part]>>
    BY <1>1, FromGoesOn
  <1> QED BY <1>2 DEF Up

(* Beyond the tree that it starts from, the path is as one of inclusion.   *)
LEMMA FromNewGoesOn ==
  ASSUME NEW S, NEW a \in Seq(S), NEW f \in Nat, NEW part \in Parts(Len(a)), Within(part, f), f # part[2]
  PROVE  LET near == Near(part, f)
             new == FromNew(a, f, part)
         IN /\ Up(a, f, near) \in Nat
            /\ Up(a, f, part) = Up(a, f, near) + 1
            /\ new[Up(a, f, part) + 1] = TreesOver(a)[Far(part, f)]
            /\ \A j \in 1..(Up(a, f, near) + 1) : new[j] = FromNew(a, f, near)[j]
  <1> DEFINE n == Len(a)
             near == Near(part, f)
             far == Far(part, f)
             new == FromNew(a, f, part)
             old == FromNew(a, f, near)
  <1>0. n \in Nat /\ part[1] # part[2] /\ f \in part[1]..part[2]
    BY DEF Within, Parts
  <1>1. near \in Parts(n) /\ far \in Parts(n) /\ Within(near, f)
    BY <1>0, NearIsNear
  <1>2. new = Append(old, TreesOver(a)[far])
    BY FromGoesOn
  <1>3. old \in Seq(Siblings(a)) /\ TreesOver(a)[far] \in Siblings(a)
    BY <1>1, FromNewIsASequence DEF Siblings
  <1>4. Len(old) # 0
    <2>1. CASE f = near[2]
      <3>1. old = <<TreesOver(a)[near]>>
        BY <1>1, <2>1, FromGoesOn
      <3> QED BY <3>1
    <2>2. CASE f # near[2]
      <3>1. old = Append(FromNew(a, f, Near(near, f)), TreesOver(a)[Far(near, f)])
        BY <1>1, <2>2, FromGoesOn
      <3>2. near[1] # near[2] /\ f \in near[1]..near[2]
        BY <1>1, <2>2 DEF Within, Parts
      <3>3. Near(near, f) \in Parts(n) /\ Within(Near(near, f), f)
        BY <1>0, <1>1, <3>2, NearIsNear
      <3>4. FromNew(a, f, Near(near, f)) \in Seq(Siblings(a))
        BY <3>3, FromNewIsASequence
      <3> HIDE DEF near, old
      <3> QED BY <3>1, <3>4
    <2> QED BY <2>1, <2>2
  <1> HIDE DEF near, far, new, old
  <1>5. /\ Len(old) \in Nat
        /\ Len(new) = Len(old) + 1
        /\ new[Len(new)] = TreesOver(a)[far]
        /\ \A j \in 1..Len(old) : new[j] = old[j]
    BY <1>2, <1>3
  <1>6. Up(a, f, part) = Len(new) - 1 /\ Up(a, f, near) = Len(old) - 1
    BY DEF Up, new, old
  <1>7. /\ Up(a, f, near) \in Nat /\ Up(a, f, part) = Up(a, f, near) + 1
        /\ Up(a, f, part) + 1 = Len(new) /\ Up(a, f, near) + 1 = Len(old)
    BY <1>4, <1>5, <1>6
  <1> QED BY <1>5, <1>7 DEF near, far, new, old

(* The state of a verifier of consistency that has the hashes of a part.   *)
MeetsBoth(n, s, part) ==
    s = [place |-> PlaceOf(n, part), fits |-> TRUE, first |-> s.first, second |-> s.second]

LEMMA ClimbsBothToPart ==
  ASSUME NEW n \in Nat, NEW part, Aligned(n, part), part[1] # part[2], NEW f \in part[1]..part[2],
         NEW s, MeetsBoth(n, s, Near(part, f)), NEW sibling
  PROVE  /\ MeetsBoth(n, ClimbBoth(s, sibling), part)
         /\ ClimbBoth(s, sibling).first = IF f < HalfOf(part) THEN s.first ELSE Node(sibling, s.first)
         /\ ClimbBoth(s, sibling).second = IF f < HalfOf(part) THEN Node(s.second, sibling)
                                           ELSE Node(sibling, s.second)
  <1> DEFINE at == PlaceOf(n, Near(part, f))
             to == PlaceOf(n, part)
             one == s.first
             two == s.second
  <1>1. s = [place |-> at, fits |-> TRUE, first |-> one, second |-> two]
    BY DEF MeetsBoth
  <1>2. CASE f < HalfOf(part)
    <2>1. at[2] # 0 /\ ~IsRight(at) /\ <<at[1] \div 2, at[2] \div 2>> = to
      BY <1>2, AlignedHalves
    <2> HIDE DEF at, to, one, two
    <2>2. ClimbBoth(s, sibling) = [place |-> <<at[1] \div 2, at[2] \div 2>>, fits |-> TRUE,
                                   first |-> one, second |-> Node(two, sibling)]
      BY <1>1, <2>1 DEF ClimbBoth
    <2>3. ClimbBoth(s, sibling) = [place |-> to, fits |-> TRUE,
                                   first |-> one, second |-> Node(two, sibling)]
      BY <2>1, <2>2
    <2>4. ClimbBoth(s, sibling).first = one /\ ClimbBoth(s, sibling).second = Node(two, sibling)
      BY <2>3
    <2> QED BY <1>2, <2>3, <2>4 DEF MeetsBoth, to, one, two
  <1>3. CASE ~(f < HalfOf(part))
    <2>1. at[2] # 0 /\ IsRight(at) /\ Parent(at) = to
      BY <1>3, AlignedHalves
    <2> HIDE DEF at, to, one, two
    <2>2. ClimbBoth(s, sibling) = [place |-> Parent(at), fits |-> TRUE,
                                   first |-> Node(sibling, one), second |-> Node(sibling, two)]
      BY <1>1, <2>1 DEF ClimbBoth
    <2>4. ClimbBoth(s, sibling).first = Node(sibling, one)
          /\ ClimbBoth(s, sibling).second = Node(sibling, two)
      BY <2>2
    <2> QED BY <1>3, <2>1, <2>2, <2>4 DEF MeetsBoth, to, one, two
  <1> QED BY <1>2, <1>3

(* Where the verification starts: at the full tree that ends the earlier   *)
(* tree.                                                                   *)
LEMMA PartingIs ==
  ASSUME NEW n \in Nat, NEW part, Aligned(n, part), part[1] # part[2]
  PROVE  Parting(LeftOf(part)[2], n) = PlaceOf(n, LeftOf(part))
  <1> DEFINE left == LeftOf(part)
             f == left[2]
             p == Filled(SizeOf(left))
             at == PlaceOf(n, left)
             c == at[1]
  <1>1. /\ Aligned(n, left) /\ at[1] % 2 = 0 /\ p = SizeOf(left)
    BY StepsLeft
  <1>2. left[1] \in 1..n /\ f \in 1..n /\ left[1] <= f
    BY <1>1 DEF Aligned, Parts
  <1>3. (left[1] - 1) % p = 0
    BY <1>1 DEF Aligned
  <1>4. c = (left[1] - 1) \div p /\ at[2] = (n - 1) \div p /\ at = <<at[1], at[2]>>
    BY DEF PlaceOf
  <1>5. p = f - left[1] + 1
    BY <1>1 DEF SizeOf
  <1> HIDE DEF left
  <1>6. p \in Powers
    <2>1. SizeOf(left) \in Nat /\ SizeOf(left) # 0
      BY <1>2 DEF SizeOf
    <2> QED BY <2>1, Units
  <1>7. p \in Nat /\ p # 0
    BY <1>6 DEF Powers
  <1> HIDE DEF p
  <1>8. c \in Nat /\ left[1] - 1 = p * c
    <2>1. left[1] - 1 \in Nat
      BY <1>2
    <2> HIDE DEF at
    <2> QED BY <1>3, <1>4, <1>7, <2>1, DivExact
  <1> HIDE DEF at, f
  <1>9. PICK h \in Nat : c = 2 * h
    <2> HIDE DEF c
    <2>1. c \div 2 \in Nat /\ c = 2 * (c \div 2)
      BY <1>1, <1>8 DEF c
    <2> QED BY <2>1
  <1> HIDE DEF c
  <1>10. f = p * (2 * h + 1)
    BY <1>2, <1>5, <1>7, <1>8, <1>9 DEF f
  <1>11. Span(f) = p
    <2>1. f \in Nat
      BY <1>2
    <2> QED BY <1>6, <1>10, <2>1, SpanIs
  <1>12. (f - 1) \div p = c
    <2>1. f - 1 = p * c + (p - 1) /\ p - 1 \in Nat /\ p - 1 < p
      BY <1>2, <1>5, <1>7, <1>8 DEF f
    <2> QED BY <1>7, <1>8, <2>1, DivIs
  <1>13. Parting(f, n) = <<c, at[2]>>
    BY <1>4, <1>11, <1>12 DEF Parting
  <1> QED BY <1>4, <1>13 DEF left, f, at, c

(* The earlier tree grows as the later one does: it splits where that      *)
(* does.                                                                   *)
LEMMA EarlierTree ==
  ASSUME NEW n \in Nat, NEW a, Len(a) = n, NEW part \in Parts(n), NEW f \in Nat,
         Within(part, f), f # part[2], ~(f < HalfOf(part))
  PROVE  TreesOver(a)[<<part[1], f>>]
           = Node(TreesOver(a)[LeftOf(part)], TreesOver(a)[<<HalfOf(part), f>>])
  <1> DEFINE k == HalfOf(part)
             small == <<part[1], f>>
             p == Split(SizeOf(part))
  <1>1. part[1] \in 1..n /\ part[2] \in 1..n /\ part[1] <= f /\ f < part[2] /\ k <= f
        /\ k \in Nat /\ part[1] < k
    <2>1. part[1] \in 1..n /\ part[2] \in 1..n /\ part[1] <= f /\ f < part[2]
      BY DEF Within, Parts
    <2>2. k \in Nat /\ part[1] < k
      BY <2>1, HalvesAre
    <2> HIDE DEF k
    <2> QED BY <2>1, <2>2 DEF k
  <1>2. small[1] = part[1] /\ small[2] = f /\ small \in Parts(n) /\ small[1] # small[2]
    BY <1>1 DEF Parts
  <1>3. SizeOf(part) = part[2] - part[1] + 1 /\ SizeOf(small) = f - part[1] + 1
    BY DEF SizeOf
  <1> HIDE DEF small
  <1>4. SizeOf(part) \in Nat /\ SizeOf(part) >= 2
    BY <1>1, <1>3
  <1>5. p \in Powers /\ p < SizeOf(part) /\ SizeOf(part) <= 2 * p
    BY <1>4, Splits2
  <1>6. k = part[1] + p /\ p \in Nat
    BY <1>5 DEF HalfOf, Powers
  <1> HIDE DEF k, p
  <1>7. SizeOf(small) \in Nat /\ p < SizeOf(small) /\ SizeOf(small) <= 2 * p
    BY <1>1, <1>3, <1>5, <1>6
  <1>8. Split(SizeOf(small)) = p
    BY <1>5, <1>7, SplitIs
  <1>9. HalfOf(small) = k
    BY <1>2, <1>6, <1>8 DEF HalfOf
  <1>10. LeftOf(small) = LeftOf(part) /\ RightOf(small) = <<k, f>>
    BY <1>2, <1>9 DEF LeftOf, RightOf, k
  <1>11. TreesOver(a)[small] = Node(TreesOver(a)[LeftOf(small)], TreesOver(a)[RightOf(small)])
    BY <1>2, TreeIs
  <1> QED BY <1>10, <1>11 DEF small, k

FirstAt(c, j) == c[j].first
SecondAt(c, j) == c[j].second

BothFrom(n, f, r) == [place |-> Parting(f, n), fits |-> TRUE, first |-> r, second |-> r]

(* The path after its first tree, up to a part.                            *)
Rest(a, f, part, path, depth) == \A j \in 1..depth : path[j] = FromNew(a, f, part)[j + 1]

(* What the verifier of a consistency has when it has come to a part: the   *)
(* later tree exactly when it started from the tree that the path starts   *)
(* from, and the earlier tree then too.                                    *)
BothTell(a, n, f, r, s, part) ==
    /\ MeetsBoth(n, s, part)
    /\ s.second = TreesOver(a)[part] <=> r = FromNew(a, f, part)[1]
    /\ r = FromNew(a, f, part)[1] => s.first = TreesOver(a)[<<part[1], f>>]

LEMMA BothMeet ==
  ASSUME NEW S, NEW n \in Nat, NEW a \in LeavesIn(S, n), NEW f \in Nat, NEW r,
         NEW m \in Nat, NEW path, NEW c, ClimbingBoth(c, BothFrom(n, f, r), m, path),
         NEW whole, Aligned(n, whole), Within(whole, f), f # whole[2], Up(a, f, whole) <= m,
         Rest(a, f, whole, path, Up(a, f, whole))
  PROVE  BothTell(a, n, f, r, c[Up(a, f, whole)], whole)
  <1> DEFINE up(part) == Up(a, f, part)
             Wrong == {part \in Parts(n) : /\ Aligned(n, part) /\ Within(part, f) /\ f # part[2]
                                           /\ up(part) <= m /\ Rest(a, f, part, path, up(part))
                                           /\ ~BothTell(a, n, f, r, c[up(part)], part)}
  <1> SUFFICES ASSUME Wrong # {} PROVE FALSE
    BY DEF Aligned
  <1>1. n \in Nat /\ a \in Seq(S) /\ Len(a) = n
    BY DEF LeavesIn
  <1>2. PICK part \in Wrong : \A other \in Wrong : ~(other[2] - other[1] < part[2] - part[1])
    <2>1. Wrong \in SUBSET Parts(n)
      OBVIOUS
    <2> HIDE DEF Wrong
    <2> QED BY <1>1, <2>1, SmallestPart
  <1>3. /\ part \in Parts(n) /\ Aligned(n, part) /\ Within(part, f) /\ f # part[2]
        /\ up(part) <= m /\ Rest(a, f, part, path, up(part))
        /\ ~BothTell(a, n, f, r, c[up(part)], part)
    OBVIOUS
  <1> HIDE DEF Wrong
  <1> DEFINE k == HalfOf(part)
             left == LeftOf(part)
             right == RightOf(part)
             near == Near(part, f)
             far == Far(part, f)
             new == FromNew(a, f, part)
             old == FromNew(a, f, near)
             T == TreesOver(a)
  <1>4. part[1] # part[2] /\ f \in part[1]..part[2]
    BY <1>3 DEF Within, Parts
  <1>5. /\ k \in Nat /\ part[1] \in 1..n /\ part[2] \in 1..n /\ part[1] < k /\ k <= part[2]
        /\ left \in Parts(n) /\ left[1] = part[1] /\ left[2] = k - 1
        /\ right \in Parts(n) /\ right[1] = k /\ right[2] = part[2]
    BY <1>1, <1>3, <1>4, HalvesAre
  <1>6. /\ near \in Parts(n) /\ Within(near, f) /\ near[2] - near[1] < part[2] - part[1]
        /\ Aligned(n, near)
    BY <1>1, <1>3, <1>4, NearIsNear, AlignedHalves
  <1>7. near = (IF f < k THEN left ELSE right) /\ far = (IF f < k THEN right ELSE left)
    BY DEF Near, Far
  <1>8. /\ up(near) \in Nat /\ up(part) = up(near) + 1
        /\ new[up(part) + 1] = T[far]
        /\ \A j \in 1..(up(near) + 1) : new[j] = old[j]
    <2>1. /\ Up(a, f, Near(part, f)) \in Nat
          /\ Up(a, f, part) = Up(a, f, Near(part, f)) + 1
          /\ FromNew(a, f, part)[Up(a, f, part) + 1] = TreesOver(a)[Far(part, f)]
          /\ \A j \in 1..(Up(a, f, Near(part, f)) + 1) : FromNew(a, f, part)[j] = FromNew(a, f, Near(part, f))[j]
      BY <1>1, <1>3, FromNewGoesOn
    <2> QED BY <2>1
  <1>9. near \notin Wrong
    BY <1>2, <1>6
  <1>10. T[part] = Node(T[left], T[right])
    BY <1>1, <1>3, <1>4, TreeIs
  <1>11. path[up(part)] = T[far]
    <2> HIDE DEF up, far, near, T
    <2>1. up(part) \in 1..up(part)
      BY <1>8
    <2> QED BY <1>3, <1>8, <2>1 DEF Rest, up
  <1>12. new[1] = old[1]
    <2> HIDE DEF up, new, old, near
    <2>1. 1 \in 1..(up(near) + 1)
      BY <1>8
    <2> QED BY <1>8, <2>1
  <1>13. c[up(part)] = ClimbBoth(c[up(near)], T[far])
    <2> HIDE DEF up, far, near, T
    <2>1. up(part) \in 1..m /\ up(part) - 1 = up(near)
      BY <1>3, <1>8
    <2> QED BY <1>11, <2>1 DEF ClimbingBoth
  <1>14. BothTell(a, n, f, r, c[up(near)], near)
    <2>1. CASE f # near[2]
      <3>1. up(near) <= m
        <4> HIDE DEF up, near
        <4> QED BY <1>3, <1>8
      <3>2. Rest(a, f, near, path, up(near))
        <4>1. ASSUME NEW j \in 1..up(near) PROVE path[j] = old[j + 1]
          <5> HIDE DEF up, near, new, old
          <5>1. j \in 1..up(part) /\ j + 1 \in 1..(up(near) + 1)
            BY <1>8
          <5> QED BY <1>3, <1>8, <5>1 DEF Rest, new
        <4> QED BY <4>1 DEF Rest
      <3> QED BY <1>6, <1>9, <2>1, <3>1, <3>2 DEF Wrong
    <2>2. CASE f = near[2]
      <3>1. near = left /\ f = left[2]
        BY <1>3, <1>5, <1>7, <2>2
      <3>2. old[1] = T[near] /\ up(near) = 0
        BY <1>1, <1>6, <2>2, FromNewStarts
      <3>3. c[0] = BothFrom(n, f, r)
        BY DEF ClimbingBoth
      <3>4. Parting(f, n) = PlaceOf(n, near)
        BY <1>3, <1>4, <3>1, PartingIs
      <3>5. MeetsBoth(n, c[0], near) /\ c[0].first = r /\ c[0].second = r
        BY <3>3, <3>4 DEF BothFrom, MeetsBoth
      <3>6. near = <<near[1], f>>
        BY <1>6, <2>2 DEF Parts
      <3> HIDE DEF up, near, old, T
      <3>7. /\ c[0].second = T[near] <=> r = old[1]
            /\ r = old[1] => c[0].first = T[<<near[1], f>>]
        BY <3>2, <3>5, <3>6
      <3> QED BY <3>2, <3>5, <3>7 DEF BothTell, near, old, T
    <2> QED BY <2>1, <2>2
  <1> DEFINE s == c[up(near)]
             t == c[up(part)]
  <1>15. /\ MeetsBoth(n, t, part)
         /\ t.first = IF f < k THEN s.first ELSE Node(T[far], s.first)
         /\ t.second = IF f < k THEN Node(s.second, T[far]) ELSE Node(T[far], s.second)
    <2>1. MeetsBoth(n, s, Near(part, f))
      BY <1>14 DEF BothTell
    <2> HIDE DEF s, T, far
    <2>2. t = ClimbBoth(s, T[far])
      BY <1>13 DEF s
    <2> HIDE DEF t
    <2> QED BY <1>1, <1>3, <1>4, <2>1, <2>2, ClimbsBothToPart
  <1>16. /\ s.second = T[near] <=> r = new[1]
         /\ r = new[1] => s.first = T[<<near[1], f>>]
    <2>1. /\ s.second = T[near] <=> r = old[1]
          /\ r = old[1] => s.first = T[<<near[1], f>>]
      BY <1>14 DEF BothTell
    <2> HIDE DEF s, T, near, old, new
    <2> QED BY <1>12, <2>1
  <1>17. CASE f < k
    <2>1. near = left /\ far = right /\ near[1] = part[1]
      BY <1>5, <1>7, <1>17
    <2>2. t.first = s.first /\ t.second = Node(s.second, T[right]) /\ T[part] = Node(T[left], T[right])
      BY <1>10, <1>15, <1>17, <2>1
    <2>3. t.second = T[part] <=> s.second = T[left]
      BY <2>2 DEF Node
    <2>4. /\ t.second = T[part] <=> r = new[1]
          /\ r = new[1] => t.first = T[<<part[1], f>>]
      BY <1>16, <2>1, <2>2, <2>3
    <2> QED BY <1>3, <1>15, <2>4 DEF BothTell
  <1>18. CASE ~(f < k)
    <2>1. near = right /\ far = left /\ near[1] = k
      BY <1>5, <1>7, <1>18
    <2>2. t.first = Node(T[left], s.first) /\ t.second = Node(T[left], s.second) /\ T[part] = Node(T[left], T[right])
      BY <1>10, <1>15, <1>18, <2>1
    <2>3. t.second = T[part] <=> s.second = T[right]
      BY <2>2 DEF Node
    <2>4. T[<<part[1], f>>] = Node(T[left], T[<<k, f>>])
      BY <1>1, <1>3, <1>18, EarlierTree
    <2>5. /\ t.second = T[part] <=> r = new[1]
          /\ r = new[1] => t.first = T[<<part[1], f>>]
      BY <1>16, <2>1, <2>2, <2>3, <2>4
    <2> QED BY <1>3, <1>15, <2>5 DEF BothTell
  <1> QED BY <1>17, <1>18

(* Of an earlier tree that is full, the path leaves the root out, which    *)
(* the verifier has.                                                       *)
LEMMA FromAPower ==
  ASSUME NEW S, NEW a \in Seq(S), NEW f \in Powers, NEW whole \in Parts(Len(a)), whole[1] = 1,
         Within(whole, f)
  PROVE  /\ FromOld(a, f, whole) \in Seq(Siblings(a))
         /\ FromNew(a, f, whole) = <<TreesOver(a)[<<1, f>>]>> \o FromOld(a, f, whole)
  <1> DEFINE n == Len(a)
             tree == TreesOver(a)[<<1, f>>]
             Fine(part) == /\ FromOld(a, f, part) \in Seq(Siblings(a))
                           /\ FromNew(a, f, part) = <<tree>> \o FromOld(a, f, part)
             Wrong == {part \in Parts(n) : part[1] = 1 /\ Within(part, f) /\ ~Fine(part)}
  <1> SUFFICES ASSUME Wrong # {} PROVE FALSE
    OBVIOUS
  <1>0. n \in Nat /\ f \in Nat
    BY DEF Powers
  <1>1. PICK part \in Wrong : \A other \in Wrong : ~(other[2] - other[1] < part[2] - part[1])
    <2>1. Wrong \in SUBSET Parts(n)
      OBVIOUS
    <2> HIDE DEF Wrong, n
    <2> QED BY <1>0, <2>1, SmallestPart
  <1>2. part \in Parts(n) /\ part[1] = 1 /\ Within(part, f) /\ ~Fine(part)
    OBVIOUS
  <1> HIDE DEF Wrong
  <1>3. CASE f = part[2]
    <2>1. FromNew(a, f, part) = <<TreesOver(a)[part]>> /\ FromOld(a, f, part) = <<>>
      BY <1>0, <1>2, <1>3, FromGoesOn
    <2>2. part = <<1, f>>
      BY <1>2, <1>3 DEF Parts
    <2>3. <<tree>> \o <<>> = <<tree>> /\ <<>> \in Seq(Siblings(a))
      <3>1. <<tree>> \in Seq({tree})
        OBVIOUS
      <3> HIDE DEF tree
      <3> QED BY <3>1
    <2> QED BY <1>2, <2>1, <2>2, <2>3
  <1>4. CASE f # part[2]
    <2> DEFINE left == LeftOf(part)
               right == RightOf(part)
    <2>1. part[1] # part[2] /\ f \in part[1]..part[2] /\ f < part[2]
      BY <1>0, <1>2, <1>4 DEF Within, Parts
    <2>2. f < HalfOf(part)
      <3> DEFINE size == SizeOf(part)
                 p == Split(size)
      <3>1. size = part[2] /\ size \in Nat /\ size >= 2
        BY <1>0, <1>2, <2>1 DEF SizeOf, Parts
      <3> HIDE DEF size
      <3>2. p \in Powers /\ p < size /\ size <= 2 * p
        BY <3>1, Splits2
      <3>3. p \in Nat
        BY <3>2 DEF Powers
      <3> HIDE DEF p
      <3>4. ~(p < f)
        <4> SUFFICES ASSUME p < f PROVE FALSE
          OBVIOUS
        <4>1. 2 * p <= f
          BY <3>2, PowersGap
        <4> QED BY <1>0, <2>1, <3>1, <3>2, <3>3, <4>1
      <3> QED BY <1>0, <1>2, <3>3, <3>4 DEF HalfOf, size, p
    <2>3. Near(part, f) = left /\ Far(part, f) = right
      BY <2>2 DEF Near, Far
    <2>4. /\ FromNew(a, f, part) = Append(FromNew(a, f, left), TreesOver(a)[right])
          /\ FromOld(a, f, part) = Append(FromOld(a, f, left), TreesOver(a)[right])
      BY <1>0, <1>2, <1>4, <2>2, <2>3, FromGoesOn
    <2>5. /\ left \in Parts(n) /\ right \in Parts(n) /\ Within(left, f)
          /\ left[2] - left[1] < part[2] - part[1] /\ left[1] = 1
      BY <1>0, <1>2, <2>1, <2>3, NearIsNear, HalvesAre
    <2>6. left \notin Wrong
      BY <1>1, <2>5
    <2>7. Fine(left)
      BY <2>5, <2>6 DEF Wrong
    <2>8. TreesOver(a)[right] \in Siblings(a) /\ tree \in Siblings(a)
      <3>1. <<1, f>> \in Parts(n)
        BY <1>0, <1>2, <2>1 DEF Parts
      <3> QED BY <2>5, <3>1 DEF Siblings
    <2> DEFINE old == FromOld(a, f, left)
               sibling == TreesOver(a)[right]
    <2>9. old \in Seq(Siblings(a)) /\ FromNew(a, f, left) = <<tree>> \o old
      BY <2>7
    <2> HIDE DEF tree, left, right, Fine, old, sibling
    <2>10. Append(old, sibling) \in Seq(Siblings(a))
           /\ Append(<<tree>> \o old, sibling) = <<tree>> \o Append(old, sibling)
      BY <2>8, <2>9 DEF sibling
    <2> QED BY <1>2, <2>4, <2>9, <2>10 DEF Fine, old, sibling
  <1> QED BY <1>3, <1>4

(* Of any other earlier tree, the path starts with its last full subtree.  *)
LEMMA FromNoPower ==
  ASSUME NEW S, NEW a \in Seq(S), NEW f \in Nat, f \notin Powers,
         NEW whole \in Parts(Len(a)), whole[1] = 1, Within(whole, f), f # whole[2]
  PROVE  FromOld(a, f, whole) = FromNew(a, f, whole)
  <1> DEFINE n == Len(a)
             Wrong == {part \in Parts(n) : /\ part[1] = 1 /\ Within(part, f) /\ f # part[2]
                                           /\ FromOld(a, f, part) # FromNew(a, f, part)}
  <1> SUFFICES ASSUME Wrong # {} PROVE FALSE
    OBVIOUS
  <1>0. n \in Nat
    OBVIOUS
  <1>1. PICK part \in Wrong : \A other \in Wrong : ~(other[2] - other[1] < part[2] - part[1])
    <2>1. Wrong \in SUBSET Parts(n)
      OBVIOUS
    <2> HIDE DEF Wrong, n
    <2> QED BY <1>0, <2>1, SmallestPart
  <1>2. /\ part \in Parts(n) /\ part[1] = 1 /\ Within(part, f) /\ f # part[2]
        /\ FromOld(a, f, part) # FromNew(a, f, part)
    OBVIOUS
  <1> HIDE DEF Wrong
  <1>3. f < HalfOf(part)
    BY <1>2, FromGoesOn
  <1> DEFINE left == LeftOf(part)
             right == RightOf(part)
  <1>4. Near(part, f) = left /\ Far(part, f) = right
    BY <1>3 DEF Near, Far
  <1>5. part[1] # part[2] /\ f \in part[1]..part[2]
    BY <1>2 DEF Within, Parts
  <1>6. /\ left \in Parts(n) /\ Within(left, f) /\ left[2] - left[1] < part[2] - part[1]
        /\ left[1] = 1 /\ left[2] = HalfOf(part) - 1
    BY <1>0, <1>2, <1>4, <1>5, NearIsNear, HalvesAre
  <1>7. left[2] \in Powers
    <2>1. SizeOf(part) \in Nat /\ SizeOf(part) >= 2
      BY <1>2, <1>5 DEF SizeOf, Parts
    <2>2. Split(SizeOf(part)) \in Powers
      BY <2>1, Splits2
    <2>3. left[2] = Split(SizeOf(part))
      BY <1>2, <1>6, <2>2 DEF HalfOf, Powers
    <2> QED BY <2>2, <2>3
  <1>8. f # left[2]
    BY <1>7
  <1>9. left \notin Wrong
    BY <1>1, <1>6
  <1>10. FromOld(a, f, left) = FromNew(a, f, left)
    BY <1>6, <1>8, <1>9 DEF Wrong
  <1>11. /\ FromNew(a, f, part) = Append(FromNew(a, f, left), TreesOver(a)[right])
         /\ FromOld(a, f, part) = Append(FromOld(a, f, left), TreesOver(a)[right])
    BY <1>2, <1>3, <1>4, FromGoesOn
  <1> QED BY <1>2, <1>10, <1>11

(* What a verification comes to.                                           *)
LEMMA ConsistencyRuns ==
  ASSUME NEW S, NEW n \in Nat, NEW a \in LeavesIn(S, n), NEW f \in 1..(n - 1), NEW r, NEW path,
         DOMAIN path = 1..Up(a, f, <<1, n>>), Rest(a, f, <<1, n>>, path, Up(a, f, <<1, n>>))
  PROVE  LET end == FoldLeft(ClimbBoth, BothFrom(n, f, r), path)
             starts == r = FromNew(a, f, <<1, n>>)[1]
         IN /\ end.fits /\ end.place[2] = 0
            /\ end.second = RootOf(a) <=> starts
            /\ starts => end.first = TreesOver(a)[<<1, f>>]
  <1> DEFINE whole == <<1, n>>
             m == Up(a, f, whole)
             start == BothFrom(n, f, r)
  <1>1. /\ a \in Seq(S) /\ Len(a) = n /\ whole \in Parts(n) /\ whole[1] = 1 /\ whole[2] = n
        /\ f \in Nat /\ n # 0 /\ f # n /\ Within(whole, f)
    BY DEF Parts, LeavesIn, Within
  <1>2. Aligned(n, whole) /\ PlaceOf(n, whole) = <<0, 0>>
    BY <1>1, WholeIsAligned
  <1>3. RootOf(a) = TreesOver(a)[whole]
    BY <1>1, RootsAreTrees DEF RootIs
  <1> HIDE DEF whole
  <1>4. m \in Nat
    BY <1>1, FromNewGoesOn
  <1> HIDE DEF m
  <1>5. PICK c : ClimbingBoth(c, start, m, path) /\ FoldLeft(ClimbBoth, start, path) = c[m]
    <2>1. DOMAIN path = 1..m
      BY DEF m, whole
    <2> HIDE DEF start
    <2> QED BY <1>4, <2>1, ClimbsBothAlong
  <1>6. BothTell(a, n, f, r, c[m], whole)
    <2>1. Rest(a, f, whole, path, Up(a, f, whole)) /\ Up(a, f, whole) <= m
      BY <1>4 DEF m, whole
    <2> QED BY <1>1, <1>2, <1>4, <1>5, <2>1, BothMeet DEF m
  <1> DEFINE end == FoldLeft(ClimbBoth, start, path)
  <1>7. BothTell(a, n, f, r, end, whole)
    BY <1>5, <1>6
  <1> HIDE DEF end
  <1>8. end.fits /\ end.place = <<0, 0>>
    BY <1>2, <1>7 DEF BothTell, MeetsBoth
  <1>9. /\ end.second = RootOf(a) <=> r = FromNew(a, f, whole)[1]
        /\ r = FromNew(a, f, whole)[1] => end.first = TreesOver(a)[<<1, f>>]
    BY <1>1, <1>3, <1>7 DEF BothTell
  <1> QED BY <1>8, <1>9 DEF end, whole

(* The consistency proof of a tree with an earlier one convinces exactly   *)
(* when the earlier root is that of its own first leaves.                  *)
LEMMA ConsistencyIsExact ==
  ASSUME NEW S, NEW n \in Nat, NEW a \in LeavesIn(S, n), NEW f \in 1..(n - 1), NEW root
  PROVE  Consistent(f, n, root, RootOf(a), ConsistencyProof(a, f)) <=> root = RootOfPart(a, 1, f)
  <1> DEFINE whole == <<1, n>>
             path == ConsistencyProof(a, f)
             new == FromNew(a, f, whole)
             tree == TreesOver(a)[<<1, f>>]
             m == Up(a, f, whole)
             nodes == IF IsPowerOfTwo(f) THEN <<root>> \o path ELSE path
             end == FoldLeft(ClimbBoth, [place |-> Parting(f, n), fits |-> TRUE,
                                         first |-> Head(nodes), second |-> Head(nodes)], Tail(nodes))
  <1>1. /\ a \in Seq(S) /\ Len(a) = n /\ whole \in Parts(n) /\ whole[1] = 1 /\ whole[2] = n
        /\ f \in Nat /\ n # 0 /\ f # n /\ f # 0 /\ ~(f > n) /\ Within(whole, f) /\ <<1, f>> \in Parts(n)
    BY DEF Parts, LeavesIn, Within
  <1>2. tree = RootOfPart(a, 1, f)
    <2>1. <<1, f>> \in Parts(Len(a)) /\ <<1, f>>[1] = 1 /\ <<1, f>>[2] = f
      BY <1>1
    <2> QED BY <1>1, <2>1, PartsAreTrees
  <1>3. path = FromOld(a, f, whole)
    BY <1>1 DEF ConsistencyProof, FromOld
  <1>4. new \in Seq(Siblings(a)) /\ m = Len(new) - 1
    BY <1>1, FromNewIsASequence DEF Up
  <1>5. m \in Nat /\ m # 0
    <2>1. Up(a, f, Near(whole, f)) \in Nat /\ Up(a, f, whole) = Up(a, f, Near(whole, f)) + 1
      BY <1>1, FromNewGoesOn
    <2> HIDE DEF whole
    <2> QED BY <2>1
  <1>6. Consistent(f, n, root, RootOf(a), path)
          <=> /\ path # <<>> /\ end.fits /\ end.place[2] = 0
              /\ end.first = root /\ end.second = RootOf(a)
    <2> HIDE DEF path
    <2> QED BY <1>1 DEF Consistent
  <1>7. CASE f \in Powers
    <2>1. path \in Seq(Siblings(a)) /\ new = <<tree>> \o path
      BY <1>1, <1>3, <1>7, FromAPower
    <2> DEFINE start == BothFrom(n, f, root)
    <2>2. end = FoldLeft(ClimbBoth, start, path)
      <3>1. nodes = <<root>> \o path
        BY <1>7 DEF Powers
      <3>2. Head(nodes) = root /\ Tail(nodes) = path
        <4> HIDE DEF path, nodes
        <4>1. path \in Seq(Siblings(a) \cup {root}) /\ root \in Siblings(a) \cup {root}
          BY <2>1
        <4> QED BY <3>1, <4>1
      <3> HIDE DEF nodes
      <3> QED BY <3>2, Zenon DEF BothFrom
    <2>3. tree \in Siblings(a)
      BY <1>1 DEF Siblings
    <2> HIDE DEF path, new, tree, m
    <2>4. DOMAIN path = 1..m /\ new[1] = tree /\ \A j \in 1..m : path[j] = new[j + 1]
      BY <1>4, <1>5, <2>1, <2>3
    <2>5. path # <<>>
      BY <1>5, <2>1, <2>4
    <2> HIDE DEF end, start
    <2>6. /\ end.fits /\ end.place[2] = 0
          /\ end.second = RootOf(a) <=> root = tree
          /\ root = tree => end.first = tree
      <3>1. DOMAIN path = 1..Up(a, f, <<1, n>>) /\ Rest(a, f, <<1, n>>, path, Up(a, f, <<1, n>>))
        BY <2>4 DEF Rest, m, new
      <3>2. LET stop == FoldLeft(ClimbBoth, BothFrom(n, f, root), path)
                starts == root = FromNew(a, f, <<1, n>>)[1]
            IN /\ stop.fits /\ stop.place[2] = 0
               /\ stop.second = RootOf(a) <=> starts
               /\ starts => stop.first = TreesOver(a)[<<1, f>>]
        BY <3>1, ConsistencyRuns
      <3> QED BY <2>2, <2>4, <3>2 DEF start, new, tree
    <2> QED BY <1>2, <1>6, <2>5, <2>6 DEF path
  <1>8. CASE f \notin Powers
    <2>1. path = new
      BY <1>1, <1>3, <1>8, FromNoPower
    <2>2. nodes = new
      BY <1>1, <1>8, <2>1 DEF Powers
    <2> DEFINE rest == Tail(new)
               start == BothFrom(n, f, new[1])
    <2> HIDE DEF new, nodes, path, m
    <2>3. Head(nodes) = new[1] /\ Tail(nodes) = rest /\ path # <<>>
          /\ DOMAIN rest = 1..m /\ \A j \in 1..m : rest[j] = new[j + 1]
      BY <1>4, <1>5, <2>1, <2>2
    <2>4. end = FoldLeft(ClimbBoth, start, rest)
      BY <2>3, Zenon DEF BothFrom
    <2> HIDE DEF end, start, rest, tree
    <2>5. end.fits /\ end.place[2] = 0 /\ end.second = RootOf(a) /\ end.first = tree
      <3>1. DOMAIN rest = 1..Up(a, f, <<1, n>>) /\ Rest(a, f, <<1, n>>, rest, Up(a, f, <<1, n>>))
        BY <2>3 DEF Rest, m, new
      <3>2. LET stop == FoldLeft(ClimbBoth, BothFrom(n, f, new[1]), rest)
                starts == new[1] = FromNew(a, f, <<1, n>>)[1]
            IN /\ stop.fits /\ stop.place[2] = 0
               /\ stop.second = RootOf(a) <=> starts
               /\ starts => stop.first = TreesOver(a)[<<1, f>>]
        BY <3>1, ConsistencyRuns
      <3> QED BY <2>4, <3>2 DEF start, new, tree
    <2> QED BY <1>2, <1>6, <2>3, <2>5 DEF path
  <1> QED BY <1>7, <1>8

(* The same for any earlier tree, also an empty one and the whole.         *)
LEMMA ConsistencyHolds ==
  ASSUME NEW S, NEW n \in Nat, NEW a \in LeavesIn(S, n), NEW f \in 0..n, NEW root
  PROVE  Consistent(f, n, root, RootOf(a), ConsistencyProof(a, f)) <=> root = RootOf(SubSeq(a, 1, f))
  <1> DEFINE path == ConsistencyProof(a, f)
  <1>1. a \in Seq(S) /\ Len(a) = n /\ ~(f > n)
    BY DEF LeavesIn
  <1>2. CASE f = 0
    <2>1. path = <<>> /\ SubSeq(a, 1, f) = <<>>
      BY <1>1, <1>2, SubSeqProperties DEF ConsistencyProof
    <2>2. RootOf(SubSeq(a, 1, f)) = EmptyRoot
      BY <2>1 DEF RootOf
    <2> HIDE DEF path
    <2> QED BY <1>1, <1>2, <2>1, <2>2 DEF Consistent, path
  <1>3. CASE f = n /\ f # 0
    <2>1. path = <<>>
      BY <1>1, <1>3 DEF ConsistencyProof
    <2>2. SubSeq(a, 1, f) = a
      <3>1. /\ SubSeq(a, 1, n) \in Seq(S) /\ Len(SubSeq(a, 1, n)) = n
            /\ \A i \in 1..n : SubSeq(a, 1, n)[i] = a[i]
        BY <1>1, <1>3, SubSeqProperties
      <3> QED BY <1>1, <1>3, <3>1
    <2>3. n # 0 /\ n > 0 /\ ~(n > n)
      BY <1>3
    <2> HIDE DEF path
    <2>4. Consistent(n, n, root, RootOf(a), path) <=> root = RootOf(a) /\ path = <<>>
      BY <2>3 DEF Consistent
    <2> QED BY <1>3, <2>1, <2>2, <2>4 DEF path
  <1>4. CASE f # n /\ f # 0
    <2>1. f \in 1..(n - 1)
      BY <1>4
    <2> QED BY <2>1, ConsistencyIsExact DEF RootOfPart
  <1> QED BY <1>2, <1>3, <1>4

(* The altered tree of an input has no leaf of the original one but at its *)
(* own place, so that leaves tell their places.                            *)
LEMMA InputLeaves ==
  ASSUME MaxLeaves \in Nat, Given, input.kind = "tree"
  PROVE  /\ input.size \in Nat \ {0} /\ input.index \in 0..input.size
         /\ Original(input) \in LeavesIn(0..input.size, input.size)
         /\ \A leaves \in {Original(input), Forged(input)} :
              /\ leaves \in LeavesIn(0..input.size, input.size)
              /\ \A i, j \in 1..input.size : Original(input)[i] = leaves[j] => i = j
         /\ \A i \in 1..input.size : Original(input)[i] = i
  <1>1. input \in Trees
    <2>1. /\ input \in Elections => input.kind = "election"
          /\ input \in Records => input.kind = "gold"
      BY DEF Elections, Records
    <2>2. input \in Domains => input.kind = "domain"
      BY DEF Domains
    <2>3. input \in Exports => input.kind = "export"
      BY DEF Exports
    <2> QED BY <2>1, <2>2, <2>3 DEF Given
  <1>2. /\ input.size \in 1..MaxLeaves /\ input.index \in 0..MaxLeaves
        /\ input.altered \in 1..MaxLeaves
        /\ input.index <= input.size /\ input.altered <= input.size
    BY <1>1 DEF Trees
  <1> DEFINE n == input.size
             at == input.altered
  <1>3. n \in Nat \ {0} /\ input.index \in 0..n /\ at \in 1..n
    BY <1>2
  <1>4. /\ Original(input) = [i \in 1..n |-> i]
        /\ Forged(input) = [[i \in 1..n |-> i] EXCEPT ![at] = 0]
    BY DEF Original, Forged
  <1> HIDE DEF n, at
  <1>5. /\ [i \in 1..n |-> i] \in [1..n -> 0..n]
        /\ [[i \in 1..n |-> i] EXCEPT ![at] = 0] \in [1..n -> 0..n]
    BY <1>3
  <1>6. \A i, j \in 1..n : i = [[k \in 1..n |-> k] EXCEPT ![at] = 0][j] => i = j
    BY <1>3
  <1> QED BY <1>3, <1>4, <1>5, <1>6 DEF LeavesIn, n

(* ProofsAreExact: the proofs that inclusion_proof and consistency_proof   *)
(* build convince verify_inclusion and verify_consistency of what is so,   *)
(* and of nothing else, in trees of every size.                            *)
THEOREM ProofsConvinceOfTheTruth ==
  ASSUME MaxLeaves \in Nat
  PROVE  Evaluations => []ProofsAreExact
  <1> DEFINE n == input.size
             S == 0..n
             a == Original(input)
  <1>1. ASSUME Given, input.kind = "tree", input.index < n,
               NEW digest \in 0..n, NEW at \in 0..n, NEW b \in {Original(input), Forged(input)}
        PROVE  Included(digest, at, n, InclusionProof(a, input.index), RootOf(b))
                 <=> at = input.index /\ digest = b[at + 1] /\ OthersAgree(b, at + 1)
    <2>1. /\ n \in Nat \ {0} /\ input.index \in 0..n /\ a \in LeavesIn(S, n) /\ b \in LeavesIn(S, n)
          /\ \A i, j \in 1..n : a[i] = b[j] => i = j
          /\ \A i \in 1..n : a[i] = i
      BY <1>1, InputLeaves
    <2>2. CASE at = n
      <3>1. ~(at < n) /\ at # input.index
        BY <1>1, <2>1, <2>2
      <3> QED BY <3>1 DEF Included
    <2>3. CASE at # n
      <3> DEFINE y == at + 1
                 x == input.index + 1
      <3>1. y \in 1..n /\ x \in 1..n /\ y - 1 = at /\ x - 1 = input.index
        BY <1>1, <2>1, <2>3
      <3> HIDE DEF n, S, a, x, y
      <3>2. OthersAgree(b, y) <=> \A i \in 1..n : i # y => a[i] = b[i]
        <4>1. DOMAIN b = 1..n
          BY <2>1 DEF LeavesIn
        <4> QED BY <2>1, <4>1 DEF OthersAgree
      <3>3. ASSUME Included(digest, y - 1, n, InclusionProof(a, x - 1), RootOf(b))
            PROVE  x = y /\ digest = b[y] /\ \A i \in 1..n : i # y => a[i] = b[i]
        <4>1. n \in Nat
          BY <2>1
        <4> QED BY <2>1, <3>1, <3>3, <4>1, InclusionTells
      <3>4. ASSUME x = y, digest = b[y], \A i \in 1..n : i # y => a[i] = b[i]
            PROVE  Included(digest, y - 1, n, InclusionProof(a, x - 1), RootOf(b))
        <4>1. n \in Nat /\ Replaces(a, b, n, y, digest)
          BY <2>1, <3>4 DEF Replaces
        <4>2. Included(digest, y - 1, n, InclusionProof(a, y - 1), RootOf(b))
          BY <2>1, <3>1, <4>1, InclusionHolds
        <4> QED BY <3>4, <4>2
      <3>5. x = y <=> at = input.index
        BY <2>1, <3>1 DEF x, y
      <3> QED BY <3>1, <3>2, <3>3, <3>4, <3>5 DEF y
    <2> QED BY <2>2, <2>3
  <1>2. ASSUME Given, input.kind = "tree", NEW b \in {Original(input), Forged(input)}
        PROVE  Consistent(input.index, n, RootOf(SubSeq(b, 1, input.index)), RootOf(a),
                          ConsistencyProof(a, input.index))
                 <=> SubSeq(b, 1, input.index) = SubSeq(a, 1, input.index)
    <2> DEFINE f == input.index
    <2>1. n \in Nat /\ f \in 0..n /\ a \in LeavesIn(S, n) /\ b \in LeavesIn(S, n)
      BY <1>2, InputLeaves
    <2> HIDE DEF n, S, a, f
    <2>2. Consistent(f, n, RootOf(SubSeq(b, 1, f)), RootOf(a), ConsistencyProof(a, f))
            <=> RootOf(SubSeq(b, 1, f)) = RootOf(SubSeq(a, 1, f))
      BY <2>1, ConsistencyHolds
    <2>3. ASSUME NEW c \in LeavesIn(S, n)
          PROVE  SubSeq(c, 1, f) = [i \in 1..f |-> SubSeq(c, 1, f)[i]]
      <3>1. f \in Int /\ 1 \in Int /\ \A i \in 1..f : c[i] \in S
        BY <2>1 DEF LeavesIn
      <3>2. SubSeq(c, 1, f) \in Seq(S) /\ Len(SubSeq(c, 1, f)) = f
        BY <2>1, <3>1, SubSeqProperties
      <3> QED BY <3>2
    <2>4. RootOf(SubSeq(b, 1, f)) = RootOf(SubSeq(a, 1, f)) => SubSeq(b, 1, f) = SubSeq(a, 1, f)
      <3>1. f \in Nat
        BY <2>1
      <3>2. /\ SubSeq(a, 1, f) = [i \in 1..f |-> SubSeq(a, 1, f)[i]]
            /\ SubSeq(b, 1, f) = [i \in 1..f |-> SubSeq(b, 1, f)[i]]
        BY <2>1, <2>3
      <3> QED BY <3>1, <3>2, RootsDiffer
    <2> QED BY <2>2, <2>4 DEF f
  <1>3. Given => ProofsAreExact
    <2> HIDE DEF n, a
    <2> SUFFICES ASSUME Given, input.kind = "tree"
                 PROVE  /\ input.index < n =>
                             \A digest \in 0..n, at \in 0..n, b \in {Original(input), Forged(input)} :
                                Included(digest, at, n, InclusionProof(a, input.index), RootOf(b))
                                  <=> at = input.index /\ digest = b[at + 1] /\ OthersAgree(b, at + 1)
                        /\ \A earlier \in {SubSeq(b, 1, input.index) : b \in {Original(input), Forged(input)}} :
                             Consistent(input.index, n, RootOf(earlier), RootOf(a),
                                        ConsistencyProof(a, input.index))
                               <=> earlier = SubSeq(a, 1, input.index)
      BY Zenon DEF ProofsAreExact, n, a
    <2>1. input.index < n =>
             \A digest \in 0..n, at \in 0..n, b \in {Original(input), Forged(input)} :
                Included(digest, at, n, InclusionProof(a, input.index), RootOf(b))
                  <=> at = input.index /\ digest = b[at + 1] /\ OthersAgree(b, at + 1)
      BY <1>1, Zenon
    <2>2. ASSUME NEW earlier \in {SubSeq(b, 1, input.index) : b \in {Original(input), Forged(input)}}
          PROVE  Consistent(input.index, n, RootOf(earlier), RootOf(a), ConsistencyProof(a, input.index))
                   <=> earlier = SubSeq(a, 1, input.index)
      <3>1. PICK b \in {Original(input), Forged(input)} : earlier = SubSeq(b, 1, input.index)
        OBVIOUS
      <3> QED BY <1>2, <3>1, Zenon
    <2> QED BY <2>1, <2>2
  <1>4. Given /\ [Keep]_input => Given'
    BY DEF Keep, Given
  <1> QED BY <1>3, <1>4, PTL DEF Evaluations

(* The leaves that a checkpoint covers are the first ones of the log.      *)
LEMMA CoveredLeaves ==
  ASSUME NEW rows, NEW n, NEW chain, Lists(chain, n, rows),
         NEW c, c.covered \in Nat, Anchored(rows, c)
  PROVE  /\ c.covered \in 0..n
         /\ HashesOf(ChainOf(UpTo(rows, c.covered))) = [i \in 1..c.covered |-> chain[i].hash]
         /\ c.root = RootOf([i \in 1..c.covered |-> chain[i].hash])
  <1> DEFINE m == c.covered
             list == [i \in 1..m |-> chain[i]]
  <1>1. n \in Nat /\ \A r \in rows : r.seq \in 1..n
    BY ListedRows
  <1>2. m \in 0..n
    <2>1. m > 0 => \E r \in rows : r.seq = m
      BY DEF Anchored
    <2> HIDE DEF m
    <2>2. m \in Nat
      BY DEF m
    <2> QED BY <1>1, <2>1, <2>2
  <1>3. Lists(list, m, UpTo(rows, m))
    <2> HIDE DEF m
    <2> QED BY <1>2, PartIsListed
  <1>4. ChainOf(UpTo(rows, m)) = list
    <2> HIDE DEF m, list
    <2> QED BY <1>3, ChainIsList
  <1>5. HashesOf(list) = [i \in 1..m |-> chain[i].hash]
    BY DEF HashesOf
  <1>6. c.root = RootOf(HashesOf(list))
    BY <1>4 DEF Anchored
  <1> QED BY <1>2, <1>4, <1>5, <1>6

(* EntriesAreProvable: over intact tables, every inclusion and consistency *)
(* bundle verifies, for any number of entries and checkpoints.             *)
THEOREM EveryEntryIsProvable == Spec => []EntriesAreProvable
  <1>1. ASSUME Shape, Chained, Reliable, KeysKept, Intact, NEW i \in DOMAIN points,
               NEW r \in log, r.seq <= points[i].covered
        PROVE  InclusionVerifies(r, points[i], key)
    <2> DEFINE c == points[i]
               m == c.covered
               y == r.seq
    <2>1. i \in 1..Len(points) /\ Rooted(log)
      BY <1>1 DEF Shape, Reliable, Untampered, Intact
    <2>2. PICK n, chain : Lists(chain, n, log)
      BY <2>1 DEF Rooted, Sound, Numbered
    <2>3. m \in Nat /\ Anchored(log, c)
      BY <2>1 DEF Rooted
    <2> DEFINE leaves == [j \in 1..m |-> chain[j].hash]
               S == {chain[j].hash : j \in 1..m}
    <2>4. Leaves(c) = leaves /\ c.root = RootOf(leaves)
      <3> HIDE DEF c
      <3> QED BY <2>2, <2>3, CoveredLeaves DEF Leaves
    <2>5. y \in 1..n /\ n \in Nat /\ chain[y] = r
      BY <2>2, ListedRows
    <2>6. y \in 1..m
      BY <1>1, <2>3, <2>5
    <2>7. r.hash = DigestOf(r)
      BY <2>1 DEF Rooted, Sound
    <2>8. leaves[y] = DigestOf(r)
      BY <2>5, <2>6, <2>7
    <2>9. leaves \in LeavesIn(S, m)
      BY DEF LeavesIn
    <2>10. c.hash = DigestOfPoint(c) /\ c.key \in {key, NoKey}
      BY <1>1, <2>1 DEF Chained, KeysKept
    <2>11. NoKey \notin {key, c.key} => PointVerifies(c, key)
      BY <2>10 DEF PointVerifies, SignatureHolds
    <2> HIDE DEF c, m, y, leaves, S
    <2>12. Replaces(leaves, leaves, m, y, DigestOf(r))
      BY <2>8 DEF Replaces
    <2>13. Included(DigestOf(r), y - 1, m, InclusionProof(leaves, y - 1), RootOf(leaves))
      BY <2>3, <2>6, <2>9, <2>12, InclusionHolds
    <2>14. Included(DigestOf(r), r.seq - 1, c.covered, InclusionProof(Leaves(c), r.seq - 1), c.root)
      BY <2>4, <2>13 DEF m, y
    <2>15. InclusionVerifies(r, c, key)
      BY <2>7, <2>11, <2>14 DEF InclusionVerifies
    <2> QED BY <2>15 DEF c
  <1>2. ASSUME Shape, Reliable, Intact, NEW i \in DOMAIN points, NEW j \in 1..i,
               points[j].covered <= points[i].covered
        PROVE  ConsistencyVerifies(points[j], points[i])
    <2> DEFINE first == points[j]
               second == points[i]
               f == first.covered
               m == second.covered
    <2>1. i \in 1..Len(points) /\ j \in 1..Len(points) /\ Rooted(log)
      BY <1>2 DEF Shape, Reliable, Untampered, Intact
    <2>2. PICK n, chain : Lists(chain, n, log)
      BY <2>1 DEF Rooted, Sound, Numbered
    <2>3. m \in Nat /\ f \in Nat /\ Anchored(log, first) /\ Anchored(log, second)
      BY <2>1 DEF Rooted
    <2> DEFINE leaves == [k \in 1..m |-> chain[k].hash]
               earlier == [k \in 1..f |-> chain[k].hash]
               S == {chain[k].hash : k \in 1..m}
    <2>4. Leaves(second) = leaves /\ second.root = RootOf(leaves) /\ first.root = RootOf(earlier)
      <3> HIDE DEF first, second
      <3> QED BY <2>2, <2>3, CoveredLeaves DEF Leaves
    <2>5. f \in 0..m
      BY <1>2, <2>3
    <2>6. leaves \in LeavesIn(S, m)
      BY DEF LeavesIn
    <2> HIDE DEF first, second, f, m
    <2>7. SubSeq(leaves, 1, f) = earlier
      <3>1. f \in Int /\ 1 \in Int /\ \A k \in 1..f : leaves[k] \in S
        BY <2>3, <2>5
      <3>2. /\ SubSeq(leaves, 1, f) \in Seq(S) /\ Len(SubSeq(leaves, 1, f)) = f
            /\ \A k \in 1..f : SubSeq(leaves, 1, f)[k] = leaves[k]
        <4> HIDE DEF leaves, S
        <4>1. /\ SubSeq(leaves, 1, f) \in Seq(S)
              /\ Len(SubSeq(leaves, 1, f)) = IF 1 <= f THEN f - 1 + 1 ELSE 0
              /\ \A k \in 1..(f - 1 + 1) : SubSeq(leaves, 1, f)[k] = leaves[1 + k - 1]
          BY <3>1, SubSeqProperties
        <4> QED BY <2>5, <4>1
      <3>3. \A k \in 1..f : leaves[k] = earlier[k]
        BY <2>3, <2>5
      <3>4. SubSeq(leaves, 1, f) = [k \in 1..f |-> SubSeq(leaves, 1, f)[k]]
        BY <2>5, <3>2
      <3> HIDE DEF leaves
      <3> QED BY <3>2, <3>3, <3>4
    <2> HIDE DEF leaves, earlier, S
    <2>8. Consistent(f, m, first.root, RootOf(leaves), ConsistencyProof(leaves, f))
      BY <2>3, <2>4, <2>5, <2>6, <2>7, ConsistencyHolds
    <2>9. ConsistencyVerifies(first, second)
      BY <2>4, <2>8 DEF ConsistencyVerifies, f, m
    <2> QED BY <2>9 DEF first, second
  <1>3. Shape /\ Chained /\ Reliable /\ KeysKept => EntriesAreProvable
    BY <1>1, <1>2 DEF EntriesAreProvable
  <1> QED BY <1>3, TablesGoverned, PTL

-------------------------------------------------------------------------------
(* Rows that may have gaps                                                 *)

(* Rows with numbers of their own, gaps or not.                            *)
Spread(rows) ==
    /\ \E m \in Nat : \A r \in rows : r.seq \in 1..m
    /\ \A r \in rows : IsRow(r)
    /\ \A r, s \in rows : r.seq = s.seq => r = s

(* chain has the rows in the order of their numbers.                       *)
Orders(chain, n, rows) ==
    /\ n \in Nat /\ chain \in [1..n -> rows]
    /\ \A r \in rows : \E i \in 1..n : r = chain[i]
    /\ \A i, j \in 1..n : i < j => chain[i].seq < chain[j].seq

LEMMA SpreadPart ==
  ASSUME NEW rows, Spread(rows), NEW part, part \subseteq rows
  PROVE  Spread(part)
  BY DEF Spread

LEMMA SpreadMore ==
  ASSUME NEW rows, Spread(rows), NEW row, IsRow(row), row.seq \in Nat \ {0},
         \A r \in rows : r.seq # row.seq
  PROVE  Spread(rows \cup {row})
  <1>1. PICK m \in Nat : \A r \in rows : r.seq \in 1..m
    BY DEF Spread
  <1> DEFINE top == m + row.seq
  <1>2. top \in Nat /\ \A r \in rows \cup {row} : r.seq \in 1..top
    BY <1>1
  <1>3. \A r, s \in rows \cup {row} : r.seq = s.seq => r = s
    BY DEF Spread
  <1>4. \A r \in rows \cup {row} : IsRow(r)
    BY DEF Spread
  <1> HIDE DEF top
  <1> QED BY <1>2, <1>3, <1>4 DEF Spread

LEMMA OrdersOneMore ==
  ASSUME NEW rows, NEW n, NEW chain, Orders(chain, n, rows), \A r \in rows : r.seq \in Nat,
         NEW row, row.seq \in Nat, \A r \in rows : r.seq < row.seq
  PROVE  Orders([i \in 1..(n + 1) |-> IF i = n + 1 THEN row ELSE chain[i]], n + 1,
                rows \cup {row})
  <1> DEFINE more == [i \in 1..(n + 1) |-> IF i = n + 1 THEN row ELSE chain[i]]
  <1>1. /\ n \in Nat /\ chain \in [1..n -> rows]
        /\ \A r \in rows : \E i \in 1..n : r = chain[i]
        /\ \A i, j \in 1..n : i < j => chain[i].seq < chain[j].seq
    BY DEF Orders
  <1>2. /\ n + 1 \in Nat /\ n + 1 \in 1..(n + 1)
        /\ \A i \in 1..(n + 1) : i = n + 1 \/ (i \in 1..n /\ i # n + 1)
        /\ \A i \in 1..n : i \in 1..(n + 1) /\ i # n + 1
    BY <1>1
  <1>3. more[n + 1] = row /\ \A i \in 1..n : more[i] = chain[i]
    BY <1>2
  <1>4. more \in [1..(n + 1) -> rows \cup {row}]
    BY <1>1, <1>2
  <1> HIDE DEF more
  <1>5. \A r \in rows \cup {row} : \E i \in 1..(n + 1) : r = more[i]
    BY <1>1, <1>2, <1>3
  <1>6. ASSUME NEW i \in 1..(n + 1), NEW j \in 1..(n + 1), i < j
        PROVE  more[i].seq < more[j].seq
    <2>1. i \in 1..n
      BY <1>1, <1>6
    <2>2. CASE j = n + 1
      BY <1>1, <1>3, <2>1, <2>2
    <2>3. CASE j # n + 1
      BY <1>1, <1>2, <1>3, <1>6, <2>1, <2>3
    <2> QED BY <2>2, <2>3
  <1>7. Orders(more, n + 1, rows \cup {row})
    BY <1>2, <1>4, <1>5, <1>6 DEF Orders
  <1> QED BY <1>7 DEF more

(* Such rows can be put in order, one number after the other.              *)
LEMMA SpreadIsOrdered ==
  ASSUME NEW rows, Spread(rows)
  PROVE  \E n, chain : Orders(chain, n, rows)
  <1> DEFINE Open == {e \in Nat : ~ \E n, chain : Orders(chain, n, UpTo(rows, e))}
  <1>1. Open = {}
    <2> SUFFICES ASSUME Open # {} PROVE FALSE
      OBVIOUS
    <2>1. Open \subseteq Nat
      OBVIOUS
    <2>2. PICK e \in Open : \A other \in Open : ~(<<other, e>> \in OpToRel(<, Nat))
      <3> HIDE DEF Open
      <3> QED BY <2>1, NatLessThanWellFounded, WFMin, Zenon
    <2>3. \A other \in Nat : other < e => other \notin Open
      BY <2>1, <2>2 DEF OpToRel
    <2>4. e \in Nat /\ ~ \E n, chain : Orders(chain, n, UpTo(rows, e))
      OBVIOUS
    <2>5. \A r \in rows : r.seq \in Nat \ {0}
      BY DEF Spread
    <2>6. CASE e = 0
      <3>1. UpTo(rows, e) = {}
        BY <2>5, <2>6 DEF UpTo
      <3>2. Orders(<<>>, 0, {})
        BY DEF Orders
      <3> QED BY <2>4, <3>1, <3>2
    <2>7. CASE e # 0
      <3>1. e - 1 \in Nat /\ e - 1 < e
        BY <2>4, <2>7
      <3>2. PICK n, chain : Orders(chain, n, UpTo(rows, e - 1))
        BY <2>3, <3>1
      <3> HIDE DEF Open
      <3>3. CASE \A r \in rows : r.seq # e
        <4>1. UpTo(rows, e) = UpTo(rows, e - 1)
          BY <2>4, <2>5, <3>3 DEF UpTo
        <4> QED BY <2>4, <3>2, <4>1
      <3>4. ASSUME NEW row \in rows, row.seq = e PROVE FALSE
        <4>1. UpTo(rows, e) = UpTo(rows, e - 1) \cup {row}
          <5>1. \A r \in rows : r.seq <= e <=> r.seq <= e - 1 \/ r.seq = e
            BY <2>4, <2>5
          <5>2. \A r \in rows : r.seq = e <=> r = row
            BY <3>4 DEF Spread
          <5> QED BY <2>4, <3>4, <5>1, <5>2 DEF UpTo
        <4>2. \A r \in UpTo(rows, e - 1) : r.seq \in Nat /\ r.seq < row.seq
          BY <2>4, <2>5, <3>4 DEF UpTo
        <4>3. row.seq \in Nat
          BY <2>5
        <4>4. \E m, more : Orders(more, m, UpTo(rows, e - 1) \cup {row})
          BY <3>2, <4>2, <4>3, OrdersOneMore
        <4> QED BY <2>4, <4>1, <4>4
      <3> QED BY <3>3, <3>4
    <2> QED BY <2>4, <2>6, <2>7
  <1>2. PICK m \in Nat : \A r \in rows : r.seq \in 1..m
    BY DEF Spread
  <1>3. UpTo(rows, m) = rows
    BY <1>2 DEF UpTo
  <1> QED BY <1>1, <1>2, <1>3

(* ChainOf is an order of them.                                            *)
LEMMA ChainOrders ==
  ASSUME NEW rows, Spread(rows)
  PROVE  Orders(ChainOf(rows), Cardinality(rows), rows)
  <1> DEFINE Ordered(f) == \A i, j \in DOMAIN f : i < j => f[i].seq < f[j].seq
             size == Cardinality(rows)
  <1>1. PICK n, chain : Orders(chain, n, rows)
    BY SpreadIsOrdered
  <1>2. /\ n \in Nat /\ chain \in [1..n -> rows]
        /\ \A r \in rows : \E i \in 1..n : r = chain[i]
        /\ \A i, j \in 1..n : i < j => chain[i].seq < chain[j].seq
        /\ \A r \in rows : r.seq \in Nat
    BY <1>1 DEF Orders, Spread
  <1>3. ASSUME NEW f \in [1..n -> rows], \A i, j \in 1..n : i < j => f[i].seq < f[j].seq
        PROVE  \A i, j \in 1..n : f[i] = f[j] => i = j
    <2> SUFFICES ASSUME NEW i \in 1..n, NEW j \in 1..n, f[i] = f[j] PROVE i = j
      OBVIOUS
    <2>1. f[i].seq \in Nat /\ ~(f[i].seq < f[i].seq)
      BY <1>2
    <2>2. ~(i < j) /\ ~(j < i)
      BY <1>3, <2>1
    <2> QED BY <1>2, <2>2
  <1>4. chain \in Bijection(1..n, rows)
    BY <1>2, <1>3 DEF Bijection, Injection, Surjection, IsInjective
  <1>5. IsFiniteSet(rows) /\ size = n
    BY <1>2, <1>4, FS_NatBijection, FS_CountingElements DEF ExistsBijection
  <1>6. chain \in [1..size -> rows] /\ Ordered(chain)
    BY <1>2, <1>5
  <1>7. ChainOf(rows) = CHOOSE f \in [1..size -> rows] : Ordered(f)
    BY DEF ChainOf
  <1> DEFINE own == ChainOf(rows)
  <1>8. own \in [1..size -> rows] /\ Ordered(own)
    <2> HIDE DEF Ordered, size
    <2> QED BY <1>6, <1>7
  <1> HIDE DEF own, size
  <1>9. own \in [1..n -> rows] /\ \A i, j \in 1..n : i < j => own[i].seq < own[j].seq
    BY <1>5, <1>8
  <1>10. own \in Injection(1..n, rows)
    BY <1>3, <1>9 DEF Injection, IsInjective
  <1>11. IsFiniteSet(1..n) /\ Cardinality(1..n) = n
    BY <1>2, FS_Interval
  <1>12. own \in Surjection(1..n, rows)
    BY <1>5, <1>10, <1>11, FS_Injection DEF size
  <1>13. \A r \in rows : \E i \in 1..n : r = own[i]
    BY <1>12 DEF Surjection
  <1>14. Orders(own, n, rows)
    BY <1>2, <1>9, <1>13 DEF Orders
  <1> QED BY <1>5, <1>14 DEF own, size

(* The number of the last row, or of the genesis.                          *)
LEMMA SpreadHead ==
  ASSUME NEW rows, Spread(rows)
  PROVE  LastOf(ChainOf(rows)).seq \in Nat
  <1> DEFINE n == Cardinality(rows)
             chain == ChainOf(rows)
  <1>1. n \in Nat /\ chain \in [1..n -> rows]
    BY ChainOrders DEF Orders
  <1>2. chain \in Seq(rows) /\ Len(chain) = n
    BY <1>1
  <1>3. CASE chain = <<>>
    BY <1>3 DEF LastOf, Genesis
  <1>4. CASE chain # <<>>
    <2>1. n # 0 /\ n \in 1..n
      BY <1>1, <1>2, <1>4
    <2>2. chain[n] \in rows /\ LastOf(chain) = chain[n]
      BY <1>1, <1>2, <1>4, <2>1 DEF LastOf, Last
    <2> QED BY <2>2 DEF Spread
  <1> QED BY <1>3, <1>4

(* Entries that hold leave no gap.                                         *)
LEMMA HoldingEntriesAreNumbered ==
  ASSUME NEW rows, Spread(rows),
         \A i \in DOMAIN ChainOf(rows) : EntryHolds(ChainOf(rows), i)
  PROVE  /\ Lists(ChainOf(rows), Cardinality(rows), rows)
         /\ \A r \in rows : r.hash = DigestOf(r)
  <1> DEFINE n == Cardinality(rows)
             chain == ChainOf(rows)
             Gaps == {i \in 1..n : chain[i].seq # i}
  <1>1. /\ n \in Nat /\ chain \in [1..n -> rows]
        /\ \A r \in rows : \E i \in 1..n : r = chain[i]
    BY ChainOrders DEF Orders
  <1>2. \A i \in 1..n : EntryHolds(chain, i)
    BY <1>1
  <1> HIDE DEF n, chain
  <1>3. Gaps = {}
    <2> SUFFICES ASSUME Gaps # {} PROVE FALSE
      OBVIOUS
    <2>1. Gaps \subseteq Nat
      BY <1>1
    <2>2. PICK i \in Gaps : \A k \in Gaps : ~(<<k, i>> \in OpToRel(<, Nat))
      <3> HIDE DEF Gaps
      <3> QED BY <2>1, NatLessThanWellFounded, WFMin, Zenon
    <2>3. \A k \in Gaps : ~(k < i)
      BY <2>1, <2>2 DEF OpToRel
    <2>4. i \in 1..n /\ chain[i].seq # i
      OBVIOUS
    <2>5. chain[i].seq = Before(chain, i).seq + 1
      BY <1>2, <2>4 DEF EntryHolds, Follows
    <2>6. CASE i = 1
      BY <2>4, <2>5, <2>6 DEF Before, Genesis
    <2>7. CASE i # 1
      <3>1. i - 1 \in 1..n /\ i - 1 < i
        BY <1>1, <2>4, <2>7
      <3>2. chain[i - 1].seq = i - 1
        BY <2>3, <3>1
      <3> QED BY <1>1, <2>4, <2>5, <2>7, <3>2 DEF Before
    <2> QED BY <2>6, <2>7
  <1>4. \A i \in 1..n : chain[i].seq = i
    BY <1>3
  <1>5. \A r \in rows : r.hash = DigestOf(r)
    BY <1>1, <1>2 DEF EntryHolds
  <1>6. Lists(chain, n, rows)
    BY <1>1, <1>4 DEF Lists, Spread
  <1> QED BY <1>5, <1>6 DEF n, chain

(* A row altered keeps its number.                                         *)
LEMMA AlteredSpread ==
  ASSUME NEW rows, Spread(rows), NEW r \in rows
  PROVE  Spread((rows \ {r}) \cup {Altered(r)})
  <1>1. r = [seq |-> r.seq, prev |-> r.prev, user |-> r.user, text |-> r.text, hash |-> r.hash]
    BY DEF Spread, IsRow
  <1>2. Altered(r) = [seq |-> r.seq, prev |-> r.prev, user |-> r.user, text |-> "altered",
                      hash |-> r.hash]
    BY <1>1 DEF Altered
  <1>3. IsRow(Altered(r)) /\ Altered(r).seq = r.seq
    BY <1>2 DEF IsRow
  <1>4. r.seq \in Nat \ {0}
    BY DEF Spread
  <1>5. \A s \in rows \ {r} : s.seq # r.seq
    BY DEF Spread
  <1>6. Spread(rows \ {r})
    BY SpreadPart
  <1>7. Altered(r).seq \in Nat \ {0} /\ \A s \in rows \ {r} : s.seq # Altered(r).seq
    BY <1>3, <1>4, <1>5
  <1> QED BY <1>3, <1>6, <1>7, SpreadMore

LEMMA ForgottenSpread ==
  ASSUME NEW rows, Spread(rows), NEW u
  PROVE  Spread(Forgotten(rows, u))
  <1> DEFINE New(r) == IF r.user = u THEN [r EXCEPT !.user = NoUser] ELSE r
  <1>1. Forgotten(rows, u) = {New(r) : r \in rows}
    BY DEF Forgotten
  <1>2. ASSUME NEW r \in rows PROVE New(r).seq = r.seq /\ IsRow(New(r))
    <2>1. r = [seq |-> r.seq, prev |-> r.prev, user |-> r.user, text |-> r.text, hash |-> r.hash]
      BY DEF Spread, IsRow
    <2>2. [r EXCEPT !.user = NoUser] =
            [seq |-> r.seq, prev |-> r.prev, user |-> NoUser, text |-> r.text, hash |-> r.hash]
      BY <2>1
    <2> QED BY <2>1, <2>2 DEF IsRow
  <1> HIDE DEF New
  <1>3. PICK m \in Nat : \A r \in rows : r.seq \in 1..m
    BY DEF Spread
  <1>4. \A r \in {New(x) : x \in rows} : r.seq \in 1..m /\ IsRow(r)
    BY <1>2, <1>3
  <1>5. \A r, s \in {New(x) : x \in rows} : r.seq = s.seq => r = s
    BY <1>2 DEF Spread
  <1> QED BY <1>1, <1>4, <1>5 DEF Spread

(* Row i sealed anew after the row before it.                              *)
Anew(chain, new, i) == Sealed([chain[i] EXCEPT !.prev = Before(new, i).hash])

SealedSoFar(chain, n, e, new) ==
    /\ new = [i \in 1..n |-> new[i]]
    /\ \A i \in 1..n : i <= e => new[i] = Anew(chain, new, i)

LEMMA SealsOneMore ==
  ASSUME NEW chain, NEW n \in Nat, NEW e \in Nat, NEW new, SealedSoFar(chain, n, e, new)
  PROVE  \E longer : SealedSoFar(chain, n, e + 1, longer)
  <1> DEFINE longer == [i \in 1..n |-> IF i <= e THEN new[i] ELSE Anew(chain, new, i)]
  <1>1. ASSUME NEW i \in 1..n, i <= e + 1 PROVE longer[i] = Anew(chain, new, i)
    BY <1>1 DEF SealedSoFar
  <1>2. ASSUME NEW i \in 1..n, i <= e + 1 PROVE Before(longer, i) = Before(new, i)
    <2>1. CASE i = 1
      BY <2>1 DEF Before
    <2>2. CASE i # 1
      <3>1. i - 1 \in 1..n /\ i - 1 <= e
        BY <1>2, <2>2
      <3>2. longer[i - 1] = new[i - 1]
        BY <3>1
      <3> HIDE DEF longer
      <3> QED BY <2>2, <3>2 DEF Before
    <2> QED BY <2>1, <2>2
  <1>3. longer = [i \in 1..n |-> longer[i]]
    OBVIOUS
  <1> HIDE DEF longer
  <1>4. SealedSoFar(chain, n, e + 1, longer)
    BY <1>1, <1>2, <1>3 DEF SealedSoFar, Anew
  <1> QED BY <1>4

LEMMA SealsAll ==
  ASSUME NEW chain, NEW n \in Nat, NEW e \in Nat
  PROVE  \E new : SealedSoFar(chain, n, e, new)
  <1> DEFINE Short == {d \in Nat : ~ \E new : SealedSoFar(chain, n, d, new)}
  <1> SUFFICES ASSUME Short # {} PROVE FALSE
    OBVIOUS
  <1>1. Short \subseteq Nat
    OBVIOUS
  <1>2. PICK d \in Short : \A other \in Short : ~(<<other, d>> \in OpToRel(<, Nat))
    <2> HIDE DEF Short
    <2> QED BY <1>1, NatLessThanWellFounded, WFMin, Zenon
  <1>3. \A other \in Nat : other < d => other \notin Short
    BY <1>1, <1>2 DEF OpToRel
  <1>4. CASE d = 0
    <2>1. SealedSoFar(chain, n, 0, [i \in 1..n |-> i])
      BY DEF SealedSoFar
    <2> QED BY <1>4, <2>1
  <1>5. CASE d # 0
    <2>1. d - 1 \in Nat /\ d - 1 < d /\ (d - 1) + 1 = d
      BY <1>5
    <2>2. PICK new : SealedSoFar(chain, n, d - 1, new)
      BY <1>3, <2>1
    <2> HIDE DEF Short
    <2>3. \E longer : SealedSoFar(chain, n, (d - 1) + 1, longer)
      BY <2>1, <2>2, SealsOneMore, Zenon
    <2> QED BY <2>1, <2>3 DEF Short
  <1> QED BY <1>4, <1>5

LEMMA ResealedSpread ==
  ASSUME NEW rows, Spread(rows)
  PROVE  Spread(Resealed(rows))
  <1> DEFINE n == Cardinality(rows)
             chain == ChainOf(rows)
  <1>1. /\ n \in Nat /\ chain \in [1..n -> rows]
        /\ \A i, j \in 1..n : i < j => chain[i].seq < chain[j].seq
    BY ChainOrders DEF Orders
  <1>2. DOMAIN chain = 1..n
    BY <1>1
  <1> HIDE DEF n, chain
  <1>3. PICK f : SealedSoFar(chain, n, n, f)
    BY <1>1, SealsAll
  <1>4. f = [i \in DOMAIN chain |-> Anew(chain, f, i)]
    BY <1>1, <1>2, <1>3 DEF SealedSoFar
  <1> DEFINE new == CHOOSE g : g = [i \in DOMAIN chain |-> Anew(chain, g, i)]
  <1>5. new = [i \in DOMAIN chain |-> Anew(chain, new, i)]
    BY <1>4
  <1>6. Resealed(rows) = {new[i] : i \in DOMAIN chain}
    BY DEF Resealed, Anew, chain
  <1> HIDE DEF new
  <1>7. ASSUME NEW i \in 1..n PROVE IsRow(new[i]) /\ new[i].seq = chain[i].seq
    <2> DEFINE r == chain[i]
               before == Before(new, i).hash
    <2>1. new[i] = Sealed([r EXCEPT !.prev = before])
      BY <1>2, <1>5 DEF Anew
    <2> HIDE DEF before
    <2>2. r = [seq |-> r.seq, prev |-> r.prev, user |-> r.user, text |-> r.text, hash |-> r.hash]
      BY <1>1 DEF Spread, IsRow
    <2>3. [r EXCEPT !.prev = before].seq = r.seq
      BY <2>2
    <2> QED BY <2>1, <2>3 DEF Sealed, IsRow
  <1>8. PICK m \in Nat : \A r \in rows : r.seq \in 1..m
    BY DEF Spread
  <1>9. \A r \in Resealed(rows) : r.seq \in 1..m /\ IsRow(r)
    BY <1>1, <1>2, <1>6, <1>7, <1>8
  <1>10. ASSUME NEW i \in 1..n, NEW j \in 1..n, new[i].seq = new[j].seq PROVE i = j
    <2>1. chain[i].seq = chain[j].seq /\ chain[i].seq \in Nat
      BY <1>1, <1>7, <1>8, <1>10
    <2>2. ~(i < j) /\ ~(j < i)
      BY <1>1, <2>1
    <2> QED BY <1>1, <2>2
  <1>11. \A r, s \in Resealed(rows) : r.seq = s.seq => r = s
    BY <1>2, <1>6, <1>10
  <1> QED BY <1>8, <1>9, <1>11 DEF Spread

LEMMA DisturbedSpread ==
  ASSUME Spread(log), Disturb
  PROVE  Spread(log')
  <1>1. ASSUME NEW r \in log, Damage(r) PROVE Spread(log')
    <2>1. Spread((log \ {r}) \cup {Altered(r)}) /\ Spread(log \ {r})
      BY AlteredSpread, SpreadPart
    <2>2. \/ log' = (log \ {r}) \cup {Altered(r)}
          \/ log' = Resealed((log \ {r}) \cup {Altered(r)})
          \/ log' = log \ {r}
      BY <1>1 DEF Damage
    <2>3. Spread(Resealed((log \ {r}) \cup {Altered(r)}))
      BY <2>1, ResealedSpread
    <2> QED BY <2>1, <2>2, <2>3
  <1>2. ASSUME NEW u \in Users, Forget(u) PROVE Spread(log')
    <2>1. log' = Forgotten(log, u)
      BY <1>2 DEF Forget, Forgotten
    <2> QED BY <2>1, ForgottenSpread
  <1>3. ASSUME NEW k \in Keys \cup {NoKey}, RotateKey(k) PROVE Spread(log')
    BY <1>3 DEF RotateKey
  <1> QED BY <1>1, <1>2, <1>3 DEF Disturb

-------------------------------------------------------------------------------
(* Reports                                                                 *)

(* What a verification has found in order.                                 *)
Digested(rows) == Numbered(rows) /\ \A r \in rows : r.hash = DigestOf(r)

MadeFrom(c, rows) ==
    /\ Digested(rows)
    /\ c.covered = LastOf(ChainOf(rows)).seq /\ c.root = RootOf(HashesOf(ChainOf(rows)))

Attests(w) ==
    /\ HoldsRows(w) => Spread(tx[w].rows)
    /\ Doing(w, "sealed") => tx[w].row.seq \in Nat \ {0}
    /\ Doing(w, "anchoring") => Digested(tx[w].rows)
    /\ Doing(w, "drafted") => MadeFrom(tx[w].point, tx[w].rows)

(* A checkpoint is made from rows that a valid report was about, whatever  *)
(* happens to the log before or after.                                     *)
Attested ==
    /\ Spread(log) /\ \A w \in Workers : Attests(w)
    /\ (\E S : notarized \in Seq(S)) /\ Len(notarized) = Len(points)
    /\ \A i \in 1..Len(points) : MadeFrom(points[i], notarized[i])

LEMMA AttestedStep == Shape /\ Continued /\ Attested /\ [Next]_vars => Attested'
  <1> SUFFICES ASSUME Shape, Continued, Attested, [Next]_vars PROVE Attested'
    OBVIOUS
  <1>1. ASSUME NEW w \in Workers, Work(w) PROVE Attested'
    <2>1. \A v \in Workers \ {w} : tx'[v] = tx[v]
      BY <1>1, OthersWait
    <2>2. \A v \in Workers \ {w} : Attests(v)'
      BY <2>1 DEF Attested, Attests, HoldsRows, Doing
    <2>3. ASSUME UNCHANGED <<points, notarized>>, Spread(log'), Attests(w)' PROVE Attested'
      BY <2>2, <2>3 DEF Attested
    <2>4. ASSUME tx'[w] = Idle \/ tx'[w].phase = "sealing" PROVE Attests(w)'
      BY <2>4 DEF Attests, HoldsRows, Doing
    <2>5. Spread(log)
      BY DEF Attested
    <2>6. CASE \E u \in Actors : TakeLock(w, u)
      <3>1. tx'[w].phase = "sealing" /\ UNCHANGED <<log, points, notarized>>
        BY <2>6, Moves DEF TakeLock
      <3> QED BY <2>3, <2>4, <2>5, <3>1
    <2>7. CASE Seal(w)
      <3>1. /\ tx'[w].phase = "sealed" /\ tx'[w].row.seq = LastOf(ChainOf(log)).seq + 1
            /\ UNCHANGED <<log, points, notarized>>
        BY <2>7, Moves DEF Seal, Sealed
      <3>2. LastOf(ChainOf(log)).seq \in Nat
        BY <2>5, SpreadHead
      <3>3. Attests(w)'
        BY <3>1, <3>2 DEF Attests, HoldsRows, Doing
      <3> QED BY <2>3, <2>5, <3>1, <3>3
    <2>8. CASE CommitEntry(w)
      <3> DEFINE row == tx[w].row
      <3>1. /\ tx'[w] = Idle /\ log' = log \cup {row} /\ UNCHANGED <<points, notarized>>
            /\ Doing(w, "sealed") /\ \A r \in log : r.seq # row.seq
        BY <2>8, Moves DEF CommitEntry
      <3>2. IsRow(row) /\ row.seq \in Nat \ {0}
        BY <3>1 DEF Continued, Attested, Attests
      <3> HIDE DEF row
      <3>3. Spread(log \cup {row})
        BY <2>5, <3>1, <3>2, SpreadMore
      <3> QED BY <2>3, <2>4, <3>1, <3>3
    <2>9. CASE ReadEntries(w)
      <3>1. /\ tx'[w].phase = "reading" /\ tx'[w].rows = log
            /\ UNCHANGED <<log, points, notarized>>
        BY <2>9, Moves DEF ReadEntries
      <3>2. Attests(w)'
        BY <2>5, <3>1 DEF Attests, HoldsRows, Doing
      <3> QED BY <2>3, <2>5, <3>1, <3>2
    <2>10. CASE ReadPoints(w)
      <3>1. /\ tx'[w].phase = "reported" /\ tx'[w].rows = tx[w].rows
            /\ HoldsRows(w) /\ UNCHANGED <<log, points, notarized>>
        BY <2>10, Moves DEF ReadPoints, HoldsRows
      <3>2. Spread(tx[w].rows)
        BY <3>1 DEF Attested, Attests
      <3>3. Attests(w)'
        BY <3>1, <3>2 DEF Attests, HoldsRows, Doing
      <3> QED BY <2>3, <2>5, <3>1, <3>3
    <2>11. CASE TakeGate(w)
      <3>1. /\ tx'[w].phase = "anchoring" /\ tx'[w].rows = tx[w].rows
            /\ HoldsRows(w) /\ ReportIsValid(w) /\ UNCHANGED <<log, points, notarized>>
        BY <2>11, Moves DEF TakeGate, HoldsRows
      <3>2. Spread(tx[w].rows)
        BY <3>1 DEF Attested, Attests
      <3>3. \A i \in DOMAIN ChainOf(tx[w].rows) : EntryHolds(ChainOf(tx[w].rows), i)
        BY <3>1 DEF ReportIsValid, Valid
      <3>4. Digested(tx[w].rows)
        BY <3>2, <3>3, HoldingEntriesAreNumbered DEF Digested, Numbered
      <3>5. Attests(w)'
        BY <3>1, <3>2, <3>4 DEF Attests, HoldsRows, Doing
      <3> QED BY <2>3, <2>5, <3>1, <3>5
    <2>12. ASSUME NEW force \in BOOLEAN, NEW signer \in Signers, Draft(w, force, signer)
           PROVE  Attested'
      <3> DEFINE chain == ChainOf(tx[w].rows)
                 last == LastOf(points)
                 point == [seq |-> last.seq + 1, prev |-> last.hash,
                           covered |-> LastOf(chain).seq, head |-> LastOf(chain).hash,
                           root |-> RootOf(HashesOf(chain))]
      <3>1. /\ tx'[w] = [phase |-> "drafted", rows |-> tx[w].rows, point |-> point,
                         key |-> signer]
            /\ Doing(w, "anchoring") /\ UNCHANGED <<log, points, notarized>>
        BY <2>12, Moves DEF Draft
      <3>2. tx'[w].phase = "drafted" /\ tx'[w].rows = tx[w].rows /\ tx'[w].point = point
        BY <3>1
      <3>3. Spread(tx[w].rows) /\ Digested(tx[w].rows)
        BY <3>1 DEF Attested, Attests, HoldsRows
      <3>4. MadeFrom(point, tx[w].rows)
        BY <3>3 DEF MadeFrom
      <3> HIDE DEF point
      <3>5. Attests(w)'
        BY <3>2, <3>3, <3>4 DEF Attests, HoldsRows, Doing
      <3> QED BY <2>3, <2>5, <3>1, <3>5
    <2>13. CASE CommitPoint(w)
      <3> DEFINE point == tx[w].point
                 rows == tx[w].rows
                 c == [seq |-> point.seq, prev |-> point.prev, covered |-> point.covered,
                       head |-> point.head, root |-> point.root, hash |-> DigestOfPoint(point),
                       key |-> tx[w].key]
      <3>1. /\ points' = Append(points, c) /\ notarized' = Append(notarized, rows)
            /\ tx'[w] = Idle /\ log' = log /\ Doing(w, "drafted")
        BY <2>13, Moves DEF CommitPoint
      <3>2. MadeFrom(c, rows)
        <4>1. MadeFrom(point, rows)
          BY <3>1 DEF Attested, Attests
        <4>2. c.covered = point.covered /\ c.root = point.root
          OBVIOUS
        <4> HIDE DEF c
        <4> QED BY <4>1, <4>2 DEF MadeFrom
      <3> HIDE DEF c, rows
      <3>3. /\ Len(points') = Len(points) + 1 /\ Len(points) \in Nat
            /\ \A i \in 1..Len(points) : points'[i] = points[i]
            /\ points'[Len(points) + 1] = c
        BY <3>1, Appended DEF Shape
      <3>4. PICK S : notarized \in Seq(S)
        BY DEF Attested
      <3>5. /\ Len(notarized') = Len(notarized) + 1
            /\ \A i \in 1..Len(notarized) : notarized'[i] = notarized[i]
            /\ notarized'[Len(notarized) + 1] = rows
        BY <3>1, <3>4, Appended
      <3>6. notarized' \in Seq(S \cup {rows})
        BY <3>1, <3>4
      <3>7. Len(notarized) = Len(points)
        BY DEF Attested
      <3>8. \A i \in 1..Len(points') : i = Len(points) + 1 \/ i \in 1..Len(points)
        BY <3>3
      <3>9. ASSUME NEW i \in 1..Len(points') PROVE MadeFrom(points'[i], notarized'[i])
        <4>1. CASE i = Len(points) + 1
          BY <3>2, <3>3, <3>5, <3>7, <4>1
        <4>2. CASE i \in 1..Len(points)
          <5>1. MadeFrom(points[i], notarized[i])
            BY <4>2 DEF Attested
          <5> QED BY <3>3, <3>5, <3>7, <4>2, <5>1
        <4> QED BY <3>8, <4>1, <4>2
      <3>10. \A v \in Workers : Attests(v)'
        BY <2>2, <2>4, <3>1
      <3>11. \A i \in 1..Len(points') : MadeFrom(points[i], notarized[i])'
        BY <3>9 DEF MadeFrom, Digested, Numbered, Lists, IsRow
      <3> QED BY <2>5, <3>1, <3>3, <3>5, <3>6, <3>7, <3>10, <3>11 DEF Attested
    <2>14. CASE End(w)
      <3>1. tx'[w] = Idle /\ UNCHANGED <<log, points, notarized>>
        BY <2>14, Moves DEF End
      <3> QED BY <2>3, <2>4, <2>5, <3>1
    <2> QED BY <1>1, <2>6, <2>7, <2>8, <2>9, <2>10, <2>11, <2>12, <2>13, <2>14
            DEF Work, Record, Verify, Anchor
  <1>2. CASE Disturb
    <2>1. UNCHANGED <<points, notarized, tx>>
      BY <1>2, DisturbKeeps
    <2>2. Spread(log')
      BY <1>2, DisturbedSpread DEF Attested
    <2> QED BY <2>1, <2>2 DEF Attested, Attests, HoldsRows, Doing
  <1>3. CASE UNCHANGED vars
    BY <1>3 DEF vars, Attested, Attests, HoldsRows, Doing
  <1> QED BY <1>1, <1>2, <1>3 DEF Next, Work

(* Equal roots over as many rows, each with its own digest: the same rows. *)
LEMMA RootsTell ==
  ASSUME NEW rows, Spread(rows), \A i \in DOMAIN ChainOf(rows) : EntryHolds(ChainOf(rows), i),
         NEW c, Anchored(rows, c), NEW original, MadeFrom(c, original)
  PROVE  UpTo(rows, c.covered) = original
  <1>1. PICK n, chain : Lists(chain, n, rows)
    BY HoldingEntriesAreNumbered
  <1>2. PICK m, old : Lists(old, m, original)
    BY DEF MadeFrom, Digested, Numbered
  <1>3. ChainOf(original) = old /\ c.covered = m /\ m \in Nat /\ n \in Nat
    BY <1>1, <1>2, ChainIsList, HeadOfList, ListedRows DEF MadeFrom
  <1> DEFINE part == UpTo(rows, m)
  <1>4. Len(ChainOf(part)) = m /\ RootOf(HashesOf(ChainOf(part))) = RootOf(HashesOf(old))
    BY <1>3 DEF Anchored, MadeFrom
  <1>5. m \in 0..n
    <2> SUFFICES ASSUME m > n PROVE FALSE
      BY <1>3
    <2>1. part = rows
      BY <1>1, <1>3, ListedRows DEF UpTo
    <2>2. Len(ChainOf(part)) = n
      BY <1>1, <2>1, ChainIsList, ListedRows
    <2> QED BY <1>3, <1>4, <2>2
  <1> DEFINE new == [i \in 1..m |-> chain[i]]
  <1>6. Lists(new, m, part)
    BY <1>1, <1>5, PartIsListed
  <1> HIDE DEF new
  <1>7. ChainOf(part) = new
    BY <1>6, ChainIsList
  <1>8. /\ new \in [1..m -> part] /\ old \in [1..m -> original]
        /\ \A r \in part : IsRow(r) /\ r.seq \in 1..m /\ new[r.seq] = r
        /\ \A r \in original : IsRow(r) /\ r.seq \in 1..m /\ old[r.seq] = r
    BY <1>2, <1>6, ListedRows
  <1>9. HashesOf(new) = HashesOf(old)
    <2> DEFINE a == HashesOf(new)
               b == HashesOf(old)
    <2>1. a = [i \in 1..m |-> a[i]] /\ b = [i \in 1..m |-> b[i]]
      BY <1>8 DEF HashesOf
    <2>2. RootOf(a) = RootOf(b)
      BY <1>4, <1>7
    <2> HIDE DEF a, b
    <2>3. a = b
      BY <1>3, <2>1, <2>2, RootsDiffer
    <2> QED BY <2>3 DEF a, b
  <1>10. (\A r \in part : r.hash = DigestOf(r)) /\ \A r \in original : r.hash = DigestOf(r)
    <2>1. \A r \in rows : r.hash = DigestOf(r)
      BY HoldingEntriesAreNumbered
    <2> QED BY <2>1 DEF MadeFrom, Digested, UpTo
  <1>11. ASSUME NEW i \in 1..m PROVE new[i] = old[i]
    <2>1. new[i] \in part /\ old[i] \in original
      BY <1>8
    <2>2. new[i].hash = old[i].hash
      BY <1>8, <1>9 DEF HashesOf
    <2>3. DigestOf(new[i]) = DigestOf(old[i])
      BY <1>10, <2>1, <2>2
    <2> HIDE DEF part
    <2>4. /\ new[i].seq = old[i].seq /\ new[i].prev = old[i].prev
          /\ new[i].user = old[i].user /\ new[i].text = old[i].text
      BY <2>3 DEF DigestOf
    <2> QED BY <1>8, <2>1, <2>2, <2>4 DEF IsRow
  <1>12. part = original
    <2> HIDE DEF part
    <2>1. ASSUME NEW r \in part PROVE r \in original
      <3>1. r.seq \in 1..m /\ r = new[r.seq] /\ old[r.seq] \in original
        BY <1>8
      <3> QED BY <1>11, <3>1
    <2>2. ASSUME NEW r \in original PROVE r \in part
      <3>1. r.seq \in 1..m /\ r = old[r.seq] /\ new[r.seq] \in part
        BY <1>8
      <3> QED BY <1>11, <3>1
    <2> QED BY <2>1, <2>2
  <1> QED BY <1>3, <1>12

(* ValidReportsAreTrue: a report of verify_organization_audit_chain that   *)
(* finds no fault vouches for the rows it covers, although rows were       *)
(* edited, rewritten with fresh digests or lost between the two reads of   *)
(* this report or of the one that the checkpoint was made from.            *)
THEOREM ReportsAreTrue == Spec => []ValidReportsAreTrue
  <1>1. Init => Attested
    <2> SUFFICES ASSUME Init PROVE Attested
      OBVIOUS
    <2>1. /\ points = <<>> /\ notarized = <<>> /\ log = {}
          /\ \A w \in Workers : tx[w] = Idle
      BY DEF Init
    <2>2. Spread(log)
      BY <2>1 DEF Spread
    <2>3. Len(points) = 0 /\ Len(notarized) = 0 /\ notarized \in Seq({})
      BY <2>1
    <2> QED BY <2>1, <2>2, <2>3 DEF Attested, Attests, HoldsRows, Doing
  <1>2. Shape /\ Chained /\ Attested => ValidReportsAreTrue
    <2> SUFFICES ASSUME Shape, Chained, Attested, NEW w \in Workers, Doing(w, "reported"),
                        ReportIsValid(w), NEW i \in 1..tx[w].seen
                 PROVE  UpTo(tx[w].rows, points[i].covered) = notarized[i]
      BY DEF ValidReportsAreTrue
    <2> DEFINE rows == tx[w].rows
               seen == SubSeq(points, 1, tx[w].seen)
    <2>1. tx[w].seen \in 0..Len(points) /\ Len(points) \in Nat
      BY DEF Chained, Shape
    <2>2. i \in 1..Len(points) /\ i \in DOMAIN seen /\ seen[i] = points[i]
      BY <2>1 DEF Shape
    <2>3. Spread(rows) /\ MadeFrom(points[i], notarized[i])
      BY <2>2 DEF Attested, Attests, HoldsRows
    <2>4. Valid(rows, seen, tx[w].public)
      BY DEF ReportIsValid, SeenBy
    <2> HIDE DEF rows, seen
    <2>5. \A j \in DOMAIN ChainOf(rows) : EntryHolds(ChainOf(rows), j)
      BY <2>4 DEF Valid
    <2>6. Anchored(rows, points[i])
      BY <2>2, <2>4 DEF Valid, PointHolds
    <2>7. UpTo(rows, points[i].covered) = notarized[i]
      BY <2>3, <2>5, <2>6, RootsTell
    <2> QED BY <2>7 DEF rows
  <1>3. Shape /\ Continued /\ Attested /\ [Next]_vars => Attested'
    BY AttestedStep
  <1> QED BY <1>1, <1>2, <1>3, LocksGoverned, TablesGoverned, PTL DEF Spec
===============================================================================
