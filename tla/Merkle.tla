------------------------------- MODULE Merkle --------------------------------
(***************************************************************************)
(* The transparency tree of RFC 9162 over a sequence of digests: its root, *)
(* and the proofs that an entry is included and that a tree extends an     *)
(* earlier one, as they are built and as they are verified.  A hash is     *)
(* the term that was hashed: SHA-256 without collisions.                   *)
(***************************************************************************)
EXTENDS Naturals, Sequences, SequencesExt

EmptyRoot == <<"empty">>

Leaf(digest) == <<"leaf", digest>>

Node(left, right) == <<"node", left, right>>

(* For 1 <= n: it has no odd divisor but 1.                                *)
IsPowerOfTwo(n) == \A d \in 2..n : n % d = 0 => d % 2 = 0

(* The largest power of two less than n, for 2 <= n.                       *)
Split(n) == Max({p \in 1..(n - 1) : IsPowerOfTwo(p)})

(* The parts of n leaves, each from its first leaf to its last.            *)
Parts(n) == {part \in (1..n) \X (1..n) : part[1] <= part[2]}

(* The tree over a part, from the trees over smaller ones.                 *)
TreeOver(leaves, tree, part) ==
    LET lo == part[1]
        hi == part[2]
        k == lo + Split(hi - lo + 1)
    IN IF lo = hi THEN Leaf(leaves[lo]) ELSE Node(tree[<<lo, k - 1>>], tree[<<k, hi>>])

TreesOver(leaves) ==
    LET tree[part \in Parts(Len(leaves))] == TreeOver(leaves, tree, part) IN tree

RootOf(leaves) ==
    IF leaves = <<>> THEN EmptyRoot ELSE TreesOver(leaves)[<<1, Len(leaves)>>]

RootOfPart(leaves, lo, hi) == RootOf(SubSeq(leaves, lo, hi))

-------------------------------------------------------------------------------
(* Inclusion                                                               *)

(* The siblings on the way from the leaf at index (from 0) up to the tree   *)
(* over a part.                                                            *)
PathOver(leaves, index, path, part) ==
    LET lo == part[1]
        hi == part[2]
        k == lo + Split(hi - lo + 1)
    IN IF lo = hi THEN <<>>
       ELSE IF index + 1 < k THEN Append(path[<<lo, k - 1>>], RootOfPart(leaves, k, hi))
       ELSE Append(path[<<k, hi>>], RootOfPart(leaves, lo, k - 1))

PathsOver(leaves, index) ==
    LET path[part \in Parts(Len(leaves))] == PathOver(leaves, index, path, part) IN path

InclusionProof(leaves, index) == PathsOver(leaves, index)[<<1, Len(leaves)>>]

(* Every node at the right edge is taken to have a sibling.                *)
ParentOneLevel(place) == <<place[1] \div 2, place[2] \div 2>>

(* The largest power of two that divides n: as many bits as are 0 at its    *)
(* end.                                                                    *)
Span(n) == IF n = 0 THEN 1 ELSE Max({p \in 1..n : IsPowerOfTwo(p) /\ n % p = 0})

(* Up to the parent: past the levels where the node had no sibling.        *)
Parent(place) ==
    LET up == 2 * Span(place[1]) IN <<place[1] \div up, place[2] \div up>>

IsRight(place) == place[1] % 2 = 1 \/ place[1] = place[2]

(* One sibling of the path; place = <<0, 0>> is the root, where none fits. *)
Climb(s, sibling) ==
    IF s.place[2] = 0 THEN [s EXCEPT !.fits = FALSE]
    ELSE IF IsRight(s.place)
    THEN [s EXCEPT !.hash = Node(sibling, @), !.place = Parent(@)]
    ELSE [s EXCEPT !.hash = Node(@, sibling), !.place = <<@[1] \div 2, @[2] \div 2>>]

Included(digest, index, size, path, root) ==
    /\ index < size
    /\ LET end == FoldLeft(Climb, [place |-> <<index, size - 1>>, hash |-> Leaf(digest),
                                   fits |-> TRUE], path)
       IN end.fits /\ end.place[2] = 0 /\ end.hash = root

-------------------------------------------------------------------------------
(* Consistency                                                             *)

(* The siblings on the way from the last full tree of the first leaves up  *)
(* to the tree over a part; that tree comes first, unless it is all of the *)
(* earlier tree.  place = <<part, fromOld>>                                *)
PathFrom(leaves, first, path, place) ==
    LET lo == place[1][1]
        hi == place[1][2]
        k == lo + Split(hi - lo + 1)
    IN IF first = hi THEN IF place[2] THEN <<>> ELSE <<RootOfPart(leaves, lo, hi)>>
       ELSE IF first < k
       THEN Append(path[<<<<lo, k - 1>>, place[2]>>], RootOfPart(leaves, k, hi))
       ELSE Append(path[<<<<k, hi>>, FALSE>>], RootOfPart(leaves, lo, k - 1))

PathsFrom(leaves, first) ==
    LET path[place \in {p \in Parts(Len(leaves)) : first \in p[1]..p[2]} \X BOOLEAN] ==
          PathFrom(leaves, first, path, place)
    IN path

ConsistencyProof(leaves, first) ==
    IF first \in {0, Len(leaves)} THEN <<>>
    ELSE PathsFrom(leaves, first)[<<<<1, Len(leaves)>>, TRUE>>]

(* As Climb, for the earlier root and the later one together.              *)
ClimbBoth(s, sibling) ==
    IF s.place[2] = 0 THEN [s EXCEPT !.fits = FALSE]
    ELSE IF IsRight(s.place)
    THEN [s EXCEPT !.first = Node(sibling, @), !.second = Node(sibling, @),
                   !.place = Parent(@)]
    ELSE [s EXCEPT !.second = Node(@, sibling), !.place = <<@[1] \div 2, @[2] \div 2>>]

(* The node where the two trees part: past the levels it closes itself, as  *)
(* many as bits of first - 1 are 1 at its end.                             *)
Parting(first, second) ==
    <<(first - 1) \div Span(first), (second - 1) \div Span(first)>>

Consistent(first, second, firstRoot, secondRoot, path) ==
    CASE first > second -> FALSE
      [] first = 0 -> firstRoot = EmptyRoot /\ path = <<>>
      [] first = second /\ first > 0 -> firstRoot = secondRoot /\ path = <<>>
      [] OTHER ->
           LET nodes == IF IsPowerOfTwo(first) THEN <<firstRoot>> \o path ELSE path
               end == FoldLeft(ClimbBoth, [place |-> Parting(first, second), fits |-> TRUE,
                                           first |-> Head(nodes), second |-> Head(nodes)],
                               Tail(nodes))
           IN /\ path # <<>>
              /\ end.fits /\ end.place[2] = 0
              /\ end.first = firstRoot /\ end.second = secondRoot
===============================================================================
