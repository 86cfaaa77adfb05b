----------------------------- MODULE MerkleTree -----------------------------
(***************************************************************************)
(* The sparse Merkle tree of commitments (data-structures/merkletree).     *)
(*                                                                         *)
(* A tree is a record: tree is a partial map from node numbers to values   *)
(* (the root of a tree of Levels levels is node 1, the children of n are   *)
(* 2n and 2n+1, the leaves start at GetStartIndex), reverseTree maps a     *)
(* value back to the leaf it was last written to, count is the number of   *)
(* leaves written and index the number after the highest of them.          *)
(*                                                                         *)
(* The hash function is free: a hash is the pair of what was hashed.       *)
(***************************************************************************)
EXTENDS Integers, Sequences, FiniteSets, TLC

CONSTANTS
  Levels,     \* number of levels of the tree (MerkleLevels)
  Default     \* the default value 0 of an absent node

Hash(l, r) == <<l, r>>

GetStartIndex == 2 ^ (Levels - 1)

New == [tree |-> <<>>, reverseTree |-> <<>>, count |-> 0, index |-> GetStartIndex]

GetValue(m, i) == m.tree[i]
HasValue(m, i) == i \in DOMAIN m.tree

ValueOrDefault(tree, n) == IF n \in DOMAIN tree THEN tree[n] ELSE Default

\* Mutant: BitLen of n, one level too high after a power of two.
BitLen(n) ==
  IF n <= 0 THEN 0 ELSE CHOOSE p \in 0 .. Levels : 2 ^ p > n /\ (p > 0 => 2 ^ (p - 1) <= n)

\* BitLen of n - 1: the height of the smallest full tree with n leaves.
Logarithm2(n) ==
  IF n <= 0 THEN 0
  ELSE CHOOSE p \in 0 .. Levels : 2 ^ p >= n /\ (p > 0 => 2 ^ (p - 1) < n)

\* An assignment to a map.
Put(f, k, v) == [x \in DOMAIN f \union {k} |-> IF x = k THEN v ELSE f[x]]

Parent(tree, n) ==
  Put(tree, n, Hash(ValueOrDefault(tree, 2 * n), ValueOrDefault(tree, 2 * n + 1)))

\* Writes a leaf and rehashes the nodes above it, up to the level that covers
\* all leaves below index.
ForceInsert(m, value, leaf) ==
  LET rehash[h \in 0 .. Levels] ==
        IF h = 0 THEN Put(m.tree, leaf, value)
                 ELSE Parent(rehash[h - 1], leaf \div 2 ^ h)
  IN  [m EXCEPT !.tree = rehash[Logarithm2(m.index - GetStartIndex)],
                !.reverseTree = Put(@, value, leaf)]

CountWith(m, leaf) == IF HasValue(m, leaf) THEN m.count ELSE m.count + 1

Insert(m, value, leaf) ==
  ForceInsert([m EXCEPT !.count = CountWith(m, leaf),
                        !.index = IF leaf + 1 > @ THEN leaf + 1 ELSE @],
              value, leaf)

\* completenessCheck: without it a root or a path is an error.
IsComplete(m) == m.count = m.index - GetStartIndex

\* The highest node on the left edge that has a value.
GetRootHash(m) ==
  LET spine == {k \in 0 .. Levels - 1 : ValueOrDefault(m.tree, 2 ^ k) # Default}
  IN  IF spine = {} THEN Default
      ELSE m.tree[2 ^ (CHOOSE k \in spine : \A l \in spine : k <= l)]

GetSiblingIndex(n) == IF n = 1 THEN 1 ELSE IF n % 2 = 1 THEN n - 1 ELSE n + 1

\* One value for every level between the leaf of item and node 1; an item
\* that is not in the reverse tree has a path of zeros.
GetSiblingHashesForVerification(m, item) ==
  [h \in 1 .. Levels |->
     IF item \in DOMAIN m.reverseTree
       THEN ValueOrDefault(m.tree, GetSiblingIndex(m.reverseTree[item] \div 2 ^ (h - 1)))
       ELSE Default]

GetSiblingSides(m, item) ==
  [h \in 1 .. Levels |->
     IF item \in DOMAIN m.reverseTree THEN (m.reverseTree[item] \div 2 ^ (h - 1)) % 2 ELSE 0]

\* The leaves buildReverseTree walks over.
CountedLeaves(m) == GetStartIndex .. GetStartIndex + m.count - 1

\* Equal values would map to the highest of their leaves.
BuildReverseTree(m) ==
  LET leaves == {i \in CountedLeaves(m) : HasValue(m, i)}
  IN  [v \in {m.tree[i] : i \in leaves} |->
         CHOOSE i \in leaves : m.tree[i] = v /\ \A j \in leaves : m.tree[j] = v => j <= i]

(***************************************************************************)
(* ToJSON and FromJSON: the numbers become decimal strings and come back,  *)
(* the reverse tree is rebuilt when the JSON has none (ToJSONLite, and the *)
(* snapshot server).  The number of levels is not written.                 *)
(***************************************************************************)
ToJSON(m)     == [tree |-> m.tree, reverseTree |-> {m.reverseTree}, count |-> m.count, index |-> m.index]
ToJSONLite(m) == [tree |-> m.tree, reverseTree |-> {}, count |-> m.count, index |-> m.index]

FromJSON(j) ==
  LET m == [tree |-> j.tree, reverseTree |-> <<>>, count |-> j.count, index |-> j.index]
  IN  [m EXCEPT !.reverseTree = IF j.reverseTree = {} THEN BuildReverseTree(m)
                                ELSE CHOOSE r \in j.reverseTree : TRUE]

-----------------------------------------------------------------------------
(***************************************************************************)
(* Reference definitions: the root of the smallest full tree over a        *)
(* sequence of leaves, and what a verifier computes from a path.           *)
(***************************************************************************)
ReferenceRoot(leaves) ==
  LET height == CHOOSE p \in 0 .. Levels : /\ 2 ^ p >= Len(leaves)
                                           /\ \A q \in 0 .. p - 1 : 2 ^ q < Len(leaves)
      node[h \in 0 .. height] ==
        [i \in 0 .. 2 ^ (height - h) - 1 |->
           IF i * 2 ^ h >= Len(leaves) THEN Default
           ELSE IF h = 0 THEN leaves[i + 1]
           ELSE Hash(node[h - 1][2 * i], node[h - 1][2 * i + 1])]
  IN  IF leaves = <<>> THEN Default ELSE node[height][0]

FoldPath(item, siblings, sides, height) ==
  LET up[h \in 0 .. height] ==
        IF h = 0 THEN item
        ELSE IF sides[h] = 0 THEN Hash(up[h - 1], siblings[h])
                             ELSE Hash(siblings[h], up[h - 1])
  IN  up[height]
=============================================================================
