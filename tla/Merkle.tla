------------------------------- MODULE Merkle -------------------------------
(***************************************************************************)
(* The Merkle tree of types/merkle.rs.  MerkleTree::new builds the levels  *)
(* in a two-level loop; its control (current_level, index, next_level) is  *)
(* the state of this module, one loop iteration per step.  root, proof and *)
(* verify are pure functions, modelled as (RECURSIVE) operators.           *)
(*                                                                         *)
(* SHA-256 is abstracted as an injective constructor: the hash of an item  *)
(* d is <<d>>, the hash of the concatenation of l and r is <<l, r>>.  The  *)
(* all-zero H256 is the model value Zero.                                  *)
(***************************************************************************)
EXTENDS Naturals, Sequences

CONSTANTS
    Items,      \* the Hashable items the tree is built over
    MaxLeaves,  \* bound on the length of the data slice
    Zero        \* the all-zero H256

VARIABLES
    data,       \* the slice passed to MerkleTree::new
    tree,       \* treeList: a sequence of levels (level 0 is tree[1])
    level,      \* current_level (0-based, as in the code)
    index,      \* index into tree[current_level]
    nextLevel,  \* next_level
    pc          \* "new", "outer", "inner" or "done"

vars == <<data, tree, level, index, nextLevel, pc>>

\* d.hash() of an item.
ItemHash(d) == <<d>>

\* The pair hash updated with the left hash twice (index for index+1).
Sha256LeftTwice(l, r) == <<l, l>>

\* SHA-256 over the concatenation of two hashes.
Sha256(l, r) == <<l, r>>

\* Every slice of at most MaxLeaves items.
Slices == UNION {[1 .. n -> Items] : n \in 0 .. MaxLeaves}

\* A level padded as the code pads level0 and every next_level, but with the
\* first entry duplicated instead of the last.
PadLevelFirst(lv) ==
    IF Len(lv) # 1 /\ Len(lv) % 2 # 0 THEN Append(lv, lv[1]) ELSE lv

\* An odd level of more than one entry gets its last entry duplicated.
PadLevel(lv) ==
    IF Len(lv) # 1 /\ Len(lv) % 2 # 0 THEN Append(lv, lv[Len(lv)]) ELSE lv

(***************************************************************************)
(* MerkleTree::new                                                         *)
(***************************************************************************)
Init ==
    /\ data \in Slices
    /\ tree = << >>
    /\ level = 0
    /\ index = 0
    /\ nextLevel = << >>
    /\ pc = "new"

\* An empty slice gives an empty treeList.
NewEmpty ==
    /\ pc = "new"
    /\ data = << >>
    /\ pc' = "done"
    /\ UNCHANGED <<data, tree, level, index, nextLevel>>

\* level0 holds the hash of each item, padded, and is pushed as level 0.
NewLeaves ==
    /\ pc = "new"
    /\ data # << >>
    /\ tree' = << PadLevel([k \in 1 .. Len(data) |-> ItemHash(data[k])]) >>
    /\ level' = 0
    /\ pc' = "outer"
    /\ UNCHANGED <<data, index, nextLevel>>

\* The outer loop's two breaks, or the start of a new next_level.
OuterStep ==
    /\ pc = "outer"
    /\ IF level >= Len(tree) \/ Len(tree[level + 1]) = 1
          THEN /\ pc' = "done"
               /\ UNCHANGED <<index, nextLevel>>
          ELSE /\ pc' = "inner"
               /\ index' = 0
               /\ nextLevel' = << >>
    /\ UNCHANGED <<data, tree, level>>

\* PairStep advancing the index by one instead of two.
PairStepByOne ==
    /\ pc = "inner"
    /\ index < Len(tree[level + 1])
    /\ nextLevel' = Append(nextLevel,
                           Sha256(tree[level + 1][index + 1],
                                  tree[level + 1][index + 2]))
    /\ index' = index + 1
    /\ UNCHANGED <<data, tree, level, pc>>

\* One inner iteration: hash the pair at index, index+1 and step by two.
PairStep ==
    /\ pc = "inner"
    /\ index < Len(tree[level + 1])
    /\ nextLevel' = Append(nextLevel,
                           Sha256(tree[level + 1][index + 1],
                                  tree[level + 1][index + 2]))
    /\ index' = index + 2
    /\ UNCHANGED <<data, tree, level, pc>>

\* The inner loop breaks: next_level is padded and pushed.
LevelDone ==
    /\ pc = "inner"
    /\ index >= Len(tree[level + 1])
    /\ tree' = Append(tree, PadLevel(nextLevel))
    /\ level' = level + 1
    /\ pc' = "outer"
    /\ UNCHANGED <<data, index, nextLevel>>

Next == NewEmpty \/ NewLeaves \/ OuterStep \/ PairStep \/ LevelDone

Spec == Init /\ [][Next]_vars

(***************************************************************************)
(* root, proof, verify                                                     *)
(***************************************************************************)
Root(t) == IF t = << >> THEN Zero ELSE t[Len(t)][1]

\* The proof loop from level lv with index i: the sibling at each level
\* below the top.
RECURSIVE ProofFrom(_, _, _)
ProofFrom(t, i, lv) ==
    IF lv >= Len(t) - 1 THEN << >>
    ELSE << IF i % 2 = 0 THEN t[lv + 1][i + 2] ELSE t[lv + 1][i] >>
         \o ProofFrom(t, i \div 2, lv + 1)

Proof(t, i) == IF i >= Len(t[1]) THEN << >> ELSE ProofFrom(t, i, 0)

\* verify, with the operands of the concatenation swapped.
RECURSIVE FoldProofSwapped(_, _, _)
FoldProofSwapped(cur, p, i) ==
    IF p = << >> THEN cur
    ELSE FoldProofSwapped(IF i % 2 = 0 THEN Sha256(Head(p), cur)
                                       ELSE Sha256(cur, Head(p)),
                          Tail(p), i \div 2)

\* The verify loop: fold the proof into the datum, halving the index.
RECURSIVE FoldProof(_, _, _)
FoldProof(cur, p, i) ==
    IF p = << >> THEN cur
    ELSE FoldProof(IF i % 2 = 0 THEN Sha256(cur, Head(p))
                                ELSE Sha256(Head(p), cur),
                   Tail(p), i \div 2)

Verify(root, datum, p, i, leafSize) ==
    /\ i < leafSize
    /\ leafSize > 0
    /\ FoldProof(datum, p, i) = root

(***************************************************************************)
(* Reference: the tree as spec section 4.1 describes it, level by level:   *)
(* an odd level of more than one entry is padded with its last entry, then *)
(* pairs are hashed, until one entry is left.                              *)
(***************************************************************************)
RECURSIVE SpecUp(_)
SpecUp(lv) ==
    IF Len(lv) = 1 THEN lv[1]
    ELSE LET p == IF Len(lv) % 2 = 1 THEN lv \o << lv[Len(lv)] >> ELSE lv
         IN  SpecUp([k \in 1 .. Len(p) \div 2 |-> Sha256(p[2 * k - 1], p[2 * k])])

SpecRoot(d) ==
    IF d = << >> THEN Zero ELSE SpecUp([k \in 1 .. Len(d) |-> ItemHash(d[k])])

(***************************************************************************)
(* Properties                                                              *)
(***************************************************************************)
\* The loop state of MerkleTree::new has its types, and the inner loop's
\* index stays even and within the level, so tree[current_level][index+1]
\* is always in bounds.
TypeOK ==
    /\ data \in Slices
    /\ pc \in {"new", "outer", "inner", "done"}
    /\ level \in 0 .. MaxLeaves
    /\ pc = "inner" =>
          /\ index % 2 = 0
          /\ index <= Len(tree[level + 1])
          /\ Len(nextLevel) = index \div 2

\* When MerkleTree::new returns, root() is the root spec 4.1 defines for
\* the slice: the loop's padding of level0 and of each next_level, its two
\* breaks and its pairing give the same tree as the description.
RootMatchesSpec == pc = "done" => Root(tree) = SpecRoot(data)

\* The Merkle round trip of spec section 7: for every leaf i of the slice,
\* verify(root, hash(S[i]), proof(i), i, |S|) holds on the tree new built.
ProofRoundTrip ==
    pc = "done" =>
        \A i \in 0 .. Len(data) - 1 :
            Verify(Root(tree), ItemHash(data[i + 1]), Proof(tree, i), i, Len(data))

\* The leaves of the perfect binary tree the padding makes of a slice: at
\* each level of more than one node and odd length, the last node is
\* repeated, and that node stands for the last w leaves (w = 2^level).
RECURSIVE PadFrom(_, _)
PadFrom(s, w) ==
    LET n == Len(s) \div w
    IN  IF n <= 1 THEN s
        ELSE PadFrom(IF n % 2 = 1 THEN s \o SubSeq(s, Len(s) - w + 1, Len(s))
                                  ELSE s,
                     2 * w)

PaddedLeaves(d) == PadFrom(d, 1)

\* What the root commits to: two slices have the root new computes in
\* common exactly when the padding at every level (level0 at merkle.rs:26
\* and each next_level at :56) turns them into the same leaves.  So an odd
\* slice and its copy with the last item repeated collide, and so do
\* [a,b,c,d,e], [a,b,c,d,e,e], [a,b,c,d,e,e,e] and [a,b,c,d,e,e,e,e], and
\* [a,b,c,d,e,f] and [a,b,c,d,e,f,e,f]; no other slices do.
RootCommitsToLeaves ==
    pc = "done" =>
        \A d \in Slices :
            SpecRoot(d) = Root(tree) <=> PaddedLeaves(d) = PaddedLeaves(data)

=============================================================================
