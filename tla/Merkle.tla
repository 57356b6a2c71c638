------------------------------- MODULE Merkle -------------------------------
(***************************************************************************)
(* MerkleTreeBuilder and MerkleProof (src/merkle_provenance.cpp).  A hash  *)
(* is the term it was computed from, so that two hashes are equal exactly  *)
(* when their inputs are: sha256 is taken to have no collisions.  Indices  *)
(* of leaves count from 0, as in the code.                                 *)
(***************************************************************************)
EXTENDS Integers, Sequences

Internal(l, r) == [left |-> l, right |-> r]

\* One round of build_tree: pairs are hashed, the last of an odd number is
\* promoted as it is.
NextLevel(level) ==
    LET n == Len(level)
    IN  [k \in 1..((n + 1) \div 2) |->
            IF 2 * k <= n THEN Internal(level[2 * k - 1], level[2 * k]) ELSE level[2 * k - 1]]

\* The levels of the tree from the leaves up; from the root on they repeat.
Levels(leaves) ==
    LET level[k \in 0..Len(leaves)] == IF k = 0 THEN leaves ELSE NextLevel(level[k - 1])
    IN  level

\* build_root of at least one leaf.
Root(leaves) == Levels(leaves)[Len(leaves)][1]

\* Mutated form: the sibling is taken to be on the right of every node.
SiblingIndex_Right(i) == i + 1

SiblingIndex(i) == IF i % 2 = 0 THEN i + 1 ELSE i - 1

\* current_index on the way up, halved at every level.
IndexUp(i, n) ==
    LET index[k \in 0..n] == IF k = 0 THEN i ELSE index[k - 1] \div 2
    IN  index

\* generate_proof: the siblings on the way up; a promoted node adds none.
Siblings(leaves, i) ==
    LET levels == Levels(leaves)
        index  == IndexUp(i, Len(leaves))
        path[k \in 0..Len(leaves)] ==
            IF k = 0 THEN << >>
            ELSE LET level   == levels[k - 1]
                     sibling == SiblingIndex(index[k - 1])
                 IN  IF Len(level) > 1 /\ sibling < Len(level)
                     THEN Append(path[k - 1], level[sibling + 1])
                     ELSE path[k - 1]
    IN  path[Len(leaves)]

\* The hash verify ends with; it halves the index once per sibling it is given.
HashUp(leaf, i, siblings) ==
    LET index == IndexUp(i, Len(siblings))
        hash[k \in 0..Len(siblings)] ==
            IF k = 0 THEN leaf
            ELSE IF index[k - 1] % 2 = 0 THEN Internal(hash[k - 1], siblings[k])
                                         ELSE Internal(siblings[k], hash[k - 1])
    IN  hash[Len(siblings)]

\* MerkleProof::verify
VerifyProof(leaf, i, siblings, root) == HashUp(leaf, i, siblings) = root

\* No level of the tree has a node without a sibling: their numbers are even
\* up to the root.
NothingPromoted(leaves) ==
    \A k \in DOMAIN Levels(leaves) :
        Len(Levels(leaves)[k]) > 1 => Len(Levels(leaves)[k]) % 2 = 0
=============================================================================
