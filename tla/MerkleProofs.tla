---------------------------- MODULE MerkleProofs ----------------------------
(***************************************************************************)
(* The Merkle tree over the leaves of one commitment epoch and its         *)
(* inclusion proofs (buildMerkleRoot, buildMerkleProof, verifyMerkleProof  *)
(* of packages/shared-types/src/sequencer.ts).  The state is the epoch,    *)
(* and it grows by one leaf up to MaxLeaves, so that every epoch is one of *)
(* its states.  A hash is the pair it is the hash of; a leaf may occur     *)
(* twice.                                                                  *)
(***************************************************************************)
EXTENDS Integers, Sequences

CONSTANTS Leaves, EmptyRoot, MaxLeaves

ASSUME MaxLeavesAssumption == MaxLeaves \in Nat

VARIABLE leaves

HashPair(left, right) == <<left, right>>

\* A bug to guard against: every node hashed with itself.
LeftAgain(level, i) == level[i + 1]

\* The node hashed with the left node at i (counted from 0): a last node
\* without a neighbour is hashed with itself.
RightOf(level, i) == IF i + 1 < Len(level) THEN level[i + 2] ELSE level[i + 1]

Parents(level) ==
    [k \in 1..((Len(level) + 1) \div 2) |->
        HashPair(level[2 * k - 1], RightOf(level, 2 * k - 2))]

\* The levels, from the leaves up to one node and on.
LevelsOf(ls) ==
    LET level[h \in 0..Len(ls)] == IF h = 0 THEN ls ELSE Parents(level[h - 1])
    IN  level

\* How often the loops run: while more than one node is left.
Height(ls) ==
    CHOOSE h \in 0..Len(ls) : /\ Len(LevelsOf(ls)[h]) <= 1
                              /\ \A g \in 0..(h - 1) : Len(LevelsOf(ls)[g]) > 1

BuildMerkleRoot(ls) ==
    IF ls = << >> THEN EmptyRoot ELSE LevelsOf(ls)[Height(ls)][1]

\* Where a leaf's branch meets the levels from 0 to n.
IndexesOf(leafIndex, n) ==
    LET index[h \in 0..n] == IF h = 0 THEN leafIndex ELSE index[h - 1] \div 2
    IN  index

SiblingOf(i) == IF i % 2 = 0 THEN i + 1 ELSE i - 1

\* The node at i is its own sibling when it has none.
SiblingIn(level, i) ==
    IF SiblingOf(i) < Len(level) THEN level[SiblingOf(i) + 1] ELSE level[i + 1]

BuildMerkleProof(ls, leafIndex) ==
    LET height == Height(ls)
        index == IndexesOf(leafIndex, height)
    IN  [h \in 1..height |-> SiblingIn(LevelsOf(ls)[h - 1], index[h - 1])]

\* The nodes up a branch, from the leaf and its siblings.
BranchOf(leafHash, leafIndex, proof) ==
    LET index == IndexesOf(leafIndex, Len(proof))
        computed[h \in 0..Len(proof)] ==
            IF h = 0 THEN leafHash
            ELSE IF index[h - 1] % 2 = 0 THEN HashPair(computed[h - 1], proof[h])
                                         ELSE HashPair(proof[h], computed[h - 1])
    IN  computed

VerifyMerkleProof(leafHash, leafIndex, proof, expectedRoot) ==
    BranchOf(leafHash, leafIndex, proof)[Len(proof)] = expectedRoot

-----------------------------------------------------------------------------
NoLeaves == leaves = << >>

NextLeaf(leaf) == Len(leaves) < MaxLeaves /\ leaves' = Append(leaves, leaf)

Growing == \E leaf \in Leaves : NextLeaf(leaf)

EpochSpec == NoLeaves /\ [][Growing]_leaves

Indexes == 0..(Len(leaves) - 1)

\* The proof the sequencer serves for a leaf verifies against the root it
\* committed, at every index of every size of epoch, odd sizes included; no proof
\* it serves, for whatever position, shows another leaf at that or at any other
\* position of the epoch; and a root with the number of its leaves, which the
\* registry records together, is that of no other epoch.
ProofsExact ==
    LET root == BuildMerkleRoot(leaves) IN
    /\ \A j \in Indexes :
          LET proof == BuildMerkleProof(leaves, j) IN
          /\ VerifyMerkleProof(leaves[j + 1], j, proof, root)
          /\ \A i \in Indexes, leaf \in Leaves :
                VerifyMerkleProof(leaf, i, proof, root) => leaf = leaves[i + 1]
    /\ \A others \in [1..Len(leaves) -> Leaves] :
          BuildMerkleRoot(others) = root => others = leaves
=============================================================================
