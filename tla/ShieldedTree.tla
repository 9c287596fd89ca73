---------------------------- MODULE ShieldedTree ----------------------------
(***************************************************************************)
(* The commitment tree three programs compute separately and must agree    *)
(* on: ShieldedPool.sol inserts one leaf at a time, sdk/client/merkle.ts   *)
(* rebuilds the tree from all leaves, and circuits/spend_change folds a    *)
(* witness back into a root.  A hash is the pair it is the hash of.        *)
(***************************************************************************)
EXTENDS Integers, Sequences

CONSTANTS
    TreeDepth,   \* TREE_DEPTH, CRYPTO_SPEC.merkleTreeDepth (24)
    ZeroLeaf     \* bytes32(0)

ASSUME TreeDepthAssumption == TreeDepth \in Nat \ {0}

Below == 0..(TreeDepth - 1)   \* the levels below the root

\* 1 << level
PowerOfTwo[level \in 0..TreeDepth] ==
    IF level = 0 THEN 1 ELSE 2 * PowerOfTwo[level - 1]
Capacity == PowerOfTwo[TreeDepth]

\* currentIndex at each level: shifted right once on the way to it.
CurrentIndex(index) ==
    LET currentIndex[level \in 0..TreeDepth] ==
            IF level = 0 THEN index ELSE currentIndex[level - 1] \div 2
    IN  currentIndex
Bit(index, level) == CurrentIndex(index)[level] % 2

HashPair(left, right) == <<left, right>>

\* zeros[i], with the root of the empty tree on top.
Zeros[level \in 0..TreeDepth] ==
    IF level = 0 THEN ZeroLeaf ELSE HashPair(Zeros[level - 1], Zeros[level - 1])

-----------------------------------------------------------------------------
(* ShieldedPool._insertCommitment: currentHash at each level. *)

InsertionPath(filledSubtrees, index, commitment) ==
    LET currentHash[level \in 0..TreeDepth] ==
            IF level = 0 THEN commitment
            ELSE IF Bit(index, level - 1) = 0
                 THEN HashPair(currentHash[level - 1], Zeros[level - 1])
                 ELSE HashPair(filledSubtrees[level - 1], currentHash[level - 1])
    IN  currentHash

FilledAlways(filledSubtrees, index, commitment) ==
    [level \in Below |-> InsertionPath(filledSubtrees, index, commitment)[level]]
FilledAfter(filledSubtrees, index, commitment) ==
    [level \in Below |->
        IF Bit(index, level) = 0
        THEN InsertionPath(filledSubtrees, index, commitment)[level]
        ELSE filledSubtrees[level]]

RootAfter(filledSubtrees, index, commitment) ==
    InsertionPath(filledSubtrees, index, commitment)[TreeDepth]

-----------------------------------------------------------------------------
(* sdk/client/merkle.ts *)

NodeOrZero(nodes, i, level) == IF i < Len(nodes) THEN nodes[i + 1] ELSE Zeros[level]

Levels(commitments) ==
    LET nodes[level \in 0..TreeDepth] ==
            IF level = 0 THEN commitments
            ELSE [i \in 1..((Len(nodes[level - 1]) + 1) \div 2) |->
                    HashPair(NodeOrZero(nodes[level - 1], 2 * i - 2, level - 1),
                             NodeOrZero(nodes[level - 1], 2 * i - 1, level - 1))]
    IN  nodes

\* Else deriveWitness throws, also for the leaves of a full tree.
WitnessPossible(commitments, index) ==
    index \in 0..(Len(commitments) - 1) /\ Len(commitments) < Capacity

SiblingIndex(index, level) ==
    LET i == CurrentIndex(index)[level]
    IN  IF Bit(index, level) = 0 THEN i + 1 ELSE i - 1

DeriveWitness(commitments, index) ==
    LET nodes == Levels(commitments)
    IN  [root |-> nodes[TreeDepth][1],
         path |-> [level \in Below |->
                     NodeOrZero(nodes[level], SiblingIndex(index, level), level)],
         indexBits |-> [level \in Below |-> Bit(index, level)]]

\* deriveRootFromCommitments: the root of a witness for the first leaf, or the
\* exception of deriveWitness.
Thrown == << >>
DeriveRoot(commitments) ==
    IF commitments = << >> THEN Zeros[TreeDepth]
    ELSE IF WitnessPossible(commitments, 0)
         THEN DeriveWitness(commitments, 0).root ELSE Thrown

-----------------------------------------------------------------------------
(* merkle_root_from_path of the circuit *)

MerkleRootFromPath(leaf, path, indexBits) ==
    LET cur[level \in 0..TreeDepth] ==
            IF level = 0 THEN leaf
            ELSE IF indexBits[level - 1] = 0
                 THEN HashPair(cur[level - 1], path[level - 1])
                 ELSE HashPair(path[level - 1], cur[level - 1])
    IN  cur[TreeDepth]
=============================================================================
