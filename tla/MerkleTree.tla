----------------------------- MODULE MerkleTree -----------------------------
(***************************************************************************)
(* The Merkle tree of identity commitments: SimpleMerkleTree of            *)
(* src/zkProof.ts makes roots and paths, computeRoot of                    *)
(* contracts/primitives/MerkleTree.sol opens them.  Poseidon is symbolic:  *)
(* the hash of two nodes is the pair of them.  Leaves are numbered from 1  *)
(* here and from 0 in the code.                                            *)
(***************************************************************************)
EXTENDS Naturals, Sequences

CONSTANTS
    TREE_HEIGHT,    \* levels above the leaves (20 in the code)
    ZeroLeaf        \* the field element 0, which stands in every free place

ASSUME MerkleAssumption == TREE_HEIGHT \in Nat

hash2(left, right) == <<left, right>>

\* zeroHashes[i]: the root of an empty tree of height i.
zeroHashes[i \in 0..TREE_HEIGHT] ==
    IF i = 0 THEN ZeroLeaf ELSE hash2(zeroHashes[i - 1], zeroHashes[i - 1])

\* Mutant: an odd node is paired with itself.
nextLevelDoubling(level, i) ==
    [j \in 1..((Len(level) + 1) \div 2) |->
        hash2(level[2 * j - 1], IF 2 * j <= Len(level) THEN level[2 * j] ELSE level[2 * j - 1])]

\* One round of the loops of getRoot and getProof: level i to level i + 1.
nextLevel(level, i) ==
    [j \in 1..((Len(level) + 1) \div 2) |->
        hash2(level[2 * j - 1], IF 2 * j <= Len(level) THEN level[2 * j] ELSE zeroHashes[i])]

\* currentLevel after i rounds.
levels(leaves) ==
    LET currentLevel[i \in 0..TREE_HEIGHT] ==
            IF i = 0 THEN leaves ELSE nextLevel(currentLevel[i - 1], i - 1)
    IN  currentLevel

\* insert does not ask whether the tree is full.
insert(leaves, leaf) == Append(leaves, leaf)

getRoot(leaves) ==
    IF leaves = <<>> THEN zeroHashes[TREE_HEIGHT] ELSE levels(leaves)[TREE_HEIGHT][1]

\* An index, and half of it for each round, as both loops have it.
halved(index, rounds) ==
    LET currentIndex[i \in 0..rounds] ==
            IF i = 0 THEN index ELSE currentIndex[i - 1] \div 2
    IN  currentIndex

\* Mutant: the sibling is always taken on the right.
pathElementsRight(leaves, place) ==
    [i \in 1..TREE_HEIGHT |->
        LET sibling == halved(place - 1, TREE_HEIGHT)[i - 1] + 2
            level == levels(leaves)[i - 1]
        IN  IF sibling <= Len(level) THEN level[sibling] ELSE zeroHashes[i - 1]]

\* pathElements of getProof for the leaf at a place, level 0 first.  At level
\* i the place is currentIndex + 1 of the code, its sibling is the other of
\* its pair, and a sibling past the end of the level is a zero hash.
pathElements(leaves, place) ==
    [i \in 1..TREE_HEIGHT |->
        LET currentIndex == halved(place - 1, TREE_HEIGHT)[i - 1]
            sibling == IF currentIndex % 2 = 0 THEN currentIndex + 2 ELSE currentIndex
            level == levels(leaves)[i - 1]
        IN  IF sibling <= Len(level) THEN level[sibling] ELSE zeroHashes[i - 1]]

\* The contract opens a path, low bit of the index first.
computeRoot(leaf, path, index) ==
    LET hash[i \in 0..Len(path)] ==
            IF i = 0 THEN leaf
            ELSE IF halved(index, Len(path))[i - 1] % 2 = 1
                 THEN hash2(path[i], hash[i - 1])
                 ELSE hash2(hash[i - 1], path[i])
    IN  hash[Len(path)]

verify(leaf, path, index, root) == computeRoot(leaf, path, index) = root

-----------------------------------------------------------------------------
(* Reference                                                               *)

\* The places of a tree of height i.
width[i \in 0..TREE_HEIGHT] == IF i = 0 THEN 1 ELSE 2 * width[i - 1]

\* The tree by its definition: the node at a place of a level is the hash of
\* its two children, and a free leaf is zero.
Nodes(leaves) ==
    LET nodes[i \in 0..TREE_HEIGHT] ==
            IF i = 0
            THEN [place \in 1..width[TREE_HEIGHT] |->
                     IF place <= Len(leaves) THEN leaves[place] ELSE ZeroLeaf]
            ELSE [place \in 1..width[TREE_HEIGHT - i] |->
                     hash2(nodes[i - 1][2 * place - 1], nodes[i - 1][2 * place])]
    IN  nodes

\* The root is that of the complete tree over the leaves it has places for, the
\* path of each of them opens it, and a leaf past them does not: insert takes
\* one more identity than the tree has places and nobody is told.
TreeIsComplete(leaves) ==
    /\ getRoot(leaves) = Nodes(leaves)[TREE_HEIGHT][1]
    /\ \A place \in 1..Len(leaves) :
           verify(leaves[place], pathElements(leaves, place), place - 1, getRoot(leaves))
               <=> place <= width[TREE_HEIGHT]
=============================================================================
