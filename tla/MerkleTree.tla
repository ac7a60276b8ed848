----------------------------- MODULE MerkleTree -----------------------------
(***************************************************************************)
(* The Merkle tree a worker builds from the leaves of a task, the path it  *)
(* takes from it (internal/zkp/prover.go) and the circuit the path has to  *)
(* satisfy (internal/zkp/circuits/factory.go), as functions.               *)
(*                                                                         *)
(* A byte string is known by its size: "field" if it is the encoding of a  *)
(* field element, "big" if it fits in 32 bytes and is not below the        *)
(* modulus, "long" if it does not fit in 32 bytes; "text" is what is not   *)
(* hexadecimal.  MiMC is a free constructor: hashes are equal only if they *)
(* hash the same elements.                                                 *)
(***************************************************************************)
EXTENDS Integers, Sequences, SequencesExt

Leaf(id, size) == [size |-> size, id |-> id, of |-> <<>>]

MiMC(elements) == [size |-> "field", id |-> 0, of |-> elements]

\* What hFunc.Write adds: gnark-crypto's MiMC returns an error, which nobody
\* looks at, for 32 bytes that are not below the modulus, and adds nothing.
Written(bytes) == IF bytes.size = "field" THEN <<bytes>> ELSE <<>>

hashPairMiMC(left, right) == MiMC(Written(left) \o Written(right))

\* Reduction modulo the field size makes another number of a big one.
BytesToFieldElement(bytes) ==
  IF bytes.size = "field" THEN bytes ELSE Leaf(-bytes.id, "field")

-----------------------------------------------------------------------------
(* NewMerkleTree *)

Half(size) == (size + 1) \div 2

Depth[size \in Nat] == IF size <= 1 THEN 0 ELSE 1 + Depth[Half(size)]

NextLevelUnpaired(level) ==   \* mutant: a last node without a pair goes up
  [i \in 1..Half(Len(level)) |->
     IF 2 * i <= Len(level) THEN hashPairMiMC(level[2 * i - 1], level[2 * i])
                            ELSE level[2 * i - 1]]

\* A last node without a pair is hashed with itself.
NextLevel(level) ==
  [i \in 1..Half(Len(level)) |->
     hashPairMiMC(level[2 * i - 1],
                  level[IF 2 * i <= Len(level) THEN 2 * i ELSE 2 * i - 1])]

\* FillBytes panics when a number does not fit in 32 bytes.
Panics(leaves) ==
  Len(leaves) > 1 /\ \E i \in DOMAIN leaves : leaves[i].size = "long"

\* The leaves a task names are hexadecimal: hex.DecodeString succeeds.
AllHex(leaves) == \A i \in DOMAIN leaves : leaves[i].size # "text"

\* currentLevel, level after level.
Levels(leaves) ==
  LET level[l \in Nat] == IF l = 0 THEN leaves ELSE NextLevel(level[l - 1])
  IN level

\* The levels one after the other, from the leaves to the root.
NewMerkleTree(leaves) ==
  FlattenSeq([l \in 1..Depth[Len(leaves)] + 1 |-> Levels(leaves)[l - 1]])

-----------------------------------------------------------------------------
(* MerkleTree.GenerateProof *)

\* currentIndex, levelStart and levelSize when the loop is at a level.
Cursor(size, leafIndex) ==
  LET at[l \in Nat] ==
        IF l = 0 THEN [index |-> leafIndex, start |-> 0, size |-> size]
        ELSE [index |-> at[l - 1].index \div 2,
              start |-> at[l - 1].start + at[l - 1].size,
              size |-> Half(at[l - 1].size)]
  IN at

SiblingOfLeft(at) ==   \* mutant: the node before, whichever side the node is
  IF at.index = 0 THEN 1 ELSE at.index - 1

\* The neighbour, or the node itself when the neighbour's number, which
\* counts from the start of the level, passes the end of the level, which
\* counts from the start of the tree.
SiblingIndex(at) ==
  LET neighbour == IF at.index % 2 = 0 THEN at.index + 1 ELSE at.index - 1
  IN IF neighbour >= at.start + at.size THEN at.index ELSE neighbour

\* Path and indices in one: what stands beside the node of each level.
GenerateProof(leaves, leafIndex) ==
  LET tree == NewMerkleTree(leaves)
      cursor == Cursor(Len(leaves), leafIndex)
  IN [l \in 0..Depth[Len(leaves)] - 1 |->
        [sibling |-> tree[cursor[l].start + SiblingIndex(cursor[l]) + 1],
         index |-> cursor[l].index % 2]]

-----------------------------------------------------------------------------
(* createMerkleWitness and the circuit *)

\* Define: currentHash, level after level, from the leaf up the path.
Folded(leaf, path) ==
  LET hash[l \in Nat] ==
        IF l = 0 THEN BytesToFieldElement(leaf)
        ELSE LET sibling == BytesToFieldElement(path[l - 1].sibling)
             IN MiMC(IF path[l - 1].index = 1 THEN <<sibling, hash[l - 1]>>
                                           ELSE <<hash[l - 1], sibling>>)
  IN hash

\* The constraint the witness has to satisfy.
Satisfied(leaf, path, depth, root) ==
  Folded(leaf, path)[depth] = BytesToFieldElement(root)

\* What the pool's processTask makes of well-formed leaves and a valid index.
Proves(leaves, leafIndex) ==
  Satisfied(leaves[leafIndex + 1], GenerateProof(leaves, leafIndex),
            Depth[Len(leaves)], Last(NewMerkleTree(leaves)))

-----------------------------------------------------------------------------
(* References *)

\* 2^l, the number of leaves below a node of level l of a full tree.
Span[l \in Nat] == IF l = 0 THEN 1 ELSE 2 * Span[l - 1]

\* The node with number i of level l, from the leaves below it.
ReferenceNode(leaves) ==
  LET node[l \in Nat] ==
        IF l = 0 THEN [i \in Nat |-> leaves[i + 1]]
        ELSE [i \in Nat |->
                hashPairMiMC(node[l - 1][2 * i],
                  node[l - 1][IF (2 * i + 1) * Span[l - 1] < Len(leaves)
                              THEN 2 * i + 1 ELSE 2 * i])]
  IN node

\* How many nodes level l of a tree of size leaves has: size / 2^l, rounded up.
Width(size, l) == (size + Span[l] - 1) \div Span[l]

\* Above the leaves some ancestor of the leaf, or the leaf's path itself,
\* ends in a node that has no neighbour.
HasUnpairedAncestor(size, leafIndex) ==
  \E l \in 1..Depth[size] - 1 :
    Width(size, l) % 2 = 1 /\ leafIndex \div Span[l] = Width(size, l) - 1

\* The leaf and the one it is hashed with are field elements.
PairInField(leaves, leafIndex) ==
  \A i \in DOMAIN leaves : (i - 1) \div 2 = leafIndex \div 2
                              => leaves[i].size = "field"
=============================================================================
