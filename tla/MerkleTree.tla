----------------------------- MODULE MerkleTree -----------------------------
(***************************************************************************)
(* The right-sparse Merkle tree that accumulator proofs are made with: a   *)
(* tree of fixed depth whose first leaves are filled, zero subtrees for    *)
(* the rest, and finalized subtrees of which only the root is kept.        *)
(*                                                                         *)
(* A hash is the term that was hashed, so two hashes are equal exactly     *)
(* when what they are hashes of is.                                        *)
(***************************************************************************)
EXTENDS Naturals, Sequences, SequencesExt, Results

Hash32Concat(left, right) == <<"hash", left, right>>

RECURSIVE ZeroHash(_)
ZeroHash(depth) == IF depth = 0 THEN <<"zero">>
                   ELSE Hash32Concat(ZeroHash(depth - 1), ZeroHash(depth - 1))

Zero(depth) == [kind |-> "zero", hash |-> ZeroHash(depth), depth |-> depth]
Leaf(hash) == [kind |-> "leaf", hash |-> hash]
Finalized(hash) == [kind |-> "finalized", hash |-> hash]
Node(left, right) == [kind |-> "node", hash |-> Hash32Concat(left.hash, right.hash),
                      left |-> left, right |-> right]

RECURSIVE Create(_, _)
Create(leaves, depth) ==
    IF leaves = <<>> THEN Zero(depth)
    ELSE IF depth = 0 THEN Leaf(leaves[1])
    ELSE LET capacity == 2^(depth - 1)
             first == IF Len(leaves) <= capacity THEN Len(leaves) ELSE capacity
         IN  Node(Create(SubSeq(leaves, 1, first), depth - 1),
                  Create(SubSeq(leaves, first + 1, Len(leaves)), depth - 1))

(***************************************************************************)
(* PushLeaf returns the tree, or the error it stopped at.                  *)
(***************************************************************************)
\* Faulty: a full left subtree fills the whole tree.
LeftIsFull_Ends(pushed) == FALSE

LeftIsFull(pushed) == pushed = [error |-> "MerkleTreeFull"]

Error(name) == [error |-> name]
Ok(after) == "error" \notin DOMAIN after
WithLeft(tree, left) == IF Ok(left) THEN Node(left, tree.right) ELSE left
WithRight(tree, right) == IF Ok(right) THEN Node(tree.left, right) ELSE right

RECURSIVE PushLeaf(_, _, _)
PushLeaf(tree, elem, depth) ==
    LET new == Create(<<elem>>, depth - 1)
        kinds == <<tree.left.kind, tree.right.kind>>
    IN  CASE depth = 0 -> Error("DepthTooSmall")
          [] depth > 0 /\ tree.kind = "leaf" -> Error("LeafReached")
          [] depth > 0 /\ tree.kind = "finalized" -> Error("FinalizedNodePushed")
          [] depth > 0 /\ tree.kind = "zero" -> Create(<<elem>>, depth)
          [] depth > 0 /\ tree.kind = "node" ->
               CASE kinds \in {<<"leaf", "leaf">>, <<"finalized", "leaf">>} -> Error("MerkleTreeFull")
                 [] kinds \in {<<"node", "node">>, <<"finalized", "node">>} ->
                      WithRight(tree, PushLeaf(tree.right, elem, depth - 1))
                 [] kinds = <<"zero", "zero">> -> WithLeft(tree, new)
                 [] kinds \in {<<"leaf", "zero">>, <<"finalized", "zero">>} -> WithRight(tree, new)
                 [] kinds = <<"node", "zero">> ->
                      LET pushed == PushLeaf(tree.left, elem, depth - 1)
                      IN  IF LeftIsFull(pushed) THEN WithRight(tree, new) ELSE WithLeft(tree, pushed)
                 [] OTHER -> Error("Invalid")

\* The first deposits of the tree, kept as the roots of the subtrees they fill.
RECURSIVE FinalizeDeposits(_, _, _)
FinalizeDeposits(tree, deposits, level) ==
    CASE tree.kind = "finalized" -> tree
      [] tree.kind = "zero" -> Error("ZeroNodeFinalized")
      [] tree.kind = "leaf" -> IF level # 0 THEN Error("PleaseNotifyTheDevs") ELSE Finalized(tree.hash)
      [] tree.kind = "node" ->
            IF level = 0 THEN Error("PleaseNotifyTheDevs")
            ELSE IF 2^level <= deposits THEN Finalized(tree.hash)
            ELSE LET half == 2^(level - 1)
                     left == WithLeft(tree, FinalizeDeposits(tree.left, deposits, level - 1))
                 IN  IF deposits <= half \/ ~Ok(left) THEN left
                     ELSE WithRight(left, FinalizeDeposits(tree.right, deposits - half, level - 1))

RECURSIVE GetFinalizedHashes(_)
GetFinalizedHashes(tree) ==
    CASE tree.kind = "finalized" -> <<tree.hash>>
      [] tree.kind = "node" -> GetFinalizedHashes(tree.left) \o GetFinalizedHashes(tree.right)
      [] OTHER -> <<>>

RECURSIVE FromFinalizedSnapshot(_, _, _)
FromFinalizedSnapshot(branch, count, level) ==
    LET half == 2^(level - 1)
        Join(left, right) == IF ~Ok(left) THEN left ELSE IF ~Ok(right) THEN right ELSE Node(left, right)
    IN  CASE branch = <<>> -> IF count = 0 THEN Zero(level) ELSE Error("InvalidSnapshot")
          [] branch # <<>> /\ count = 2^level -> Finalized(branch[1])
          [] branch # <<>> /\ count # 2^level /\ level = 0 -> Error("InvalidSnapshot")
          [] branch # <<>> /\ count # 2^level /\ level > 0 ->
               IF count >= half
               THEN Join(Finalized(branch[1]), FromFinalizedSnapshot(Tail(branch), count - half, level - 1))
               ELSE Join(FromFinalizedSnapshot(branch, count, level - 1), Zero(level - 1))

-----------------------------------------------------------------------------
Bit(index, i) == (index \div 2^i) % 2

Branches(tree) == IF tree.kind = "zero" THEN <<Zero(tree.depth - 1), Zero(tree.depth - 1)>>
                  ELSE <<tree.left, tree.right>>

\* The hash at index and the hashes beside the way to it, from the leaf up.
RECURSIVE GenerateProof(_, _, _)
GenerateProof(tree, index, depth) ==
    IF depth = 0 THEN [leaf |-> tree.hash, proof |-> <<>>]
    ELSE IF tree.kind = "finalized" THEN Error("ProofEncounteredFinalizedNode")
    ELSE LET right == Bit(index, depth - 1) = 1
             below == GenerateProof(Branches(tree)[IF right THEN 2 ELSE 1], index, depth - 1)
         IN  IF ~Ok(below) THEN below
             ELSE [below EXCEPT !.proof = Append(@, Branches(tree)[IF right THEN 1 ELSE 2].hash)]

Sibling(index, i, root, hash) ==
    IF Bit(index, i) = 1 THEN Hash32Concat(hash, root) ELSE Hash32Concat(root, hash)

RECURSIVE RootOf(_, _, _, _)
RootOf(leaf, branch, index, i) ==
    IF i = 0 THEN leaf ELSE Sibling(index, i - 1, RootOf(leaf, branch, index, i - 1), branch[i])

MerkleRootFromBranch(leaf, branch, depth, index) == RootOf(leaf, branch, index, depth)

VerifyMerkleProof(leaf, branch, depth, index, root) ==
    Len(branch) = depth /\ MerkleRootFromBranch(leaf, branch, depth, index) = root

-----------------------------------------------------------------------------
(***************************************************************************)
(* A tree as it is filled and finalized.                                   *)
(***************************************************************************)
CONSTANT
    TreeDepth

VARIABLES
    tree,
    leaves,     \* what was pushed
    finalized   \* how many of them were finalized

tvars == <<tree, leaves, finalized>>

MTInit == tree = Zero(TreeDepth) /\ leaves = <<>> /\ finalized = 0

\* An error leaves the tree as it is.
Push ==
    LET elem == <<"leaf", Len(leaves)>>
        after == PushLeaf(tree, elem, TreeDepth)
    IN  /\ Ok(after)
        /\ tree' = after
        /\ leaves' = Append(leaves, elem)
        /\ UNCHANGED finalized

FinalizeTree(deposits) ==
    LET after == FinalizeDeposits(tree, deposits, TreeDepth)
    IN  /\ deposits \in finalized + 1..Len(leaves)
        /\ Ok(after)
        /\ tree' = after
        /\ finalized' = deposits
        /\ UNCHANGED leaves

MTNext == Push \/ \E deposits \in 1..2^TreeDepth : FinalizeTree(deposits)

-----------------------------------------------------------------------------
\* However it is filled and finalized, the tree has the root of the tree created
\* from its leaves at once, and takes a leaf as long as it is not full; what is
\* finalized can be restored from its hashes; the proof of every other leaf
\* verifies against the root, for this leaf at this index and for no other
\* (push_leaf, finalize_deposits, from_finalized_snapshot, generate_proof).
TreeIsItsLeaves ==
    /\ tree.hash = Create(leaves, TreeDepth).hash
    /\ Len(leaves) < 2^TreeDepth /\ tree.kind # "finalized" => Ok(PushLeaf(tree, <<"new">>, TreeDepth))
    /\ LET restored == FromFinalizedSnapshot(GetFinalizedHashes(tree), finalized, TreeDepth)
       IN  Ok(restored) /\ restored.hash = Create(SubSeq(leaves, 1, finalized), TreeDepth).hash
    /\ \A i \in 1..Len(leaves) :
          LET made == GenerateProof(tree, i - 1, TreeDepth)
          IN  IF ~Ok(made) THEN i <= finalized
              ELSE /\ made.leaf = leaves[i]
                   /\ \A j \in 0..(2^TreeDepth - 1), k \in 1..Len(leaves) :
                        VerifyMerkleProof(leaves[k], made.proof, TreeDepth, j, tree.hash)
                            <=> j = i - 1 /\ k = i

=============================================================================
