--------------------------- MODULE AssertionProof ---------------------------
(***************************************************************************)
(* The proof that an OK answer of the kernel carries (kernel.rs,           *)
(* build_proof): a Merkle tree over the hashes of the verified assertions, *)
(* its root and, for every assertion, the siblings on its way to the root. *)
(* A level with an odd number of nodes pairs its last node with itself.    *)
(*                                                                         *)
(* Digests are symbolic: SHA-256 is taken to be injective, a digest is     *)
(* what was hashed.  Indices count from one.                               *)
(***************************************************************************)
EXTENDS RmvmKernel

Leaf(a) == [leaf |-> a]
NoLeaves == [leaf |-> "empty"]

Leaves(list) == [i \in DOMAIN list |-> Leaf(list[i])]

\* hash_pair
HashPair(l, r) == [left |-> l, right |-> r]

NodeOrLast(level, i) == level[IF i <= Len(level) THEN i ELSE Len(level)]

Parents(level) ==
    [i \in 1..((Len(level) + 1) \div 2) |-> HashPair(level[2 * i - 1], NodeOrLast(level, 2 * i))]

\* Level k, counted from the leaves; of n leaves there are n levels at most.
Levels(leaves) ==
    LET level[k \in 0..Len(leaves)] == IF k = 0 THEN leaves ELSE Parents(level[k - 1])
    IN  level

\* The loop ends at the first level of one node.
Height(leaves) ==
    CHOOSE h \in 0..Len(leaves) :
        /\ Len(Levels(leaves)[h]) = 1
        /\ \A lower \in 0..(h - 1) : Len(Levels(leaves)[lower]) > 1

\* merkle_root_and_inclusion
SemanticRoot(leaves) ==
    IF leaves = <<>> THEN NoLeaves ELSE Levels(leaves)[Height(leaves)][1]

\* Where leaf i's ancestor is on each of h levels (cur).
Ancestors(i, h) ==
    LET cur[k \in 0..h] == IF k = 0 THEN i ELSE (cur[k - 1] + 1) \div 2
    IN  cur

\* Mutant: the last node of an odd level takes the node before it.
MutSibling(level, cur) ==
    IF cur % 2 = 1 /\ cur < Len(level) THEN level[cur + 1] ELSE level[IF cur = 1 THEN 1 ELSE cur - 1]

Sibling(level, cur) == IF cur % 2 = 1 THEN NodeOrLast(level, cur + 1) ELSE level[cur - 1]

Inclusion(leaves) ==
    LET h == Height(leaves) IN
    [i \in DOMAIN leaves |->
        [k \in 1..h |-> Sibling(Levels(leaves)[k - 1], Ancestors(i, h)[k - 1])]]

-----------------------------------------------------------------------------
\* Properties

\* What a client computes from a leaf, its index and its siblings: reference
\* definition, the repository has no verifier.
Recomputed(leaf, i, siblings) ==
    LET cur == Ancestors(i, Len(siblings))
        node[k \in 0..Len(siblings)] ==
            IF k = 0 THEN leaf
            ELSE IF cur[k - 1] % 2 = 1 THEN HashPair(node[k - 1], siblings[k])
            ELSE HashPair(siblings[k], node[k - 1])
    IN  node[Len(siblings)]

\* Whatever the number of assertions, and whether or not some are equal: the
\* inclusion proof at each index leads from the assertion at that index to the
\* root, and from no other assertion of the answer.
InclusionProves ==
    response.status = "OK" =>
        LET leaves == Leaves(response.assertions)
            root == SemanticRoot(leaves)
            proofs == Inclusion(leaves)
        IN  \A i \in DOMAIN leaves, j \in DOMAIN leaves :
                (Recomputed(leaves[j], i, proofs[i]) = root) <=> (leaves[j] = leaves[i])

=============================================================================
