----------------------------- MODULE MerkleFold -----------------------------
(***************************************************************************)
(* The fixed-depth Poseidon Merkle aggregation the storage verifier uses   *)
(* (nori_hash::merkle_poseidon_fixed, not under src/; modelled from spec  *)
(* section 4.1 steps 2 and 4): the depth and padded size derived from the  *)
(* slot count, the per-level zero constants, and the left-to-right fold.   *)
(* The sponge hash is abstracted to an injective constructor: distinct     *)
(* inputs give distinct digests (collision resistance).                    *)
(***************************************************************************)
EXTENDS Naturals, Sequences

(* poseidon_hash(input): absorb the field elements, squeeze one digest.  *)
Poseidon(input) == <<"poseidon", input>>

(* get_merkle_zeros()[level]: one fixed constant per level, distinct from *)
(* every leaf and from the hash of two lower-level zeros.                  *)
Zero(level) == <<"zero", level>>

RECURSIVE Log2Ceil(_)
(* The least d with 2^d >= n (0 for n <= 1).                              *)
Log2Ceil(n) == IF n <= 1 THEN 0 ELSE 1 + Log2Ceil((n + 1) \div 2)

(* compute_merkle_tree_depth_and_size(n): padded_size is                 *)
(* next_power_of_two(n) (1 for n = 0) and depth = log2(padded_size).      *)
TreeDepth(n) == Log2Ceil(n)
PaddedSize(n) == 2 ^ TreeDepth(n)

(* One level of fold_merkle_left: pair the nodes left to right; an odd    *)
(* last node is paired with the zero constant of this level.              *)
FoldLevel(nodes, level) ==
    [i \in 1..((Len(nodes) + 1) \div 2) |->
        Poseidon(<<nodes[2 * i - 1],
                   IF 2 * i <= Len(nodes) THEN nodes[2 * i] ELSE Zero(level)>>)]

RECURSIVE FoldFrom(_, _, _)
FoldFrom(nodes, level, depth) ==
    IF level = depth
    THEN IF nodes = << >> THEN Zero(level) ELSE nodes[1]
    ELSE FoldFrom(FoldLevel(nodes, level), level + 1, depth)

(* fold_merkle_left(nodes, padded_size, depth, zeros): the root after     *)
(* depth levels of folding.                                                *)
FoldMerkleLeft(nodes, depth) == FoldFrom(nodes, 0, depth)

(* Reference definition of the root of a sparse fixed-depth Merkle tree,  *)
(* the root the storage verifier's properties expect:                     *)
(* the subtree of height h whose leftmost leaf is at position offset;     *)
(* a subtree holding no leaf is the zero constant of its height.          *)
RECURSIVE SubtreeRoot(_, _, _)
SubtreeRoot(leaves, h, offset) ==
    IF offset >= Len(leaves) THEN Zero(h)
    ELSE IF h = 0 THEN leaves[offset + 1]
    ELSE Poseidon(<<SubtreeRoot(leaves, h - 1, offset),
                    SubtreeRoot(leaves, h - 1, offset + 2 ^ (h - 1))>>)

MerkleRoot(leaves, depth) == SubtreeRoot(leaves, depth, 0)
=============================================================================
