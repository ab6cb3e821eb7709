---------------------------- MODULE MCProofStore ----------------------------
(* ProofStore over block numbers 0..1, a record TTL of 3 blocks (an odd   *)
(* TTL, where the ceil of the block-to-live matters) and three entities.   *)
EXTENDS ProofStore

MCBlocks == 0..1
====
