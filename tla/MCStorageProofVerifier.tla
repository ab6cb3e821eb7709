----------------------- MODULE MCStorageProofVerifier -----------------------
(* Chain state for StorageProofVerifier: the contract c and another       *)
(* account o have different storage roots, and the two users' balances    *)
(* differ between the roots and between the users, so that every forged   *)
(* input differs from the truth in the leaves it would commit.             *)
EXTENDS StorageProofVerifier, TLC

CONSTANTS c, o, u1, u2, r1, r2

MCAccounts == {c, o}
MCUsers == {u1, u2}
MCRoots == {r1, r2}
MCStateTrie == (c :> r1) @@ (o :> r2)
MCStorageTrie ==
    (r1 :> ((SlotKey(u1) :> 2) @@ (SlotKey(u2) :> 1))) @@
    (r2 :> ((SlotKey(u1) :> 1) @@ (SlotKey(u2) :> 2)))
=============================================================================
