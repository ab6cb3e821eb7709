------------------------- MODULE StorageProofVerifier -------------------------
(***************************************************************************)
(* verify_storage_slot_proofs and hash_storage_slot                         *)
(* (src/golem-symbiotic-consensus-mpt-program/src/mpt.rs).                  *)
(*                                                                         *)
(* The state trie at the execution state root and the storage tries are    *)
(* constants (the chain state the proofs are about); one ContractStorage   *)
(* input is chosen in Init and the function runs step by step: the account *)
(* proof, the depth check, one step per storage slot (address mapping,     *)
(* slot proof, leaf hash) and the final fold.                              *)
(*                                                                         *)
(* Keccak path hashing and RLP encoding are injective and left out: a      *)
(* trie is keyed by the address or slot key itself.  alloy_trie's          *)
(* verify_proof is abstracted by its soundness: a proof is the path it     *)
(* authenticates, and it verifies a value only when it is the proof of     *)
(* that key under that root and the trie holds exactly that value there.   *)
(***************************************************************************)
EXTENDS Naturals, Sequences, MerkleFold

CONSTANTS
    ExecRoot,       \* execution_state_root
    Accounts,       \* account addresses of the state trie
    Users,          \* depositors: the keys of the lockedTokens mapping
    Roots,          \* storage roots
    Values,         \* slot values (U256, scaled)
    ValueBase,      \* the scaled byte: a value is two digits in this base
    StateTrie,      \* StateTrie[a]: storage_root of account a's TrieAccount
    StorageTrie,    \* StorageTrie[r][k]: the value at slot key k under root r
    MaxSlots,       \* bound on the number of storage slots of an input
    MAX_TREE_DEPTH, \* nori_hash's maximum Merkle depth (scaled)
    BridgeContract  \* the AppSource deployment whose lockedTokens the bridge trusts

(* get_storage_location_for_key(address, SOURCE_CONTRACT_LOCKED_TOKENS_   *)
(* STORAGE_INDEX): the slot of lockedTokens[address]; injective.          *)
SlotKey(u) == <<"slot", u>>

Keys == {SlotKey(u) : u \in Users}

ASSUME /\ BridgeContract \in Accounts
       /\ StateTrie \in [Accounts -> Roots]
       /\ StorageTrie \in [Roots -> [Keys -> Values]]
       /\ Values \subseteq 0..(ValueBase * ValueBase - 1)

(* An MPT proof, identified with the (root, key) path it authenticates.  *)
Proof(root, key) == [root |-> root, key |-> key]

(* proof::verify_proof(root, key, Some(expected), proof).                *)
VerifyProof(root, trie, key, expected, proof) ==
    /\ proof = Proof(root, key)
    /\ key \in DOMAIN trie
    /\ trie[key] = expected

(* The inputs a caller can hand in: ContractStorage and its StorageSlots. *)
StorageSlot ==
    [key: Keys, expected_value: Values, slot_key_address: Users,
     mpt_proof: {Proof(r, k) : r \in Roots, k \in Keys}]

ContractStorage ==
    [address: Accounts, mpt_proof: {Proof(ExecRoot, a) : a \in Accounts},
     expected_value: [storage_root: Roots],
     storage_slots: UNION {[1..n -> StorageSlot] : n \in 0..MaxSlots}]

-----------------------------------------------------------------------------
(* hash_storage_slot(address, value): field one packs the address and the *)
(* value's most significant byte, field two the remaining bytes; each is  *)
(* read with Fp::from_bytes, which fails only for an integer at or above  *)
(* the field modulus (a 255-bit prime above 2^254): 21 and 31 significant bytes never  *)
(* do.                                                                     *)
FirstFieldBytes == 20 + 1
SecondFieldBytes == 31
FromBytesFails == \E n \in {FirstFieldBytes, SecondFieldBytes} : 8 * n >= 254
FirstField(address, value) == <<address, value \div ValueBase>>
SecondField(value) == <<value % ValueBase>>
HashStorageSlot(address, value) ==
    Poseidon(<<FirstField(address, value), SecondField(value)>>)

VARIABLES
    input,         \* the ContractStorage argument
    pc,            \* "account", "depth", "slots", "done"
    i,             \* index of the next storage slot
    merkle_nodes,  \* the leaves hashed so far
    result         \* NoResult, an Ok root or an MptError

vars == <<input, pc, i, merkle_nodes, result>>

NoResult == [kind |-> "none"]
Ok(root) == [kind |-> "Ok", root |-> root]
Err(kind) == [kind |-> kind]

N == Len(input.storage_slots)

Init ==
    /\ input \in ContractStorage
    /\ pc = "account"
    /\ i = 1
    /\ merkle_nodes = << >>
    /\ result = NoResult

(* Mutation of VerifyAccount: goes straight to the slot loop, the depth   *)
(* check left out.                                                         *)
VerifyAccountSkipsDepth ==
    /\ pc = "account"
    /\ IF VerifyProof(ExecRoot, [a \in Accounts |-> [storage_root |-> StateTrie[a]]],
                      input.address, input.expected_value, input.mpt_proof)
       THEN pc' = "slots" /\ UNCHANGED result
       ELSE pc' = "done" /\ result' = Err("InvalidAccountProof")
    /\ UNCHANGED <<input, i, merkle_nodes>>

(* Step 1: the claimed TrieAccount is at the address in the state trie.  *)
VerifyAccount ==
    /\ pc = "account"
    /\ IF VerifyProof(ExecRoot, [a \in Accounts |-> [storage_root |-> StateTrie[a]]],
                      input.address, input.expected_value, input.mpt_proof)
       THEN pc' = "depth" /\ UNCHANGED result
       ELSE pc' = "done" /\ result' = Err("InvalidAccountProof")
    /\ UNCHANGED <<input, i, merkle_nodes>>

(* Mutation of CheckDepth: refuses a tree of exactly MAX_TREE_DEPTH.     *)
CheckDepthOffByOne ==
    /\ pc = "depth"
    /\ IF TreeDepth(N) >= MAX_TREE_DEPTH
       THEN pc' = "done" /\ result' = Err("ExceedsMaxTreeDepth")
       ELSE pc' = "slots" /\ UNCHANGED result
    /\ UNCHANGED <<input, i, merkle_nodes>>

(* compute_merkle_tree_depth_and_size and the MAX_TREE_DEPTH check, before *)
(* any slot is looked at.                                                  *)
CheckDepth ==
    /\ pc = "depth"
    /\ IF TreeDepth(N) > MAX_TREE_DEPTH
       THEN pc' = "done" /\ result' = Err("ExceedsMaxTreeDepth")
       ELSE pc' = "slots" /\ UNCHANGED result
    /\ UNCHANGED <<input, i, merkle_nodes>>

(* Mutation of VerifySlot: the address-to-slot-key mapping is not        *)
(* checked.                                                                *)
VerifySlotNoMapping ==
    /\ pc = "slots"
    /\ i <= N
    /\ LET slot == input.storage_slots[i]
           storage_root == input.expected_value.storage_root
       IN IF ~VerifyProof(storage_root, StorageTrie[storage_root],
                          slot.key, slot.expected_value, slot.mpt_proof)
          THEN /\ pc' = "done" /\ result' = Err("InvalidStorageSlotProof")
               /\ UNCHANGED <<i, merkle_nodes>>
          ELSE /\ merkle_nodes' = Append(merkle_nodes,
                      HashStorageSlot(slot.slot_key_address, slot.expected_value))
               /\ i' = i + 1
               /\ UNCHANGED <<pc, result>>
    /\ UNCHANGED input

(* Mutation of VerifySlot: the verified leaf is not pushed.              *)
VerifySlotSkipsLeaf ==
    /\ pc = "slots"
    /\ i <= N
    /\ LET slot == input.storage_slots[i]
           storage_root == input.expected_value.storage_root
       IN IF SlotKey(slot.slot_key_address) # slot.key
          THEN /\ pc' = "done" /\ result' = Err("InvalidStorageSlotAddressMapping")
               /\ UNCHANGED <<i, merkle_nodes>>
          ELSE IF ~VerifyProof(storage_root, StorageTrie[storage_root],
                               slot.key, slot.expected_value, slot.mpt_proof)
          THEN /\ pc' = "done" /\ result' = Err("InvalidStorageSlotProof")
               /\ UNCHANGED <<i, merkle_nodes>>
          ELSE /\ i' = i + 1
               /\ UNCHANGED <<pc, result, merkle_nodes>>
    /\ UNCHANGED input

(* One iteration of the slot loop: the slot key must be the mapping slot  *)
(* of slot_key_address, the value must be proved under the storage root   *)
(* of the account verified in step 1, then the leaf is hashed and pushed. *)
VerifySlot ==
    /\ pc = "slots"
    /\ i <= N
    /\ LET slot == input.storage_slots[i]
           storage_root == input.expected_value.storage_root
           Return(kind) == /\ pc' = "done" /\ result' = Err(kind)
                           /\ UNCHANGED <<i, merkle_nodes>>
       IN IF SlotKey(slot.slot_key_address) # slot.key
          THEN Return("InvalidStorageSlotAddressMapping")
          ELSE IF ~VerifyProof(storage_root, StorageTrie[storage_root],
                               slot.key, slot.expected_value, slot.mpt_proof)
          THEN Return("InvalidStorageSlotProof")
          ELSE IF FromBytesFails
          THEN Return("MerkleHashError")
          ELSE /\ merkle_nodes' = Append(merkle_nodes,
                      HashStorageSlot(slot.slot_key_address, slot.expected_value))
               /\ i' = i + 1
               /\ UNCHANGED <<pc, result>>
    /\ UNCHANGED input

(* After the loop: fold the leaves and return the root.                   *)
FoldRoot ==
    /\ pc = "slots"
    /\ i > N
    /\ result' = Ok(FoldMerkleLeft(merkle_nodes, TreeDepth(N)))
    /\ pc' = "done"
    /\ UNCHANGED <<input, i, merkle_nodes>>

Returned == pc = "done" /\ UNCHANGED vars

Next == VerifyAccount \/ CheckDepth \/ VerifySlot \/ FoldRoot \/ Returned

Spec == Init /\ [][Next]_vars

-----------------------------------------------------------------------------
TypeOK ==
    /\ Len(input.storage_slots) <= MaxSlots
    /\ pc \in {"account", "depth", "slots", "done"}
    /\ i \in 1..(MaxSlots + 1)
    /\ Len(merkle_nodes) = i - 1
    /\ result.kind \in {"none", "Ok", "InvalidAccountProof", "ExceedsMaxTreeDepth",
                        "InvalidStorageSlotAddressMapping", "InvalidStorageSlotProof",
                        "MerkleHashError"}

(* The value really stored for user u in the storage of the input's      *)
(* account, as the chain state at ExecRoot says.                           *)
TrueValue(u) == StorageTrie[StateTrie[input.address]][SlotKey(u)]

(* The leaves an honest prover would commit to for the input's slots.    *)
TrueLeaves == [k \in 1..N |->
    HashStorageSlot(input.storage_slots[k].slot_key_address,
                    TrueValue(input.storage_slots[k].slot_key_address))]


(* An input an honest prover builds from the chain state: the account    *)
(* proof and record of its address, slot keys that are the mapping slots   *)
(* of their addresses, the values stored there with their proofs, and no   *)
(* more slots than MAX_TREE_DEPTH allows.                                  *)
HonestInput ==
    /\ input.mpt_proof = Proof(ExecRoot, input.address)
    /\ input.expected_value.storage_root = StateTrie[input.address]
    /\ TreeDepth(N) <= MAX_TREE_DEPTH
    /\ \A k \in 1..N :
        LET slot == input.storage_slots[k] IN
        /\ slot.key = SlotKey(slot.slot_key_address)
        /\ slot.expected_value = TrueValue(slot.slot_key_address)
        /\ slot.mpt_proof = Proof(StateTrie[input.address], slot.key)

(* Soundness of verify_storage_slot_proofs (spec section 8, tamper        *)
(* sensitivity): a returned root commits, in input order, to each slot    *)
(* address paired with the balance the contract really stores for that    *)
(* address at the execution state root; a forged account record, a slot   *)
(* key of another address, a wrong value or a proof under another root    *)
(* never yields a root.                                                    *)
StorageSoundness ==
    result.kind = "Ok" => result.root = MerkleRoot(TrueLeaves, TreeDepth(N))

(* Completeness (spec section 8, round-trip): an honestly built input is  *)
(* accepted, with the root of its true leaves.                             *)
HonestAccepted ==
    (pc = "done" /\ HonestInput) => result = Ok(MerkleRoot(TrueLeaves, TreeDepth(N)))

(* Depth bound (spec section 8): an input whose slot count needs a tree   *)
(* deeper than MAX_TREE_DEPTH is refused before any leaf is hashed.        *)
DepthBeforeHashing ==
    TreeDepth(N) > MAX_TREE_DEPTH =>
        /\ merkle_nodes = << >>
        /\ result.kind \in {"none", "InvalidAccountProof", "ExceedsMaxTreeDepth"}


(* Spec sections 1 and 6: the verified facts are the lockedTokens balances *)
(* of the deposit contract.  A returned root commits to the balances the   *)
(* bridge contract stores for the slot addresses.                          *)
RootBindsBridgeContract ==
    result.kind = "Ok" =>
        result.root = MerkleRoot(
            [k \in 1..N |->
                LET u == input.storage_slots[k].slot_key_address IN
                HashStorageSlot(u, StorageTrie[StateTrie[BridgeContract]][SlotKey(u)])],
            TreeDepth(N))

=============================================================================
