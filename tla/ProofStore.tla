----------------------------- MODULE ProofStore -----------------------------
(***************************************************************************)
(* Proof bundle persistence in the Golem entity store                      *)
(* (src/golem-symbiotic-consensus-mpt/src/api/golem.rs).                   *)
(*                                                                         *)
(* create_eth_consensus_proof_bundle_entity stores a bundle as JSON with   *)
(* a block-to-live and the numeric annotations inputBlockNumber and        *)
(* outputBlockNumber; get_eth_consensus_proof_bundle_entity queries the    *)
(* store with a range predicate built as a string, takes entities[0] and   *)
(* deserialises its payload with expect.                                   *)
(*                                                                         *)
(* The store is shared: any other account may create entities with the    *)
(* same annotations and any payload (ExternalCreate), and the query names *)
(* no owner.  The store itself (expiry, query evaluation, result order)    *)
(* is not under src/ and is modelled from spec section 6: an entity lives  *)
(* for btl blocks and the query returns the live entities whose numeric   *)
(* annotations satisfy the predicate, in an order it does not specify.     *)
(* A JSON payload is abstracted to the bundle it decodes to, or Garbage.   *)
(***************************************************************************)
EXTENDS Naturals, FiniteSets, TLC

CONSTANTS
    Blocks,       \* block numbers used for windows and query targets
    TTL,          \* ETH_CONSENSUS_PROOF_TTL, scaled to blocks
    MaxBlock,     \* bound on the store's block clock
    MaxEntities,  \* bound on the entities created
    Garbage,      \* a payload that is not UTF-8 JSON of a bundle
    NoResult      \* the reader holds no return value

ASSUME /\ Blocks \subseteq Nat /\ TTL \in Nat \ {0}
       /\ MaxBlock \in Nat /\ MaxEntities \in Nat

(* EthConsensusProofBundleAndWindow: two u64 block numbers.              *)
Bundles == [input_block_number: Blocks, output_block_number: Blocks]

(* ETH_CONSENSUS_PROOF_BTL == (TTL as f64 / 2.0).ceil() as u64.          *)
BTL == (TTL + 1) \div 2

(* The payloads another writer may store.                                 *)
Payloads == Bundles \cup {Garbage}

Keys == 1..MaxEntities

VARIABLES
    now,       \* the store's current block
    store,     \* live entities: [key, input, output, data, expires]
    next_key,  \* the key the store gives the next entity
    reader,    \* "idle", "returned" or "panicked"
    result,    \* the reader's last return value
    own        \* history: key -> [at, bundle] of entities this writer created

vars == <<now, store, next_key, reader, result, own>>

(* The query string of get_eth_consensus_proof_bundle_entity, as the     *)
(* store evaluates it on an entity's numeric annotations.                  *)
QueryMatches(e, target) ==
    /\ e.input < target \/ e.input = target
    /\ e.output > target \/ e.output = target

(* Range containment, input <= target <= output (spec section 6).        *)
Covers(b, target) ==
    b.input_block_number <= target /\ target <= b.output_block_number

Init ==
    /\ now = 0
    /\ store = {}
    /\ next_key = 1
    /\ reader = "idle"
    /\ result = NoResult
    /\ own = [k \in {} |-> 0]

(* The store commits one entity created at the current block.            *)
Commit(input, output, data, btl) ==
    /\ next_key <= MaxEntities
    /\ store' = store \cup {[key |-> next_key, input |-> input, output |-> output,
                             data |-> data, expires |-> now + btl]}
    /\ next_key' = next_key + 1

(* create_eth_consensus_proof_bundle_entity(bundle): the JSON payload     *)
(* decodes to the bundle itself, annotated with its own window.  When     *)
(* create_entities fails nothing is stored, a step the model omits.        *)
CreateEntity(b) ==
    /\ Commit(b.input_block_number, b.output_block_number, b, BTL)
    /\ own' = own @@ (next_key :> [at |-> now, bundle |-> b])
    /\ UNCHANGED <<now, reader, result>>

(* Another account creates an entity with these annotations and any      *)
(* payload (its block-to-live is taken to be the same).                    *)
ExternalCreate(input, output, data) ==
    /\ Commit(input, output, data, BTL)
    /\ UNCHANGED <<now, reader, result, own>>

(* A new block: entities whose block-to-live has run out are removed.    *)
Tick ==
    /\ now < MaxBlock
    /\ now' = now + 1
    /\ store' = {e \in store : e.expires > now + 1}
    /\ UNCHANGED <<next_key, reader, result, own>>

(* get_eth_consensus_proof_bundle_entity(target): query_entities may fail *)
(* (`?`); an empty result is Ok(None); otherwise entities[0], any of the  *)
(* matches, is deserialised, and a payload that is not a bundle panics.    *)
GetEntity(target) ==
    /\ reader = "idle"
    /\ LET matching == {e \in store : QueryMatches(e, target)}
       IN \/ /\ result' = [target |-> target, kind |-> "err"]
             /\ reader' = "returned"
          \/ /\ matching = {}
             /\ result' = [target |-> target, kind |-> "none"]
             /\ reader' = "returned"
          \/ \E e \in matching :
                IF e.data = Garbage
                THEN /\ result' = [target |-> target, kind |-> "panic"]
                     /\ reader' = "panicked"
                ELSE /\ result' = [target |-> target, kind |-> "some", bundle |-> e.data]
                     /\ reader' = "returned"
    /\ UNCHANGED <<now, store, next_key, own>>

(* The caller takes the return value and may query again.                *)
Consume ==
    /\ reader = "returned"
    /\ reader' = "idle"
    /\ result' = NoResult
    /\ UNCHANGED <<now, store, next_key, own>>

(* The reader has panicked and the store has reached its bounds.         *)
Halted ==
    /\ reader = "panicked"
    /\ now = MaxBlock
    /\ next_key > MaxEntities
    /\ UNCHANGED vars

Next ==
    \/ \E b \in Bundles : CreateEntity(b)
    \/ \E i, o \in Blocks, d \in Payloads : ExternalCreate(i, o, d)
    \/ Tick
    \/ \E t \in Blocks : GetEntity(t)
    \/ Consume
    \/ Halted

Spec == Init /\ [][Next]_vars

-----------------------------------------------------------------------------
(* A bundle this writer stored less than half the record TTL ago.        *)
RetainedOwn(target) ==
    \E k \in DOMAIN own : /\ Covers(own[k].bundle, target)
                          /\ 2 * (now - own[k].at) < TTL

(* A step of the reader that returns Ok(Some(bundle)) for target.        *)
ReturnsSome(target) ==
    /\ reader = "idle" /\ reader' = "returned"
    /\ result'.kind = "some" /\ result'.target = target

(* The doc comment of get_eth_consensus_proof_bundle_entity: the bundle   *)
(* returned matches the target block, i.e. its window contains it.        *)
FoundBundleCovers ==
    [][\A t \in Blocks : ReturnsSome(t) => Covers(result'.bundle, t)]_vars

(* deserialise_eth_consensus_proof_bundle asserts with expect that the   *)
(* payload it is given is UTF-8 JSON of a bundle: the reader does not      *)
(* panic on a target while a bundle this writer stored for it in the last  *)
(* TTL/2 blocks is live.                                                   *)
LiveBundleNeverPanics ==
    reader = "panicked" => ~RetainedOwn(result.target)
====
