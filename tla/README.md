# TLA+ models of zk-symbiotic

Model-checked TLA+ specifications of the verification-and-proving core of the
zk-symbiotic bridge: the prover job orchestrator
(`src/golem-symbiotic-consensus-mpt/src/api/event_loop.rs`) and the storage proof
verifier (`src/golem-symbiotic-consensus-mpt-program/src/mpt.rs`), with the
fixed-depth Poseidon Merkle fold the verifier relies on, the persistence of
proof bundles in the Golem entity store (`golem.rs`), and the AppSource deposit
contract whose `lockedTokens` mapping the verifier proves (`app_src.rs`).

## 1. Inventory

### Components, their state and operations

| Component | Source | State | Operations |
|---|---|---|---|
| Prover job orchestrator | `event_loop.rs` | `job_id` (u64 counter), `prover_jobs: HashMap<u64, ProverJob>`, `current_slot`, `store_hash`, the job channel (`job_tx`/`job_rx`, unbounded mpsc), the detector's channels | `EventLoop::new`, `stage_transition_proof`, `handle_prover_success`, `handle_prover_failure`, `run` (a `tokio::select!` loop over the finality output and job result channels) |
| Proving task | `event_loop.rs:245-259` | the captured `job_id`, `current_slot`, inputs | calls `finality_update_job` and sends `Ok`/`Err(ProverJobError{job_id})` on `job_tx` |
| Storage proof verifier | `mpt.rs:178-276` | none between calls (pure function); in a call: the leaves pushed so far | `verify_storage_slot_proofs`: account proof, depth check, per slot mapping check + slot proof + leaf hash, fold |
| Field codec / Poseidon | `mpt.rs:99-136` | none | `poseidon_hash`, `hash_storage_slot` (address + value MSB in field one, the other 31 bytes in field two) |
| Merkle folder | `nori_hash` (not under `src/`) | none | `compute_merkle_tree_depth_and_size`, `get_merkle_zeros`, `fold_merkle_left` |
| Finality change detector | not under `src/` | its polling state | emits windows on a bounded output channel; reads pipelining hints from its stage-input channel |
| ZK prover backend | not under `src/` | — | `finality_update_job(job_id, slot, inputs)` |
| Proof bundle persistence | `golem.rs` | entities in the Golem store (data, BTL, `id`, `inputBlockNumber`, `outputBlockNumber`) | create an entity; query by block-range containment and take `entities[0]` |
| Deposit contract bindings | `app_src.rs` | `totalLocked`, `lockedTokens` mapping | `depositETH` (its Solidity source is inside the `sol!` binding), which calls the endpoint; two view functions |
| Build tooling | `bin/make.rs` ×2 | — | `build_program_with_args` |

### Interactions

The detector sends finality windows to the coordinator over a bounded mpsc
channel. `stage_transition_proof` inserts a job, spawns a proving task, and
awaits a send of the job's expected output window back to the detector
(pipelining). Proving tasks report over the unbounded job channel. The
coordinator is the only writer of the job table. Inside the ZK program the
prover runs `verify_storage_slot_proofs`, whose root commits the verified
`lockedTokens` balances of the deposit contract.

### What is hard

- Concurrent proving tasks finish in any order. The handlers look the job up
  with `unwrap`.
- The stage-input send is awaited on a bounded channel. While it waits, the
  coordinator serves neither of its channels.
- `exit(1)` on a decode error ends every other in-flight job. Nothing is
  persisted: the checkpoint is `None` (FIXME at line 108).
- No proving task has a timeout or a cancellation.
- Verifier: the order of the checks matters. The storage root is trusted only
  after the account proof. The mapping check ties the key to the address, and
  the depth is bounded before any slot is proved or hashed (the keccak-based
  account proof runs first).
- Proof store: the query names no owner and the payload is trusted, so other
  writers reach the reader, and a foreign payload that is not a bundle makes
  it panic.
- Deposit contract: the external call comes between the two writes, and the
  endpoint may re-enter or revert.

### What makes each component correct

- Orchestrator: ids 1, 2, … are never reused. Each job ends exactly once. Every
  result has its job in the table. There is one pipelining hint per job, in
  order. Every reported result is eventually handled. Every finality event is
  staged, and every success is relayed (spec §4.2).
- Verifier: soundness (a root commits only true balances, in order),
  completeness (honest inputs are accepted), and the depth bound comes before
  any slot is proved or hashed.
- Proof store: a returned bundle contains the target, and the reader does not
  panic while its own bundle for the target is live.
- Deposit contract: `totalLocked` is the sum of the balances, and each balance
  equals what its cross-chain messages credit.

## 2. Plan

Most important first:

1. **`EventLoop`** (done). The orchestrator: job table, proving tasks,
   channels, both handlers and the detector's channel ends. Its abstract spec
   is **`JobLifecycle`** (done), checked by refinement.
2. **`StorageProofVerifier`** (done), together with **`MerkleFold`** (done),
   whose operators its fold step uses.
3. **`ProofStore`** (done). Models `golem.rs`: entity creation with
   BTL expiry, the range query with its hand-built predicate, the
   `entities[0]` choice, and the panicking deserialisation.
4. **`Bridge`** (later). Composes `EventLoop` with a detector loop
   (spec-modelled as a single task). It checks whether the awaited stage send
   and a detector blocked on its full output channel can deadlock, and adds a
   restart after `exit(1)` to show which windows are lost.
5. **`DepositContract`** (done). `depositETH` from `app_src.rs`, with
   reentrant calls by the endpoint and reverts. Its abstract spec is
   **`DepositLedger`** (done), checked by refinement. Still open: composing the
   verifier over states of that contract, so that `StorageTrie` becomes a
   snapshot of `lockedTokens`.

## 3. Modules and how they map to the code

### `EventLoop.tla` (with `MCEventLoop.tla`)

| Model | Code |
|---|---|
| `job_id`, `prover_jobs` (id ↦ window), `job_chan` | the `EventLoop` fields and the job mpsc |
| `workers` (a bag of captured job ids) | spawned tasks still running |
| `coord` ∈ select / staging / exited / panicked | where the coordinator is: in `select!`, in the awaited stage send, after `exit(1)`, after an `unwrap` panic |
| `StageTransitionProof(w)` | lines 211-259: id increment, insert, spawn |
| `StageSend` | lines 261-272: the send completes when there is room, or fails at once (ignored) if the receiver is gone |
| `WorkerFinish(j)` | the spawned task: Ok with decodable or undecodable public values, or Err |
| `RecvFinalityEvent` | the empty finality branch (lines 282-284) |
| `RecvJobResult` → `HandleProverSuccess` / `HandleProverFailure` | lines 286-303, 129-188, 191-209, including the lookup panic and the `exit(1)` |
| `DetectorEmit`, `DetectorReadStage`, `DetectorCloseStage` | the detector's channel ends (spec-modelled) |
| `current_slot` (= the constant `InitialSlot`) | the field set in `new()` (lines 93-97) and never assigned again; `OutputSlot` gives each window's `expected_output_slot` |

The run loop never calls `stage_transition_proof`. The model lets the caller
invoke it with any window whenever the coordinator is in `select!`. That covers
the caller spec §4.2 describes. History variables (`staged`, `stage_log`,
`received`, `succeeded`, `failed`, `relayed`) are only read by the properties.

### `JobLifecycle.tla`

The abstract promise: `Stage` issues the next id, `Finish(j, outcome)` ends a
staged job, and `Abort(j)` ends a staged job and halts. `EventLoop` maps onto it
through `JobStatus`. A job is staged while in the table, succeeded or failed
once its handler ran, and aborted otherwise. `halted` is the process having
ended.

### `StorageProofVerifier.tla` (with `MCStorageProofVerifier.tla`)

The chain state is constant: `StateTrie` (account ↦ storage root) and
`StorageTrie` (root ↦ slot key ↦ value). `Init` picks any `ContractStorage` of
up to `MaxSlots` slots. The function then runs as `VerifyAccount`,
`CheckDepth`, one `VerifySlot` per loop iteration and `FoldRoot`, and returns.
`verify_proof` is abstracted by its soundness: a proof is the (root, key) path
it authenticates. Keccak and RLP are injective and left out.
`hash_storage_slot` keeps its two-field split, with a value scaled to two
digits in base `ValueBase`. `Fp::from_bytes` fails only when the packed bytes
reach the modulus, which 21 and 31 bytes never do, so `MerkleHashError` is
dead code. `VerifyProof` accepts a slot whose stored value equals the claimed
one, where alloy_trie refuses `Some(rlp(0))` for an absent slot; the MC's
values `{1, 2}` keep a stored 0 out, so the difference never arises.

### `MerkleFold.tla`

`Poseidon` is an injective constructor. `Zero(level)` is one constant per
level. `TreeDepth` and `PaddedSize` follow `next_power_of_two`.
`FoldMerkleLeft` folds level by level and pairs an odd last node with that
level's zero. The reference `MerkleRoot` is the recursive sparse tree that the
verifier's properties expect. `nori_hash` is not under `src/`, so the fold is
not checked on its own: both sides would be renderings of spec §4.1.

### `ProofStore.tla` (with `MCProofStore.tla`)

| Model | Code |
|---|---|
| `Bundles`, `Payloads` | `EthConsensusProofBundleAndWindow` and its JSON. A payload is the bundle it decodes to, or `Garbage` |
| `BTL` | `ETH_CONSENSUS_PROOF_BTL`, the ceil of half the TTL (lines 8-10) |
| `CreateEntity(b)` | `create_eth_consensus_proof_bundle_entity`: a payload that decodes to `b`, annotated with `b`'s window, living `BTL` blocks |
| `QueryMatches` | the query string of lines 67-71, as the store evaluates it |
| `GetEntity(t)` | `get_eth_consensus_proof_bundle_entity`: `Err` from the query, `Ok(None)` when nothing matches, otherwise any match (the store gives no order) is deserialised, and a payload that is not a bundle panics |
| `ExternalCreate`, `Tick`, `Commit` | the store (spec §6): any account may create entities with the same annotations, and an entity is removed once its block-to-live runs out |
| `Consume` | the caller takes the return value |

`own` is a history variable: the block and the bundle of each entity this writer
created. The store is not under `src/`. Its expiry and query semantics come from
spec §6.

### `DepositContract.tla` (with `MCDepositContract.tla`)

`depositETH` is split at its only external call. `DepositETH` covers the
`require`, the checked `totalLocked += msg.value` and the hand-over to the
endpoint. `SendReturns` covers the endpoint queueing the payload and the checked
`lockedTokens[msg.sender] += msg.value`. `SendReverts` is the endpoint
reverting. While it holds control, the endpoint may call `depositETH` again, so
`frames` is a call stack. Each frame keeps a snapshot that `Revert` restores,
the queued message included. A call that fails its `require` or overflows is a
transaction with no effect. `uint256` is scaled to `Word`. Events are logs and
are left out. `balance` is `address(this).balance`: `DepositETH` credits
`msg.value` (the function is payable), `endpoint.send{value: 0}` leaves it
alone, a revert restores it, and `ForceSend` puts ETH in without a call (a
`selfdestruct`; the contract has no `receive`). The model forces ETH in only
between transactions: no code reads the balance and forced ETH only raises
it. `GetTLockedBalance` and `GetUserLockedTokens` are the two view functions,
which the endpoint may call while it holds control.

### `DepositLedger.tla`

The abstract promise of the contract. Its committed state (`total`, `locked`,
`messages`) changes only by `Commit(batch)`, which applies a non-empty batch of
deposits atomically, below `Word`. `DepositContract` maps onto it through
`Committed`: while a transaction runs, that is the snapshot of its outermost
frame, so every step inside a transaction, and every revert, is a stutter. The
outermost frame's return is one `Commit` of all deposits the transaction made,
the reentrant ones included, in the order their messages were queued.

## 4. Runs

| Run | Checks | Shows |
|---|---|---|
| `event_loop` (pass) | `TypeOK`, `JobTableConsistent`, `PipeliningHint`, `ResultsHandled`, `JobLifecycleSpec` | The job table holds exactly the jobs with an outcome still to come, each once, with its own window. There is one hint per job, in order. Every queued result is handled. The loop refines `JobLifecycle`, so no `unwrap` panic happens and it stops only via the decode exit. That exit may leave other staged jobs behind: spec §4.2 makes it fatal, so the loss is not a violation. |
| `event_loop_finality` (violation) | `FinalityEventsStaged` | The finality branch drops events (finding). |
| `event_loop_relay` (violation) | `ProofMessagesRelayed` | No `ProofMessage` is ever emitted (finding). |
| `verifier` (pass) | `TypeOK`, `StorageSoundness`, `HonestAccepted`, `DepthBeforeHashing` | This covers all 270k inputs: forged account records, keys of another address, wrong values, and proofs under the other root. |
| `verifier_bridge` (violation) | `RootBindsBridgeContract` | A proof about the other account's storage is accepted, and the root does not name the contract (spec gap). |
| `proof_store_covers` (violation) | `FoundBundleCovers` | Another account's entity, annotated to contain the target but carrying another window, is returned for the target (finding). |
| `proof_store_panic` (violation) | `LiveBundleNeverPanics` | Another account's non-JSON entity matching the target panics the reader while this writer's own bundle for the target is live (finding). |
| `deposit_contract` (pass) | `LockedBacked`, `DepositLedgerSpec` | `depositETH` refines `DepositLedger`. Each transaction commits as one batch of deposits. Each deposit raises `totalLocked` and its sender's `lockedTokens` by its amount and queues exactly one message, in order. This holds through reentrant deposits, inner and outer reverts, and overflow. In every state, including reads from inside `endpoint.send`, `getTLockedBalance()` ≥ `totalLocked` ≥ the sum of `getUserLockedTokens`. |
| `event_loop_slot` (violation) | `CurrentSlotIsHead` | After a proof for a window ending at slot 1 is handled as a success, `current_slot`, documented as the finalized slot head and handed to every later proving task, is still the initial slot 0 (finding). |

Each property of a passing run has a mutant in `PROJECT.json`: a plausible bug
in the mapped code that TLC finds. Examples: removing `self.job_id` instead of
`err.job_id`, a `try_send`, a send that waits on a closed receiver, a task that
reports twice, a dropped mapping check, `>=` in the depth check, skipping the
depth check, a verified slot whose leaf is not pushed, an unbounded stage
channel, a balance read before the external call and written back after it, and `endpoint.send{value: msg.value}` forwarding the
deposit.

### Bounds

- Event loop: `MaxJobs = 3` and two windows. This allows three jobs in flight,
  results out of order, an overwritten entry being visible, and the hint
  channel (`StageCap = 1`) filling up. With `MaxEvents = 1` and `OutCap = 1`,
  the finality branch fires. About 213k states.
- Verifier: two accounts with different storage roots, and two users whose
  balances differ by user and by root. Every forgery therefore changes a leaf.
  `MaxSlots = 3` with `MAX_TREE_DEPTH = 1` covers depths 0 and 1 and one depth
  that is too large. About 611k states.

- Proof store: block numbers 0..1, TTL = 2 (even, like the code's 86400, so
  `BTL = 1`), four blocks, and three entities. That is enough for an own
  bundle beside a foreign one and for expiry; both runs find their violation
  within four steps.
- Deposit contract: two users plus the endpoint, amounts 0..2, `Word = 5` (so
  totals overflow and one transaction can make up to four deposits), four
  transactions and nested frames up to depth 3; forced ETH up to a balance of
  `Word - 1`, so the balance exceeds `totalLocked`. About 9.6k states; the
  refinement check enumerates batches of up to `Word - 1` deposits. This
  covers reentrant deposits by the endpoint inside its own deposit, which is
  where a stale read would lose one.

### Fairness

- Weak fairness on both `select!` branches: tokio polls ready branches in
  random order, so a continuously ready channel is served.
- Weak fairness on `StageSend`: the send completes once there is room.
- Weak fairness on the detector reading its inbox. This is an assumption about
  code outside `src/` (spec §4.2: the detector uses the hint).
- None on proving tasks: the code has no timeout, and a prover may never
  return. Spec §5 and §9 say so, so no property claims that every job ends.
- The weak fairness on the detector's reads rules out a mutual wait in which
  the detector is itself blocked on its full output channel while the
  coordinator awaits the stage send. `ResultsHandled` therefore checks that
  the coordinator handles results whenever the detector drains its inbox, and
  that a send to a dropped receiver fails at once; the mutual wait depends on
  the detector's code, which is not under `src/`.
- `ProofStore` and `DepositContract` check safety only and assume no fairness.
  Their steps are calls by external actors, and nothing in the code obliges
  those actors to act.

## 5. Not modelled

- Golem store internals (how it orders query results, how expiry is applied
  within a block): modelled only as spec §6 describes them. Lifetimes are
  counted in blocks, and the conversion from blocks to hours is not modelled.
- Deposit contract: the `ETHDeposited`/`TokensLocked` events (logs), and the
  ETH of the callers (they are assumed to hold what they send).
- Build scripts: no behaviour.
- The detector's internals and the prover: outside `src/`.
- What the prover does with the stale `current_slot` and `store_hash`: the
  prover is not under `src/`. `event_loop_slot` shows only that the value
  handed to it stops being the finalized head its doc comment promises.
- Restart after `exit(1)`: nothing is persisted, and the detector is started
  with checkpoint `None` (FIXME, line 108). A restart is a fresh `EventLoop::new`
  from the latest finalized slot, which `Init` already covers. Which windows a
  restart skips depends on the detector, which is not under `src/`, and on a
  finality branch that stages nothing today (finding).
- Verifier over states of the deposit contract: the verifier run already
  covers every input against tries whose balances differ by user and by root.
  Deriving those tries from reachable `DepositContract` states would check the
  same properties on fewer tries.
- Elapsed-time measurement and logging: they affect no state.
