--------------------------- MODULE DepositContract ---------------------------
(***************************************************************************)
(* The AppSource deposit contract whose lockedTokens mapping the storage   *)
(* proof verifier reads                                                    *)
(* (src/golem-symbiotic-app-source-contract-bindings/src/app_src.rs).      *)
(*                                                                         *)
(* depositETH runs as one EVM call frame up to its external call,          *)
(* endpoint.send, and as a second step from the call's return to the end   *)
(* of the function.  endpoint is an arbitrary contract fixed at            *)
(* construction: while it holds control it may call depositETH again       *)
(* (msg.sender = endpoint), return a guid, or revert.  A revert undoes     *)
(* every write of its frame, the message the endpoint queued included.     *)
(* uint256 is scaled to Word; Solidity 0.8 arithmetic reverts on overflow. *)
(* Events are logs and are left out; the cross-chain payload the endpoint  *)
(* queues, abi.encode(msg.sender, msg.value), is kept as outbox.  The      *)
(* contract's ETH balance is kept: depositETH is payable, endpoint.send is *)
(* called with value 0, and ETH can also be forced in without a call.     *)
(***************************************************************************)
EXTENDS Naturals, SequencesExt

CONSTANTS
    Users,     \* externally owned accounts that deposit
    Endpoint,  \* the IEndpointV2 address given to the constructor
    Amounts,   \* msg.value choices
    Word,      \* 2^256, scaled
    MaxTx,     \* bound on top-level transactions
    MaxDepth   \* bound on nested depositETH frames

ASSUME /\ Endpoint \notin Users
       /\ Amounts \subseteq Nat /\ Word \in Nat \ {0}

Senders == Users \cup {Endpoint}

VARIABLES
    totalLocked,   \* AppSource.totalLocked
    lockedTokens,  \* AppSource.lockedTokens: sender -> amount
    outbox,        \* payloads endpoint.send has queued, in order
    frames,        \* depositETH call frames awaiting endpoint.send, innermost last
    txs,           \* top-level transactions started
    balance        \* address(this).balance

vars == <<totalLocked, lockedTokens, outbox, frames, txs, balance>>

Init ==
    /\ totalLocked = 0
    /\ lockedTokens = [s \in Senders |-> 0]
    /\ outbox = << >>
    /\ frames = << >>
    /\ txs = 0
    /\ balance = 0

(* Who may call depositETH now: any account when no transaction is       *)
(* running, only the endpoint while it holds control.                     *)
MayCall(sender) ==
    IF frames = << >> THEN txs < MaxTx
    ELSE sender = Endpoint /\ Len(frames) < MaxDepth

(* depositETH up to endpoint.send: msg.value is credited to the contract, *)
(* require(msg.value > 0), the checked totalLocked += msg.value, then      *)
(* control passes to the endpoint.  A call that fails the require or       *)
(* overflows reverts with no effect, the value transfer included.          *)
DepositETH(sender, value) ==
    /\ MayCall(sender)
    /\ IF value > 0 /\ totalLocked + value < Word
       THEN /\ frames' = Append(frames, [sender |-> sender, value |-> value,
                                        snapshot |-> [total |-> totalLocked,
                                                      locked |-> lockedTokens,
                                                      outbox |-> outbox,
                                                      balance |-> balance]])
            /\ totalLocked' = totalLocked + value
            /\ balance' = balance + value
       ELSE UNCHANGED <<frames, totalLocked, balance>>
    /\ txs' = IF frames = << >> THEN txs + 1 ELSE txs
    /\ UNCHANGED <<lockedTokens, outbox>>

(* The innermost frame reverts: its writes are undone.                    *)
Revert(f) ==
    /\ totalLocked' = f.snapshot.total
    /\ lockedTokens' = f.snapshot.locked
    /\ outbox' = f.snapshot.outbox
    /\ balance' = f.snapshot.balance
    /\ frames' = Front(frames)

(* Mutation of SendReturns: the balance is read before the external call *)
(* and written back after it.                                              *)
SendReturnsStaleRead ==
    /\ frames # << >>
    /\ LET f == Last(frames)
           locked == f.snapshot.locked[f.sender] + f.value
       IN IF locked >= Word THEN Revert(f)
          ELSE /\ outbox' = Append(outbox, [user |-> f.sender, amount |-> f.value])
               /\ lockedTokens' = [lockedTokens EXCEPT ![f.sender] = locked]
               /\ frames' = Front(frames)
               /\ UNCHANGED <<totalLocked, balance>>
    /\ UNCHANGED txs

(* Mutation of SendReturns: endpoint.send{value: msg.value} forwards the *)
(* deposit to the endpoint.                                                *)
SendForwardsValue ==
    /\ frames # << >>
    /\ LET f == Last(frames)
           locked == lockedTokens[f.sender] + f.value
       IN IF locked >= Word THEN Revert(f)
          ELSE /\ outbox' = Append(outbox, [user |-> f.sender, amount |-> f.value])
               /\ lockedTokens' = [lockedTokens EXCEPT ![f.sender] = locked]
               /\ frames' = Front(frames)
               /\ balance' = balance - f.value
               /\ UNCHANGED totalLocked
    /\ UNCHANGED txs

(* endpoint.send queues the payload and returns its guid; depositETH then *)
(* does the checked lockedTokens[msg.sender] += msg.value and returns.     *)
SendReturns ==
    /\ frames # << >>
    /\ LET f == Last(frames)
           locked == lockedTokens[f.sender] + f.value
       IN IF locked >= Word THEN Revert(f)
          ELSE /\ outbox' = Append(outbox, [user |-> f.sender, amount |-> f.value])
               /\ lockedTokens' = [lockedTokens EXCEPT ![f.sender] = locked]
               /\ frames' = Front(frames)
               /\ UNCHANGED <<totalLocked, balance>>
    /\ UNCHANGED txs

(* endpoint.send reverts, and depositETH with it.                         *)
SendReverts ==
    /\ frames # << >>
    /\ Revert(Last(frames))
    /\ UNCHANGED txs

(* ETH arrives without a call to depositETH (a selfdestruct naming the     *)
(* contract, or a block reward); AppSource has no receive or fallback, so *)
(* this is the only other way in.  No code reads the balance and forced   *)
(* ETH only raises it, so the model forces ETH in between transactions     *)
(* only, and only while the balance stays below Word.                      *)
ForceSend(value) ==
    /\ frames = << >>
    /\ value > 0
    /\ balance + value < Word
    /\ balance' = balance + value
    /\ UNCHANGED <<totalLocked, lockedTokens, outbox, frames, txs>>

(* getTLockedBalance() and getUserLockedTokens(user), the view functions; *)
(* the endpoint may call them while it holds control.                      *)
GetTLockedBalance == balance

GetUserLockedTokens(user) == lockedTokens[user]

(* Every transaction has run and none is in progress.                     *)
Terminated ==
    /\ frames = << >>
    /\ txs = MaxTx
    /\ UNCHANGED vars

Next ==
    \/ \E s \in Senders, v \in Amounts : DepositETH(s, v)
    \/ SendReturns
    \/ SendReverts
    \/ \E v \in Amounts : ForceSend(v)
    \/ Terminated

Spec == Init /\ [][Next]_vars

-----------------------------------------------------------------------------
(* The state other transactions and the storage proofs see: while a      *)
(* transaction runs, the state from before its outermost frame.            *)
Committed ==
    IF frames = << >>
    THEN [total |-> totalLocked, locked |-> lockedTokens, outbox |-> outbox,
          balance |-> balance]
    ELSE frames[1].snapshot

(* A transaction makes at most Word - 1 deposits: each adds at least 1 to *)
(* totalLocked, which stays below Word.                                    *)
Ledger == INSTANCE DepositLedger
              WITH Senders <- Senders, MaxBatch <- Word - 1,
                   total <- Committed.total, locked <- Committed.locked,
                   messages <- Committed.outbox

(* depositETH implements DepositLedger: whatever the endpoint does while  *)
(* it holds control (call depositETH again, return, revert), each         *)
(* transaction commits as one batch of deposits, each raising totalLocked *)
(* and its sender's lockedTokens by its amount and queueing its message.   *)
(* The destination chain therefore mints exactly what the storage proof    *)
(* will show locked.                                                       *)
DepositLedgerSpec == Ledger!Spec

(* What the view functions return is backed at every point, also when the *)
(* endpoint calls them from inside endpoint.send, between the two writes  *)
(* of depositETH and across nested reverts: getTLockedBalance() covers    *)
(* totalLocked, which covers the sum of getUserLockedTokens over all       *)
(* depositors.                                                             *)
LockedBacked ==
    /\ GetTLockedBalance >= totalLocked
    /\ totalLocked >= MapThenSumSet(GetUserLockedTokens, Senders)
====
