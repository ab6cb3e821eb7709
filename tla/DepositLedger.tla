---------------------------- MODULE DepositLedger ----------------------------
(***************************************************************************)
(* What the AppSource deposit contract promises the bridge: its committed  *)
(* state changes only by whole transactions, and a transaction is a batch  *)
(* of deposits, each of which raises the total and the depositor's         *)
(* balance by its amount and queues exactly one cross-chain message for    *)
(* it, in order.  A failed transaction changes nothing.                     *)
(***************************************************************************)
EXTENDS Naturals, SequencesExt

CONSTANTS
    Senders,   \* accounts that may deposit
    Amounts,   \* deposit amounts
    Word,      \* the range of uint256, scaled
    MaxBatch   \* bound on the deposits of one transaction

VARIABLES
    total,     \* the total locked
    locked,    \* sender -> its locked balance
    messages   \* the cross-chain messages queued, in order

vars == <<total, locked, messages>>

Deposit == [user: Senders, amount: Amounts \ {0}]

(* The amount a batch of deposits credits to sender.                       *)
Credited(batch, sender) ==
    MapThenSumSet(LAMBDA i : batch[i].amount,
                  {i \in DOMAIN batch : batch[i].user = sender})

Init ==
    /\ total = 0
    /\ locked = [s \in Senders |-> 0]
    /\ messages = << >>

(* One transaction commits a non-empty batch of deposits atomically.       *)
Commit(batch) ==
    /\ batch # << >>
    /\ messages' = messages \o batch
    /\ total' = total + MapThenSumSet(LAMBDA s : Credited(batch, s), Senders)
    /\ total' < Word
    /\ locked' = [s \in Senders |-> locked[s] + Credited(batch, s)]

Next == \E batch \in BoundedSeq(Deposit, MaxBatch) : Commit(batch)

Spec == Init /\ [][Next]_vars
====
