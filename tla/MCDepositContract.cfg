CONSTANTS
    Users = {u1, u2}
    Endpoint = ep
    Amounts <- MCAmounts
    Word = 5
    MaxTx = 4
    MaxDepth = 3
SPECIFICATION Spec
INVARIANT LockedBacked
PROPERTY DepositLedgerSpec
