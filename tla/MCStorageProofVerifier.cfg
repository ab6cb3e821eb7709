CONSTANTS
    c = c
    o = o
    u1 = u1
    u2 = u2
    r1 = r1
    r2 = r2
    ExecRoot = er
    Accounts <- MCAccounts
    Users <- MCUsers
    Roots <- MCRoots
    Values = {1, 2}
    ValueBase = 2
    StateTrie <- MCStateTrie
    StorageTrie <- MCStorageTrie
    MaxSlots = 3
    MAX_TREE_DEPTH = 1
    BridgeContract = c

SPECIFICATION Spec

INVARIANT TypeOK
INVARIANT StorageSoundness
INVARIANT HonestAccepted
INVARIANT DepthBeforeHashing
