\* Three failures at any step, funds in the old proof account and in the
\* wallet, two signups.
SPECIFICATION FairSpec
CONSTANTS
    alice = alice
    pool_owner = pool_owner
    r1 = r1
    r2 = r2
    Miners <- TwoMiners
    Commission <- pool_owner
    Requests <- TwoRequests
    InitOriginal = 2
    InitWallet = 1
    MaxFaults = 3
INVARIANTS TypeOK ServingReady Migrated OnePool SignedUp
PROPERTIES ComesUp
CHECK_DEADLOCK FALSE
