\* Everything fails: outages, failed queries, lost answers, restarts; requests
\* that do not overlap.
SPECIFICATION Spec
CONSTANTS
    alice = alice
    ore = ore
    r1 = r1
    r2 = r2
    NoMint = NoMint
    Users <- OneUser
    Mints <- OneMint
    Requests <- OneRequest
    Amounts = {2, 3}
    ClaimMinimum = 2
    MinerAtaFee = 3
    StakerAtaFee = 1
    MaxU64 = 15
    BatchSize = 2
    InitBalance = 2
    MaxTreasury = 5
    Faults = {"rpc", "db_read", "db_write", "crash"}
INVARIANTS DebitBacked PoolClaimedMatches
PROPERTIES DebitOnlyAfterLanding CooldownEnforced AcceptedClaimKept
