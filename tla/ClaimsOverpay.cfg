\* A failed query after the payout.
SPECIFICATION Spec
CONSTANTS
    alice = alice
    ore = ore
    r1 = r1
    r2 = r2
    NoMint = NoMint
    Users <- OneUser
    Mints <- NoMints
    Requests <- OneRequest
    Amounts = {2, 3}
    ClaimMinimum = 2
    MinerAtaFee = 3
    StakerAtaFee = 1
    MaxU64 = 15
    BatchSize = 2
    InitBalance = 3
    MaxTreasury = 9
    Faults = {"db_read"}
INVARIANT PaidWithinEarned
