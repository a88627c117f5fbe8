\* Nothing fails: two overlapping requests for a miner's and a staker's balance.
SPECIFICATION FairSpec
CONSTANTS
    alice = alice
    ore = ore
    r1 = r1
    r2 = r2
    NoMint = NoMint
    Users <- OneUser
    Mints <- OneMint
    Requests <- TwoRequests
    Amounts = {3}
    ClaimMinimum = 2
    MinerAtaFee = 4
    StakerAtaFee = 1
    MaxU64 = 15
    BatchSize = 1
    InitBalance = 3
    MaxTreasury = 7
    Faults = {}
INVARIANTS TypeOK NoOverpay DebitCovered
PROPERTIES ImplementsPayout ClaimServed
