\* Two rounds, two miners, batches of one, two faults of any kinds.
SPECIFICATION FairSpec
CONSTANTS
    alice = alice
    bob = bob
    n1 = n1
    n2 = n2
    Miners <- TwoMiners
    Commission = commission
    Pool = pool
    Diffs = {12, 13}
    Nonces <- TwoNonces
    Rosters <- ThreeRosters
    Rewards = {39}
    Faults = {"db", "rpc", "crash"}
    SubmissionBatch = 2
    RewardBatch = 1
    MaxRound = 2
    MaxFaults = 2
INVARIANTS TypeOK CreditedOnce WinnerOfRound EarnedMeansCredited
PROPERTIES ImplementsLedger RoundSettled
\* The rounds of the instance come to an end.
CHECK_DEADLOCK FALSE
