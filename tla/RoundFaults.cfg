\* Outages and restarts: two attempts, whose resending tasks overlap.
SPECIFICATION Spec
CONSTANTS
    alice = alice
    bob = bob
    r1 = r1
    r2 = r2
    Miners <- OneMiner
    Diffs = {1}
    Resenders <- TwoResenders
    MaxAttempts = 2
    MaxChallenge = 1
    Faults = {"rpc", "crash"}
VIEW Memory
SYMMETRY Symmetry
INVARIANTS TypeOK RewardedLanded
