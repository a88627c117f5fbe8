\* Nothing fails: two rounds, whose resending tasks overlap.
SPECIFICATION FairSpec
CONSTANTS
    alice = alice
    bob = bob
    r1 = r1
    r2 = r2
    Miners <- OneMiner
    Diffs = {1}
    Resenders <- TwoResenders
    MaxAttempts = 1
    MaxChallenge = 2
    Faults = {}
VIEW WithoutTable
INVARIANTS LandedRewarded LastChallengeBehind EpochCurrent
PROPERTIES WindowReopens
