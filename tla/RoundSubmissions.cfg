\* Two miners whose solutions meet resets, also those of late notices.
SPECIFICATION Spec
CONSTANTS
    alice = alice
    bob = bob
    r1 = r1
    r2 = r2
    Miners <- TwoMiners
    Diffs = {1, 2}
    Resenders <- OneResender
    MaxAttempts = 1
    MaxChallenge = 1
    Faults = {"late_notice"}
VIEW Memory
SYMMETRY Symmetry
INVARIANTS BestCoversSubmissions SnapshotHasBest
