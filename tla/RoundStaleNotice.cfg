\* A notice of the last challenge arrives late.
SPECIFICATION Spec
CONSTANTS
    alice = alice
    bob = bob
    r1 = r1
    r2 = r2
    Miners <- OneMiner
    Diffs = {1}
    Resenders <- OneResender
    MaxAttempts = 1
    MaxChallenge = 1
    Faults = {"late_notice"}
PROPERTY ProofNeverReverts
