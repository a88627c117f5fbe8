\* Two miners that ask for work two times in all, one of them twice perhaps;
\* solutions come in during the first round.
SPECIFICATION FairSpec
CONSTANTS
    a1 = a1
    a2 = a2
    alice = alice
    bob = bob
    Addrs <- TwoAddrs
    Pubkeys <- TwoMiners
    KeyOf <- OneEach
    Size = 2
    MaxReady = 2
    MaxSol = 1
INVARIANTS TypeOK RangesDisjoint OldRangesOnlyLate
PROPERTIES SearchedOwnRange RangeKept ReadyServed
CHECK_DEADLOCK FALSE
