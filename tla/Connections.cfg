\* Two clients, one of which connects twice from its address; one of them may
\* stop reading for a while.
SPECIFICATION FairSpec
CONSTANTS
    c1 = c1
    c2 = c2
    c3 = c3
    a1 = a1
    a2 = a2
    none = none
    Conns <- ThreeConns
    Addrs <- TwoAddrs
    AddrOf <- Sources
    None <- none
    Limit = 1
    Stopping <- One
INVARIANTS TypeOK EntryOwned
PROPERTIES AnsweringStays MapMovesOn
CHECK_DEADLOCK FALSE
