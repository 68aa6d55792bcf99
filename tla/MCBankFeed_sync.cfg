\* The sweep and one other run, a deposit that posts under another id.
SPECIFICATION FairSpec
CONSTANTS
    sw = sw
    r1 = r1
    MaxTxns = 2
    Sweeper = sw
    Requests = {r1}
    MaxFeed = 3
    MaxFaults = 1
    Nobody = Nobody
INVARIANTS
    TypeOK
    CursorIsHonest
PROPERTIES
    EveryDepositArrives
CHECK_DEADLOCK FALSE
