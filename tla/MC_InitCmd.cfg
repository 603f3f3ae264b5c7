CONSTANTS
    a = a
    b = b
    c = c
    r1 = r1
    r2 = r2
    r3 = r3
    Node <- MC_Node
    Width = 16
    Times <- MC_Times
    MaxRuns = 3
    NoGenesis = NoGenesis
    Id <- MC_Id
    Timeout = 2
    Slack = 1
    MaxWakes = 2
SPECIFICATION InitCmdSpec
INVARIANT InitDoneConsistent
INVARIANT TrackerConsistent
PROPERTY ExpiryRefined
PROPERTY AllExpire
