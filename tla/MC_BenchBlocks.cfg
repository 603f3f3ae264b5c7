CONSTANTS
    N <- MC_N
    Target <- MC_Target
    Peer <- MC_Peer
SPECIFICATION FairSpec
INVARIANT TypeOK
INVARIANT NoFork
PROPERTY ReachesTarget
