CONSTANTS
    N <- MC_N
    Target <- MC_Target
    Peer <- MC_Peer
SPECIFICATION Spec
INVARIANT ExitConverged
