CONSTANTS
    N <- MC_N
    NumMiners <- MC_NumMiners
    MinPeer = 2
    MaxPeer = 2
SPECIFICATION Spec
INVARIANT CanProgress
