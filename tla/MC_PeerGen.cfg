CONSTANTS
    N <- MC_N
    NumMiners <- MC_NumMiners
    MinPeer = 1
    MaxPeer = 2
SPECIFICATION Spec
INVARIANT TypeOK
INVARIANT ValidTopology
INVARIANT DegreeCapped
PROPERTY Terminates
