CONSTANTS
    N <- MC_N
    Target <- MC_Target
    Peer <- MC_Peer
    MaxSent <- MC_MaxSent
SPECIFICATION Spec
INVARIANT TypeOK
INVARIANT IssuedPropagated
