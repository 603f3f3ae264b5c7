CONSTANTS
    a = a
    b = b
    c = c
    Node <- MC_Node
    Width <- MC_Width
    Periods <- MC_Periods
    Rates <- MC_Rates
    NoNode = NoNode
    MiningFlag = FALSE
    DevFlag = FALSE
    LightSync = FALSE
SPECIFICATION FairSpec
INVARIANT TypeOK
INVARIANT SentPairsValid
INVARIANT WorkOnMiningNodes
PROPERTY WorkloadLiveWhenValid
