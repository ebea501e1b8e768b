CONSTANTS
    Block <- TreeBlock
    Genesis = "g"
    Null = "null"
    Parent <- TreeParent
    Height <- TreeHeight
    Chain <- TreeChain
    Thread = {"t1", "t2", "t3"}
    Work <- TreeHeight
    Address <- TreeAddress
    Starts <- Situations
SPECIFICATION FairSpec
CHECK_DEADLOCK FALSE
INVARIANTS
    IndexConsistent
    BestChainActive
PROPERTIES
    ActivationEnds
    TipFollowsTree
    ReleasedTipNotWorse
