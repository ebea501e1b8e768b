CONSTANTS
    Block <- TreeBlock
    Genesis = "g"
    Null = "null"
    Parent <- TreeParent
    Height <- TreeHeight
    Chain <- TreeChain
    Thread = {"t1", "t2", "t3"}
    Work <- TreeHeight
    Address <- TreeAddress
    Starts <- Invalidations
SPECIFICATION Spec
CHECK_DEADLOCK FALSE
INVARIANTS
    ActiveChainValid
