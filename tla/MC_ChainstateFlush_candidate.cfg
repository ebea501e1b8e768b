\* A crash while the flush of invalidateblock is under way.
CONSTANTS
    Block <- MCBlock
    Genesis = "g"
    Null = "null"
    Parent <- MCParent
    Height <- MCHeight
    Chain <- MCChain
    Outpoint <- MCOutpoint
    Spends <- MCSpends
    Creates <- MCCreates
    Utxo <- MCUtxo
    MIN_BLOCKS_TO_KEEP = 1
    Invalidatable = {"a1"}
    DBWriteMayFail = FALSE
    PruneMode = FALSE
    MaxCrashes = 1
SPECIFICATION Spec
INVARIANT TipStaysCandidate
CHECK_DEADLOCK FALSE
