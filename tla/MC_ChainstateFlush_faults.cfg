\* Write errors of the coin database, pruning, invalidation and a crash together.
\* A refusal to start ends a behaviour.
CONSTANTS
    Block <- MCBlock
    Genesis = "g"
    Null = "null"
    Parent <- MCParent
    Height <- MCHeight
    Chain <- MCChain
    Outpoint <- MCOutpoint
    Spends <- MCSpends
    Creates <- MCCreates
    Utxo <- MCUtxo
    MIN_BLOCKS_TO_KEEP = 2
    Invalidatable = {"a2"}
    DBWriteMayFail = TRUE
    PruneMode = TRUE
    MaxCrashes = 1
SPECIFICATION Spec
INVARIANTS
    WritesOrdered
    ReplayHasItsBlocks
CHECK_DEADLOCK FALSE
