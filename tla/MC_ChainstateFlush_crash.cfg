\* Crashes at every point of flushes, reorganizations and replays.
CONSTANTS
    Block <- MCBlock
    Genesis = "g"
    Null = "null"
    Parent <- MCParent
    Height <- MCHeight
    Chain <- MCChain
    Outpoint <- MCOutpoint
    Spends <- MCSpends
    Creates <- MCCreates
    Utxo <- MCUtxo
    MIN_BLOCKS_TO_KEEP = 1
    Invalidatable = {}
    DBWriteMayFail = FALSE
    PruneMode = FALSE
    MaxCrashes = 2
SPECIFICATION FairSpec
INVARIANTS
    CoinsMatchBestBlock
    DBConsistent
    RestartSucceeds
PROPERTY StartCompletes
