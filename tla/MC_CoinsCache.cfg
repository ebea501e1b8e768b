CONSTANTS
    o1 = o1
    o2 = o2
    c1 = c1
    c2 = c2
    h1 = h1
    h2 = h2
    t1 = t1
    t2 = t2
    Outpoint = {o1, o2}
    Coin = {c1, c2}
    NoCoin = NoCoin
    Hash = {h1, h2}
    Null = Null
    Unknown = Unknown
    Span = {t1, t2}
    Nobody = Nobody
    mCacheSizeThreshold = 1
    Starts <- Situations
SPECIFICATION FairSpec
INVARIANTS
    CachesCoherent
    CoinsMatchBestBlock
    TryFlushNeverRefused
PROPERTIES
    ImplementsUtxoSet
    WritersGetIn
