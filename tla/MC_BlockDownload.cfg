SPECIFICATION FairSpec
CONSTANTS
    p1 = p1
    p2 = p2
    Peers = {p1, p2}
    Height = 3
    BLOCK_DOWNLOAD_WINDOW = 1
    MAX_BLOCKS_IN_TRANSIT_PER_PEER = 1
    MaxAnnouncing = 1
    Starts <- MCStarts
    None = None
INVARIANTS
    TrackerSound
    ParallelFetchBounded
    OnlySendersPunished
PROPERTY
    ChainArrives
CHECK_DEADLOCK FALSE
