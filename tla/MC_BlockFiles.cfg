CONSTANTS
    BlockSize <- MCBlockSize
    UndoSize <- MCUndoSize
    TopHeight = 4
    BLOCKFILE_CHUNK_SIZE = 3
    UNDOFILE_CHUNK_SIZE = 2
    Max32 = 100
    PruneAfterHeight = 1
    MIN_BLOCKS_TO_KEEP = 1
    Starts <- Situations
    MaxFile = 3
    MaxCrashes = 1
SPECIFICATION Spec
CHECK_DEADLOCK FALSE
INVARIANTS
    BlocksReadable
    FilesSound
PROPERTIES
    PruneKeepsRecentBlocks
