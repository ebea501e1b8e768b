---------------------------- MODULE BlockFiles ----------------------------
(***************************************************************************)
(* The files blk?????.dat and rev?????.dat: where the data and the undo    *)
(* data of blocks are put, when they become durable, which files pruning   *)
(* removes, and what the block index database says about all this after a  *)
(* crash or a power failure.  Sources: CBlockFileInfoStore                 *)
(* (blockfileinfostore.cpp), CBlockFileInfo (block_file_info.h),           *)
(* BlockFileAccess (block_file_access.cpp), CBlockIndex::writeUndoToDisk,  *)
(* AcceptBlock, FlushStateToDisk, UnlinkPrunedFiles and LoadBlockIndexDB.  *)
(*                                                                         *)
(* Blocks are numbered by height along one chain, from the genesis block   *)
(* 0, and may be received in any order (the download window).  What a file *)
(* holds is a set of extents: which block's record is intact, and where it *)
(* begins.  All operations run under cs_main.                              *)
(***************************************************************************)
EXTENDS Integers, FiniteSets, FiniteSetsExt

CONSTANTS
    TopHeight,                  \* blocks are 0..TopHeight
    BlockSize, UndoSize,        \* of each block, record header included
    BLOCKFILE_CHUNK_SIZE, UNDOFILE_CHUNK_SIZE,
    Max32,                      \* std::numeric_limits<uint32_t>::max()
    PruneAfterHeight, MIN_BLOCKS_TO_KEEP,
    Starts,                     \* the situations to explore
    MaxFile,                    \* bound on the number of a file
    MaxCrashes                  \* bound on crashes and power failures

Block == 0..TopHeight
File == 0..MaxFile

ASSUME FilesAssumption ==
    /\ TopHeight \in Nat /\ MaxFile \in Nat /\ MaxCrashes \in Nat
    /\ BlockSize \in [Block -> Nat \ {0}] /\ UndoSize \in [Block -> Nat \ {0}]
    /\ BLOCKFILE_CHUNK_SIZE \in Nat \ {0} /\ UNDOFILE_CHUNK_SIZE \in Nat \ {0}
    /\ Max32 \in Nat \ {0}
    /\ PruneAfterHeight \in Nat /\ MIN_BLOCKS_TO_KEEP \in Nat
    /\ MIN_BLOCKS_TO_KEEP <= PruneAfterHeight
    /\ Starts \subseteq [top : Block, preferred : Nat, target : Nat,
                          openMayFail : BOOLEAN, powerMayFail : BOOLEAN]

(***************************************************************************)
(* A situation has: top, the highest block that comes; preferred, the       *)
(* preferred size of a block file; target, nPruneTarget, 0 when fPruneMode  *)
(* is false; whether opening a block file for writing may fail, and whether *)
(* a crash may be one of the machine.                                       *)
(***************************************************************************)
VARIABLES
    start,      \* the situation of this behaviour, fixed
    node,       \* "up", "aborting", "down" or "missing files"
    vinfo,      \* vinfoBlockFile
    last,       \* nLastBlockFile
    dirtyInfo,  \* setDirtyFileInfo
    index,      \* file and positions of each block (nFile, nDataPos, nUndoPos)
    tip,        \* height of the active chain, 0 at the genesis block
    check,      \* fCheckForPruning
    flush,      \* how far FlushStateToDisk is
    prune,      \* setFilesToPrune
    asked,      \* the height pruneblockchain has settled on, 0 if none
    blk, rev,   \* the extents in the files
    blkOnDisk, revOnDisk,  \* ... that a power failure cannot take away
    exists,     \* the files there are, as <<"blk" or "rev", file>>
    db,         \* the block index database, and the tip of the coin database
    crashes

memVars == <<vinfo, last, dirtyInfo, index, tip, check, flush, prune, asked>>
fileVars == <<blk, rev, blkOnDisk, revOnDisk, exists>>
vars == <<start, node, memVars, fileVars, db, crashes>>

NoPos == -1
NoPlace == [file |-> NoPos, data |-> NoPos, undo |-> NoPos]
NoInfo == [size |-> 0, undo |-> 0, heightLast |-> 0]
HasData(b) == index[b].file # NoPos
HasUndo(b) == index[b].undo # NoPos

\* After InitBlockIndex: the genesis block is stored, and everything is flushed.
Init ==
    /\ start \in Starts
    /\ node = "up" /\ asked = 0
    /\ vinfo = [[f \in File |-> NoInfo] EXCEPT ![0].size = BlockSize[0]]
    /\ last = 0 /\ dirtyInfo = {}
    /\ index = [[b \in Block |-> NoPlace] EXCEPT ![0].file = 0, ![0].data = 0]
    /\ tip = 0 /\ check = FALSE /\ flush = "none" /\ prune = {}
    /\ blk = {[file |-> 0, pos |-> 0, block |-> 0]} /\ blkOnDisk = blk
    /\ rev = {} /\ revOnDisk = {}
    /\ exists = {<<"blk", 0>>}
    /\ db = [vinfo |-> vinfo, last |-> 0, index |-> index, tip |-> 0]
    /\ crashes = 0

(***************************************************************************)
(* Files.  A position is an unsigned int.                                  *)
(***************************************************************************)
AsPos(n) == n % (Max32 + 1)

Chunks(n, chunk) == (n + chunk - 1) \div chunk

\* Writing a record destroys the records it overlaps.
Write(extents, f, pos, b, size) ==
    {e \in extents : \/ e.file # f
                     \/ e.pos + size[e.block] <= pos
                     \/ pos + size[b] <= e.pos}
      \cup {[file |-> f, pos |-> pos, block |-> b]}

Truncate(extents, f, length, size) ==
    {e \in extents : e.file # f \/ e.pos + size[e.block] <= length}

In(extents, f) == {e \in extents : e.file = f}
Commit(onDisk, extents, f) == (onDisk \ In(onDisk, f)) \cup In(extents, f)

\* CBlockFileInfo::SerializationOp: what is read back later, and also what the
\* object holds once it was written.  The size is kept in 64 bits where 32 are
\* not enough; the test for the undo size looks at the wrong variable.
Legacy(n) == IF n >= Max32 THEN Max32 ELSE n
SerializationOp(info) ==
    [info EXCEPT !.size = IF Legacy(info.size) = Max32 THEN info.size ELSE Legacy(info.size),
                 !.undo = IF info.undo = Max32 THEN info.undo ELSE Legacy(info.undo)]

\* Mutant of FlushBlockFile: nothing is committed.
FlushBlockFileNoCommit(finalize) ==
    [blk |-> IF finalize THEN Truncate(blk, last, vinfo[last].size, BlockSize) ELSE blk,
     rev |-> IF finalize THEN Truncate(rev, last, vinfo[last].undo, UndoSize) ELSE rev,
     blkOnDisk |-> blkOnDisk, revOnDisk |-> revOnDisk]

\* BlockFileAccess::FlushBlockFile(last).
FlushBlockFile(finalize) ==
    LET b == IF finalize THEN Truncate(blk, last, vinfo[last].size, BlockSize) ELSE blk
        r == IF finalize THEN Truncate(rev, last, vinfo[last].undo, UndoSize) ELSE rev
    IN [blk |-> b, rev |-> r,
        blkOnDisk |-> Commit(blkOnDisk, b, last), revOnDisk |-> Commit(revOnDisk, r, last)]

\* FindNextFileWithEnoughEmptySpace: the first file that is empty or has room.
HasRoom(f, nAddSize) ==
    \/ vinfo[f].size = 0
    \/ vinfo[f].size + nAddSize < start.preferred
FindNextFile(nAddSize) ==
    {f \in last..MaxFile : /\ HasRoom(f, nAddSize)
                           /\ \A g \in last..(f - 1) : ~HasRoom(g, nAddSize)}

AddNewBlock(info, b) ==
    [info EXCEPT !.size = @ + BlockSize[b],
                 !.heightLast = IF b > @ THEN b ELSE @]

\* AcceptBlock: FindBlockPos, WriteBlockToDisk and ReceivedBlockTransactions,
\* and FlushStateToDisk(FLUSH_STATE_NONE) if it is time to prune.
AcceptBlock(b) ==
    /\ node = "up" /\ flush = "none"
    /\ ~HasData(b) /\ b <= start.top
    /\ \E f \in FindNextFile(BlockSize[b]) :
         LET pos == AsPos(vinfo[f].size)
             info == AddNewBlock(vinfo[f], b)
             allocate == Chunks(info.size, BLOCKFILE_CHUNK_SIZE)
                           > Chunks(pos, BLOCKFILE_CHUNK_SIZE)
             flushed == IF f = last
                          THEN [blk |-> blk, rev |-> rev,
                                blkOnDisk |-> blkOnDisk, revOnDisk |-> revOnDisk]
                          ELSE FlushBlockFile(TRUE)
         IN /\ vinfo' = [vinfo EXCEPT ![f] = info]
            /\ last' = f
            /\ dirtyInfo' = dirtyInfo \cup {f}
            /\ check' = (check \/ (allocate /\ start.target # 0))
            /\ exists' = IF allocate THEN exists \cup {<<"blk", f>>} ELSE exists
            /\ \/ /\ blk' = Write(flushed.blk, f, pos, b, BlockSize)
                  /\ node' = node
               \/ /\ start.openMayFail
                  /\ blk' = flushed.blk
                  /\ node' = "aborting"
            /\ rev' = flushed.rev
            /\ blkOnDisk' = flushed.blkOnDisk /\ revOnDisk' = flushed.revOnDisk
            /\ index' = [index EXCEPT ![b] = [file |-> f, data |-> pos, undo |-> NoPos]]
            /\ flush' = IF check' THEN "prune" ELSE "none"
    /\ UNCHANGED <<start, asked, tip, prune, db, crashes>>

\* Mutant of WriteUndoToDisk: FindUndoPos does not mark the file info dirty.
WriteUndoToDiskNotDirty(b) ==
    LET f == index[b].file
        pos == AsPos(vinfo[f].undo)
        newSize == vinfo[f].undo + UndoSize[b]
        allocate == Chunks(newSize, UNDOFILE_CHUNK_SIZE) > Chunks(pos, UNDOFILE_CHUNK_SIZE)
    IN /\ vinfo' = [vinfo EXCEPT ![f].undo = newSize]
       /\ exists' = IF allocate THEN exists \cup {<<"rev", f>>} ELSE exists
       /\ rev' = Write(rev, f, pos, b, UndoSize)
       /\ index' = [index EXCEPT ![b].undo = pos]
       /\ UNCHANGED dirtyInfo

\* Connecting the next block, with writeUndoToDisk: the undo data goes into the
\* rev file that belongs to the block's blk file.  fCheckForPruning is passed by
\* value, so a new chunk does not set the global flag.
WriteUndoToDisk(b) ==
    LET f == index[b].file
        pos == AsPos(vinfo[f].undo)
        newSize == vinfo[f].undo + UndoSize[b]
        allocate == Chunks(newSize, UNDOFILE_CHUNK_SIZE) > Chunks(pos, UNDOFILE_CHUNK_SIZE)
    IN /\ vinfo' = [vinfo EXCEPT ![f].undo = newSize]
       /\ dirtyInfo' = dirtyInfo \cup {f}
       /\ exists' = IF allocate THEN exists \cup {<<"rev", f>>} ELSE exists
       /\ rev' = Write(rev, f, pos, b, UndoSize)
       /\ index' = [index EXCEPT ![b].undo = pos]

ConnectTip(b) ==
    /\ node = "up" /\ flush = "none"
    /\ b = tip + 1 /\ HasData(b)
    /\ IF HasUndo(b) THEN UNCHANGED <<vinfo, dirtyInfo, exists, rev, index>>
                     ELSE WriteUndoToDisk(b)
    /\ tip' = b
    /\ UNCHANGED <<start, asked, node, last, check, flush, prune, blk, blkOnDisk, revOnDisk, db, crashes>>

DisconnectTip ==
    /\ node = "up" /\ flush = "none"
    /\ tip > 0 /\ HasData(tip) /\ HasUndo(tip)
    /\ tip' = tip - 1
    /\ UNCHANGED <<start, asked, node, vinfo, last, dirtyInfo, index, check, flush, prune, fileVars, db,
                   crashes>>

(***************************************************************************)
(* Pruning, and FlushStateToDisk: the last file is committed, files are    *)
(* unlinked, the block index database is written.                          *)
(***************************************************************************)
Usage(f) == vinfo[f].size + vinfo[f].undo
CalculateCurrentUsage(files) == MapThenSumSet(Usage, files)

\* Files below the last one that hold no block above the height given.
FilesUpTo(height) ==
    {f \in 0..(last - 1) : vinfo[f].size # 0 /\ vinfo[f].heightLast <= height}

\* FindFilesToPrune: the oldest files, until usage is far enough below the target.
FindFilesToPrune ==
    IF start.target = 0 \/ tip <= PruneAfterHeight THEN {}
    ELSE LET old == FilesUpTo(tip - MIN_BLOCKS_TO_KEEP)
             nBuffer == BLOCKFILE_CHUNK_SIZE + UNDOFILE_CHUNK_SIZE
         IN {f \in old : CalculateCurrentUsage(File)
                           - CalculateCurrentUsage({g \in old : g < f}) + nBuffer >= start.target}

\* Mutant of FindFilesToPruneManual: the height is taken as it was asked for.
FindFilesToPruneManualAsked(height) == FilesUpTo(height)

FindFilesToPruneManual(height) ==
    FilesUpTo(IF tip < MIN_BLOCKS_TO_KEEP \/ height <= tip - MIN_BLOCKS_TO_KEEP
                THEN height ELSE tip - MIN_BLOCKS_TO_KEEP)

\* The common part of a flush that writes: FlushBlockFile() of the last file.
BeginFlush(files) ==
    LET flushed == FlushBlockFile(FALSE) IN
    /\ prune' = files
    /\ flush' = "unlink"
    /\ blkOnDisk' = flushed.blkOnDisk /\ revOnDisk' = flushed.revOnDisk
    /\ UNCHANGED <<blk, rev, exists>>

\* FlushStateToDisk from AcceptBlock, and any other that writes everything.
FlushStateToDisk ==
    /\ node \in {"up", "aborting"} /\ flush \in {"none", "prune"}
    /\ LET files == IF check THEN FindFilesToPrune ELSE {} IN
         IF flush = "prune" /\ files = {}
           THEN flush' = "none" /\ UNCHANGED <<prune, fileVars>>
           ELSE BeginFlush(files)
    /\ check' = FALSE
    /\ UNCHANGED <<start, asked, node, vinfo, last, dirtyInfo, index, tip, db, crashes>>

\* pruneblockchain looks at the chain's height and releases cs_main ...
pruneblockchain(height) ==
    /\ node = "up" /\ flush = "none" /\ asked = 0
    /\ start.target # 0 /\ tip >= PruneAfterHeight /\ height <= tip
    /\ asked' = Min({height, tip - MIN_BLOCKS_TO_KEEP}) /\ asked' > 0
    /\ UNCHANGED <<start, node, vinfo, last, dirtyInfo, index, tip, check, flush, prune,
                   fileVars, db, crashes>>

\* ... and prunes up to the height it found then.
PruneBlockFilesManual ==
    /\ node = "up" /\ flush = "none" /\ asked > 0
    /\ IF FindFilesToPruneManual(asked) = {} THEN UNCHANGED <<flush, prune, fileVars>>
       ELSE BeginFlush(FindFilesToPruneManual(asked))
    /\ asked' = 0
    /\ UNCHANGED <<start, node, vinfo, last, dirtyInfo, index, tip, check, db, crashes>>

\* A pruning node starts.
PruneAndFlush ==
    /\ node = "up" /\ flush = "none"
    /\ start.target # 0
    /\ FindFilesToPrune # {}
    /\ BeginFlush(FindFilesToPrune)
    /\ UNCHANGED <<start, asked, node, vinfo, last, dirtyInfo, index, tip, check, db, crashes>>

\* One file of UnlinkPrunedFiles: RemoveFile and PruneOneBlockFile, or it is in use.
UnlinkPrunedFile(f) ==
    /\ flush = "unlink" /\ f \in prune
    /\ prune' = prune \ {f}
    /\ \/ /\ blk' = blk \ In(blk, f) /\ blkOnDisk' = blkOnDisk \ In(blkOnDisk, f)
          /\ rev' = rev \ In(rev, f) /\ revOnDisk' = revOnDisk \ In(revOnDisk, f)
          /\ exists' = exists \ {<<"blk", f>>, <<"rev", f>>}
          /\ index' = [b \in Block |-> IF index[b].file = f THEN NoPlace ELSE index[b]]
          /\ vinfo' = [vinfo EXCEPT ![f] = NoInfo]
          /\ dirtyInfo' = dirtyInfo \cup {f}
       \/ UNCHANGED <<fileVars, index, vinfo, dirtyInfo>>
    /\ UNCHANGED <<start, asked, node, last, tip, check, flush, db, crashes>>

\* WriteBatchSync, and the coins of the tip with a full flush.
WriteBatchSync ==
    /\ flush = "unlink" /\ prune = {}
    /\ vinfo' = [f \in File |-> IF f \in dirtyInfo THEN SerializationOp(vinfo[f]) ELSE vinfo[f]]
    /\ dirtyInfo' = {}
    /\ \E t \in {tip, db.tip} :
         db' = [vinfo |-> [f \in File |-> IF f \in dirtyInfo THEN vinfo'[f] ELSE db.vinfo[f]],
                last |-> last, index |-> index, tip |-> t]
    /\ flush' = "none"
    /\ node' = IF node = "aborting" THEN "down" ELSE node
    /\ UNCHANGED <<start, asked, last, index, tip, check, prune, fileVars, crashes>>

(***************************************************************************)
(* The process dies, with or without the machine, and starts again.        *)
(***************************************************************************)
Crash ==
    /\ node \in {"up", "aborting"} /\ crashes < MaxCrashes
    /\ crashes' = crashes + 1
    /\ node' = "down" /\ flush' = "none" /\ prune' = {} /\ asked' = 0
    /\ UNCHANGED <<start, vinfo, last, dirtyInfo, index, tip, check, fileVars, db>>

\* Of a file that was not committed, the old or the new contents are there.
PowerFailure ==
    /\ start.powerMayFail
    /\ node \in {"up", "aborting"} /\ crashes < MaxCrashes
    /\ crashes' = crashes + 1
    /\ node' = "down" /\ flush' = "none" /\ prune' = {} /\ asked' = 0
    /\ \E kept \in SUBSET exists :
         /\ blk' = {e \in blk : <<"blk", e.file>> \in kept}
                     \cup {e \in blkOnDisk : <<"blk", e.file>> \notin kept}
         /\ rev' = {e \in rev : <<"rev", e.file>> \in kept}
                     \cup {e \in revOnDisk : <<"rev", e.file>> \notin kept}
    /\ blkOnDisk' = blk' /\ revOnDisk' = rev'
    /\ UNCHANGED <<start, vinfo, last, dirtyInfo, index, tip, check, exists, db>>

\* LoadBlockIndexDB and LoadBlockFileInfo.
LoadBlockIndexDB ==
    /\ node = "down"
    /\ vinfo' = db.vinfo /\ last' = db.last /\ dirtyInfo' = {}
    /\ index' = db.index /\ tip' = db.tip
    /\ check' = FALSE
    /\ node' = IF \A b \in Block : db.index[b].file # NoPos => <<"blk", db.index[b].file>> \in exists
                 THEN "up" ELSE "missing files"
    /\ UNCHANGED <<start, asked, flush, prune, fileVars, db, crashes>>

Next ==
    \/ \E b \in Block : AcceptBlock(b) \/ ConnectTip(b) \/ pruneblockchain(b)
    \/ PruneBlockFilesManual \/ DisconnectTip \/ FlushStateToDisk \/ PruneAndFlush
    \/ \E f \in File : UnlinkPrunedFile(f)
    \/ WriteBatchSync \/ Crash \/ PowerFailure \/ LoadBlockIndexDB

Spec == Init /\ [][Next]_vars

-----------------------------------------------------------------------------
Info == [size : Nat, undo : Nat, heightLast : Block]
Place == [file : File \cup {NoPos}, data : Nat \cup {NoPos}, undo : Nat \cup {NoPos}]
Extent == [file : File, pos : Nat, block : Block]

\* Every variable has its type: files and positions stay in range, prune holds
\* known files, and the files hold extents of known blocks.
TypeOK ==
    /\ node \in {"up", "aborting", "down", "missing files"}
    /\ vinfo \in [File -> Info] /\ last \in File /\ dirtyInfo \subseteq File
    /\ index \in [Block -> Place] /\ tip \in Block /\ check \in BOOLEAN
    /\ flush \in {"none", "prune", "unlink"} /\ prune \subseteq File
    /\ asked \in Block
    /\ blk \subseteq Extent /\ rev \subseteq Extent
    /\ blkOnDisk \subseteq Extent /\ revOnDisk \subseteq Extent
    /\ exists \subseteq {"blk", "rev"} \X File
    /\ crashes \in 0..MaxCrashes

DataExtent(b, place) == [file |-> place.file, pos |-> place.data, block |-> b]
UndoExtent(b, place) == [file |-> place.file, pos |-> place.undo, block |-> b]

\* The data of a block is where the index says: no later block was written over
\* it, no file was cut too short when it was left, and it was committed before the
\* index database was written, also for a start with an older CBlockFileInfo
\* (HAS_DATA_FLAG: "Full block available in blk*.dat").  A write that failed
\* leaves a block marked as stored, hence the condition.
BlocksReadable ==
    node = "up" /\ ~start.openMayFail => \A b \in Block :
        HasData(b) => DataExtent(b, index[b]) \in blk

\* The same for undo data (HAS_UNDO_FLAG: "Undo data available in rev*.dat"),
\* as long as the machine runs: an older rev file is not committed.
UndoReadable ==
    node = "up" /\ ~start.powerMayFail => \A b \in Block :
        HasUndo(b) => UndoExtent(b, index[b]) \in rev

\* The assertions of FlushBlockFile: a file that cannot be opened is empty.
FlushAssertionsHold ==
    node = "up" => /\ vinfo[last].size # 0 => <<"blk", last>> \in exists
                   /\ vinfo[last].undo # 0 => <<"rev", last>> \in exists

\* The files and what the node knows of them fit together after crashes, pruning
\* and failed writes.
FilesSound == TypeOK /\ UndoReadable /\ FlushAssertionsHold

\* "Pruning will never delete a block within a defined distance from the active
\* chain's tip" (FindFilesToPrune): whatever the order in which blocks arrived,
\* whichever files they share, and although pruneblockchain settles on a height
\* before a reorganization may lower the tip.  A tip below that distance is the
\* exception FindFilesToPruneManual makes.
PruneKeepsRecentBlocks ==
    [][\A b \in Block : node = "up" /\ node' = "up" /\ HasData(b) /\ ~HasData(b)'
          => b <= tip - MIN_BLOCKS_TO_KEEP \/ tip < MIN_BLOCKS_TO_KEEP]_vars
=============================================================================
