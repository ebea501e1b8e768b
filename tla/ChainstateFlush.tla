-------------------------- MODULE ChainstateFlush --------------------------
(***************************************************************************)
(* How the active chain and its coins reach the disk, and what a node      *)
(* finds there when it starts again.  FlushStateToDisk unlinks pruned      *)
(* block files, writes the block index database in one synchronous batch   *)
(* and then the coin database in several batches; the process may die      *)
(* between any two of these.  At the next start LoadBlockIndexDB reads the *)
(* index, ReplayBlocks repairs a coin database that was left between two   *)
(* tips, LoadChainTip takes up its best block, and the repaired coins are  *)
(* flushed before anything else happens.  Sources: FlushStateToDisk,       *)
(* ConnectTip, DisconnectTip, InvalidateBlock, ResetBlockFailureFlags,     *)
(* UnlinkPrunedFiles, LoadBlockIndexDB, ReplayBlocks, LoadChainTip and     *)
(* RewindBlockIndex in validation.cpp, CoinsDB::Flush and DBBatchWrite in  *)
(* txdb.cpp, Shutdown and the loading loop of AppInitMain in init.cpp.     *)
(*                                                                         *)
(* All of it runs under cs_main, one operation at a time; the coin cache   *)
(* is used through what CoinsCache shows of it, a coin set with a best     *)
(* block, of which the outpoints in dirty differ from the database.  Block *)
(* files are seen block by block, and their data is on disk once written   *)
(* (BlockFiles is about the files themselves).                             *)
(***************************************************************************)
EXTENDS BlockCoins

CONSTANTS
    MIN_BLOCKS_TO_KEEP,  \* blocks below the tip that are never pruned
    Invalidatable,       \* blocks an operator may call invalidateblock on
    DBWriteMayFail,      \* the coin database may report a write error
    PruneMode,           \* fPruneMode
    MaxCrashes           \* bound on the crashes of a behaviour

ASSUME FlushAssumption ==
    /\ MIN_BLOCKS_TO_KEEP \in Nat
    /\ Invalidatable \subseteq Block \ {Genesis}
    /\ DBWriteMayFail \in BOOLEAN
    /\ PruneMode \in BOOLEAN
    /\ MaxCrashes \in Nat

VARIABLES
    node,       \* what the process is doing
    known,      \* mapBlockIndex: blocks whose transactions were received
    data,       \* BlockStatus HAS_DATA
    hasUndo,    \* BlockStatus HAS_UNDO
    failed,     \* BlockStatus FAILED or FAILED_PARENT
    tip,        \* chainActive.Tip()
    hashBlock,  \* best block of pcoinsTip
    coins,      \* the coins pcoinsTip shows
    dirty,      \* outpoints with a DIRTY entry in pcoinsTip
    invalid,    \* the block InvalidateBlock is working on, or Null
    flush,      \* how far FlushStateToDisk is
    prune,      \* setFilesToPrune
    walk,       \* the block ReplayBlocks has reached
    files,      \* blocks whose data is in a file on disk
    rev,        \* undo data on disk
    dbIndex,    \* the block index database
    dbCoins,    \* the coin database,
    dbBest,     \*   its DB_BEST_BLOCK (Null: no such record)
    dbHeadNew,  \*   and its DB_HEAD_BLOCKS (Null: no such record)
    dbHeadOld,
    crashes

indexVars == <<known, data, hasUndo, failed>>
chainVars == <<tip, hashBlock, coins, dirty, invalid>>
coinsDBVars == <<dbCoins, dbBest, dbHeadNew, dbHeadOld>>
diskVars == <<files, rev, dbIndex, coinsDBVars>>
vars == <<node, indexVars, chainVars, flush, prune, walk, diskVars, crashes>>

Refused == {"missing files", "cannot replay", "tip not a candidate"}
Index == [known : SUBSET Block, data : SUBSET Block, hasUndo : SUBSET Block,
          failed : SUBSET Block]
NoIndex == [known |-> {}, data |-> {}, hasUndo |-> {}, failed |-> {}]

\* A new data directory after InitBlockIndex: the genesis block is on disk, in
\* the index and not yet connected; its coins are not in the coin set.
Init ==
    /\ node = "up"
    /\ known = {Genesis} /\ data = {Genesis} /\ hasUndo = {} /\ failed = {}
    /\ tip = Null /\ hashBlock = Null
    /\ coins = NoCoins /\ dirty = {}
    /\ invalid = Null
    /\ flush = "none" /\ prune = {}
    /\ walk = Null
    /\ files = {Genesis}
    /\ rev = [b \in Block |-> NoCoins]
    /\ dbIndex = [NoIndex EXCEPT !.known = {Genesis}, !.data = {Genesis}]
    /\ dbCoins = NoCoins /\ dbBest = Null
    /\ dbHeadNew = Null /\ dbHeadOld = Null
    /\ crashes = 0

\* No operation on the chain and no flush is under way.
Between == node = "up" /\ flush = "none" /\ hashBlock = tip
Idle == Between /\ invalid = Null

(***************************************************************************)
(* Blocks arrive, and the tip moves.                                       *)
(***************************************************************************)
\* AcceptBlock: also a pruned block that was asked for again.
AcceptBlock(b) ==
    /\ Idle
    /\ b \notin data
    /\ Parent[b] \in known \ failed
    /\ known' = known \cup {b}
    /\ data' = data \cup {b}
    /\ files' = files \cup {b}
    /\ UNCHANGED <<node, hasUndo, failed, chainVars, flush, prune, walk, rev,
                   dbIndex, coinsDBVars, crashes>>

\* ConnectTip up to TryFlush; UpdateTip follows, after a flush if one is needed.
ConnectTip(b) ==
    /\ Idle
    /\ Parent[b] = tip
    /\ b \in data \ failed
    /\ coins' = Rollforward(coins, b)
    /\ dirty' = dirty \cup Touched(b)
    /\ hashBlock' = b
    /\ IF b = Genesis \/ b \in hasUndo
         THEN UNCHANGED <<hasUndo, rev>>
         ELSE /\ rev' = [rev EXCEPT ![b] = UndoOf(coins, b)]
              /\ hasUndo' = hasUndo \cup {b}
    /\ UNCHANGED <<node, known, data, failed, tip, invalid, flush, prune, walk,
                   files, dbIndex, coinsDBVars, crashes>>

\* DisconnectTip up to TryFlush, on the coins and on the best block.
DisconnectBlock ==
    /\ tip \notin {Null, Genesis}
    /\ tip \in data \cap hasUndo
    /\ DisconnectClean(coins, tip)
    /\ coins' = Rollback(coins, tip, rev[tip])
    /\ dirty' = dirty \cup Touched(tip)
    /\ hashBlock' = Parent[tip]

DisconnectTip ==
    /\ Idle
    /\ DisconnectBlock
    /\ UNCHANGED <<node, indexVars, tip, invalid, flush, prune, walk, diskVars, crashes>>

UpdateTip ==
    /\ node = "up" /\ flush = "none" /\ hashBlock # tip
    /\ tip' = hashBlock
    /\ UNCHANGED <<node, indexVars, hashBlock, coins, dirty, invalid, flush, prune,
                   walk, diskVars, crashes>>

\* DisconnectTip cannot read the block any more: AbortNode.
DisconnectTipAborts ==
    /\ Between
    /\ tip \in Block \ {Genesis}
    /\ tip \notin data
    /\ node' = "stopping"
    /\ flush' = "index"
    /\ UNCHANGED <<indexVars, chainVars, prune, walk, diskVars, crashes>>

(***************************************************************************)
(* invalidateblock and reconsiderblock.                                    *)
(***************************************************************************)
Descendants(b) == {c \in known : b \in Chain[c]}

InvalidateBlock(b) ==
    /\ Idle
    /\ b \in (Invalidatable \cap known) \ failed
    /\ failed' = failed \cup (IF b \in Chain[tip] THEN {b} ELSE Descendants(b))
    /\ invalid' = b
    /\ UNCHANGED <<node, known, data, hasUndo, tip, hashBlock, coins, dirty, flush,
                   prune, walk, diskVars, crashes>>

\* One round of its loop: the tip is marked, then disconnected.
InvalidateTip ==
    /\ Between
    /\ invalid # Null /\ invalid \in Chain[tip]
    /\ failed' = failed \cup {tip}
    /\ DisconnectBlock
    /\ UNCHANGED <<node, known, data, hasUndo, tip, invalid, flush, prune, walk,
                   diskVars, crashes>>

\* DisconnectTip returned false: the coins do not fit the block.
InvalidateFails ==
    /\ Between
    /\ invalid # Null /\ invalid \in Chain[tip]
    /\ ~DisconnectClean(coins, tip)
    /\ failed' = failed \cup {tip}
    /\ invalid' = Null
    /\ UNCHANGED <<node, known, data, hasUndo, tip, hashBlock, coins, dirty, flush,
                   prune, walk, diskVars, crashes>>

\* The loop is over: FlushStateToDisk(FLUSH_STATE_ALWAYS).
InvalidateDone ==
    /\ Between
    /\ invalid # Null /\ invalid \notin Chain[tip]
    /\ invalid' = Null
    /\ flush' = "index"
    /\ UNCHANGED <<node, indexVars, tip, hashBlock, coins, dirty, prune, walk,
                   diskVars, crashes>>

ResetBlockFailureFlags(b) ==
    /\ Idle
    /\ b \in known
    /\ failed' = failed \ (Descendants(b) \cup Chain[b])
    /\ failed' # failed
    /\ UNCHANGED <<node, known, data, hasUndo, chainVars, flush, prune, walk,
                   diskVars, crashes>>

(***************************************************************************)
(* FlushStateToDisk.  "index" stands for a full flush up to the write of   *)
(* the block index, "indexOnly" for the periodic write that leaves the     *)
(* coins alone, "coins" for CoinsDB::Flush.                                *)
(***************************************************************************)
\* Mutant of Prunable: one block more than MIN_BLOCKS_TO_KEEP allows.
PrunableOffByOne ==
    IF tip = Null THEN {}
    ELSE {b \in data : Height[b] <= Height[tip] + 1 - MIN_BLOCKS_TO_KEEP}

\* FindFilesToPrune, FindFilesToPruneManual: blocks in files whose highest block
\* is far enough below the tip.
Prunable ==
    IF tip = Null THEN {}
    ELSE {b \in data : Height[b] <= Height[tip] - MIN_BLOCKS_TO_KEEP}

\* A full flush: the cache is over its limit (also between TryFlush and
\* UpdateTip), it is time for one, or there is something to prune.
FlushStateToDisk(pruned) ==
    /\ node = "up" /\ flush = "none"
    /\ pruned \subseteq Prunable
    /\ pruned # {} => PruneMode
    /\ flush' = "index"
    /\ prune' = pruned
    /\ UNCHANGED <<node, indexVars, chainVars, walk, diskVars, crashes>>

\* FLUSH_STATE_PERIODIC with only fPeriodicWrite set.
PeriodicWrite ==
    /\ Idle
    /\ flush' = "indexOnly"
    /\ UNCHANGED <<node, indexVars, chainVars, prune, walk, diskVars, crashes>>

\* One file of UnlinkPrunedFiles, removed with its index entries or still in use.
UnlinkPrunedFile(b) ==
    /\ flush = "index"
    /\ b \in prune
    /\ prune' = prune \ {b}
    /\ \/ /\ files' = files \ {b}
          /\ data' = data \ {b}
          /\ hasUndo' = hasUndo \ {b}
       \/ UNCHANGED <<files, data, hasUndo>>
    /\ UNCHANGED <<node, known, failed, chainVars, flush, walk, rev, dbIndex,
                   coinsDBVars, crashes>>

\* Mutant of WriteBatchSync: only data and undo positions are written, new
\* entries wait.
WriteBatchSyncOldEntries ==
    /\ flush \in {"index", "indexOnly"}
    /\ prune = {}
    /\ dbIndex' = [dbIndex EXCEPT !.data = data \cap dbIndex.known,
                                  !.hasUndo = hasUndo \cap dbIndex.known]
    /\ flush' = IF flush = "index" THEN "coins" ELSE "none"
    /\ UNCHANGED <<node, indexVars, chainVars, prune, walk, files, rev, coinsDBVars,
                   crashes>>

\* Mutant of WriteBatchSync: setting an undo position does not make an entry dirty.
WriteBatchSyncNoUndo ==
    /\ flush \in {"index", "indexOnly"}
    /\ prune = {}
    /\ dbIndex' = [dbIndex EXCEPT !.known = known, !.data = data, !.failed = failed]
    /\ flush' = IF flush = "index" THEN "coins" ELSE "none"
    /\ UNCHANGED <<node, indexVars, chainVars, prune, walk, files, rev, coinsDBVars,
                   crashes>>

\* CBlockTreeDB::WriteBatchSync of the dirty index entries.
WriteBatchSync ==
    /\ flush \in {"index", "indexOnly"}
    /\ prune = {}
    /\ dbIndex' = [known |-> known, data |-> data, hasUndo |-> hasUndo, failed |-> failed]
    /\ flush' = IF flush = "index" THEN "coins" ELSE "none"
    /\ UNCHANGED <<node, indexVars, chainVars, prune, walk, files, rev, coinsDBVars,
                   crashes>>

\* old_tip in DBBatchWrite.
OldTip == IF dbBest = Null THEN dbHeadOld ELSE dbBest

Written(S) == [o \in Outpoint |-> IF o \in S THEN coins[o] ELSE dbCoins[o]]

\* Mutant of WritePartialBatch: the transition is not recorded.
WritePartialBatchUnmarked(S) ==
    /\ flush = "coins" /\ hashBlock # Null
    /\ S # {} /\ S \subseteq dirty
    /\ dbCoins' = Written(S)
    /\ dirty' = dirty \ S
    /\ UNCHANGED <<node, indexVars, tip, hashBlock, coins, invalid, flush, prune, walk,
                   files, rev, dbIndex, dbBest, dbHeadNew, dbHeadOld, crashes>>

\* A batch of DBBatchWrite that is not the last; the first one also records the
\* transition.
WritePartialBatch(S) ==
    /\ flush = "coins" /\ hashBlock # Null
    /\ S # {} /\ S \subseteq dirty
    /\ dbCoins' = Written(S)
    /\ dirty' = dirty \ S
    /\ dbBest' = Null /\ dbHeadNew' = hashBlock /\ dbHeadOld' = OldTip
    /\ UNCHANGED <<node, indexVars, tip, hashBlock, coins, invalid, flush, prune, walk,
                   files, rev, dbIndex, crashes>>

\* What follows a flush: the operation that asked for it, or the end of Shutdown.
AfterFlush == /\ flush' = "none"
              /\ node' = IF node = "stopping" THEN "stopped" ELSE node

\* The last batch of DBBatchWrite; an empty coin cache has nothing to write.
WriteFinalBatch ==
    /\ flush = "coins"
    /\ IF hashBlock = Null
         THEN UNCHANGED <<dbCoins, dbBest, dbHeadNew, dbHeadOld, dirty>>
         ELSE /\ dbCoins' = Written(dirty)
              /\ dbBest' = hashBlock /\ dbHeadNew' = Null /\ dbHeadOld' = Null
              /\ dirty' = {}
    /\ AfterFlush
    /\ UNCHANGED <<indexVars, tip, hashBlock, coins, invalid, prune, walk, files, rev,
                   dbIndex, crashes>>

\* A write error in DBBatchWrite: CoinsDB::Flush has moved all entries out of the
\* cache and they are destroyed with its local map.  FlushStateToDisk calls
\* AbortNode, and Shutdown flushes once more.
WriteBatchFails ==
    /\ DBWriteMayFail
    /\ flush = "coins" /\ hashBlock # Null
    /\ coins' = dbCoins
    /\ dirty' = {}
    /\ IF node = "stopping" THEN node' = "stopped" /\ flush' = "none"
                            ELSE node' = "stopping" /\ flush' = "index"
    /\ UNCHANGED <<indexVars, tip, hashBlock, invalid, prune, walk, diskVars, crashes>>

StartShutdown ==
    /\ Idle
    /\ node' = "stopping"
    /\ flush' = "index"
    /\ UNCHANGED <<indexVars, chainVars, prune, walk, diskVars, crashes>>

(***************************************************************************)
(* The process ends, at any point or after Shutdown, and starts again.     *)
(***************************************************************************)
MemoryLost ==
    /\ node' = "down"
    /\ known' = {} /\ data' = {} /\ hasUndo' = {} /\ failed' = {}
    /\ tip' = Null /\ hashBlock' = Null
    /\ coins' = NoCoins /\ dirty' = {}
    /\ invalid' = Null
    /\ flush' = "none" /\ prune' = {}
    /\ walk' = Null
    /\ UNCHANGED diskVars

Crash ==
    /\ node \in {"up", "stopping", "replay", "load"}
    /\ crashes < MaxCrashes
    /\ crashes' = crashes + 1
    /\ MemoryLost

Exit ==
    /\ node = "stopped"
    /\ MemoryLost
    /\ UNCHANGED crashes

\* LoadBlockIndexDB, and the beginning of ReplayBlocks.
LoadBlockIndex ==
    /\ node = "down"
    /\ known' = dbIndex.known /\ data' = dbIndex.data
    /\ hasUndo' = dbIndex.hasUndo /\ failed' = dbIndex.failed
    /\ coins' = dbCoins
    /\ \/ /\ dbIndex.data \subseteq files /\ dbHeadNew = Null
          /\ node' = "load" /\ hashBlock' = dbBest /\ UNCHANGED walk
       \/ /\ dbIndex.data \subseteq files /\ dbHeadNew # Null
          /\ node' = IF {dbHeadNew, dbHeadOld} \subseteq dbIndex.known \cup {Null}
                       THEN "replay" ELSE "cannot replay"
          /\ walk' = IF dbHeadOld = Null THEN Genesis ELSE dbHeadOld
          /\ UNCHANGED hashBlock
       \/ /\ ~(dbIndex.data \subseteq files)
          /\ node' = "missing files" /\ UNCHANGED <<hashBlock, walk>>
    /\ UNCHANGED <<tip, dirty, invalid, flush, prune, diskVars, crashes>>

\* ReplayBlocks: one block of the old branch is disconnected, clean or not, ...
ReplayRollback ==
    /\ node = "replay"
    /\ walk \notin Chain[dbHeadNew]
    /\ IF walk \in data \cap hasUndo
         THEN /\ coins' = Rollback(coins, walk, rev[walk])
              /\ dirty' = dirty \cup Touched(walk)
              /\ walk' = Parent[walk]
              /\ UNCHANGED node
         ELSE node' = "cannot replay" /\ UNCHANGED <<coins, dirty, walk>>
    /\ UNCHANGED <<indexVars, tip, hashBlock, invalid, flush, prune, diskVars, crashes>>

\* ... one block of the new branch is applied, again or for the first time, ...
ReplayRollforward ==
    /\ node = "replay"
    /\ walk \in Chain[dbHeadNew] \ {dbHeadNew}
    /\ LET b == NextTowards(walk, dbHeadNew) IN
         IF b \in data
           THEN /\ coins' = Rollforward(coins, b)
                /\ dirty' = dirty \cup Touched(b)
                /\ walk' = b
                /\ UNCHANGED node
           ELSE node' = "cannot replay" /\ UNCHANGED <<coins, dirty, walk>>
    /\ UNCHANGED <<indexVars, tip, hashBlock, invalid, flush, prune, diskVars, crashes>>

\* ... and the new tip becomes the best block, in memory.
ReplayDone ==
    /\ node = "replay"
    /\ walk = dbHeadNew
    /\ hashBlock' = dbHeadNew
    /\ walk' = Null
    /\ node' = "load"
    /\ UNCHANGED <<indexVars, tip, coins, dirty, invalid, flush, prune, diskVars, crashes>>

\* LoadChainTip, and the flush at the end of RewindBlockIndex (skipped, like the
\* rewind, when there is no tip).
LoadChainTip ==
    /\ node = "load"
    /\ \/ /\ hashBlock \in known \ failed
          /\ node' = "up" /\ tip' = hashBlock /\ flush' = "index"
       \/ /\ hashBlock \in known \cap failed
          /\ node' = "tip not a candidate" /\ UNCHANGED <<tip, flush>>
       \/ /\ hashBlock \notin known
          /\ node' = "up" /\ UNCHANGED <<tip, flush>>
    /\ UNCHANGED <<indexVars, hashBlock, coins, dirty, invalid, prune, walk, diskVars,
                   crashes>>

Running ==
    \/ \E b \in Block : \/ AcceptBlock(b) \/ ConnectTip(b) \/ InvalidateBlock(b)
                        \/ ResetBlockFailureFlags(b)
    \/ DisconnectTip \/ UpdateTip \/ DisconnectTipAborts
    \/ InvalidateTip \/ InvalidateFails \/ InvalidateDone \/ StartShutdown
    \/ \E pruned \in SUBSET Block : FlushStateToDisk(pruned)
    \/ PeriodicWrite

Flushing ==
    \/ \E b \in Block : UnlinkPrunedFile(b)
    \/ WriteBatchSync
    \/ \E S \in SUBSET Outpoint : WritePartialBatch(S)
    \/ WriteFinalBatch \/ WriteBatchFails

Starting ==
    LoadBlockIndex \/ ReplayRollback \/ ReplayRollforward \/ ReplayDone \/ LoadChainTip

Next == Running \/ Flushing \/ Crash \/ Exit \/ Starting

Spec == Init /\ [][Next]_vars

\* Startup runs in one thread that does not wait for anything, and so does a
\* flush that was begun.
FairSpec == Spec /\ WF_vars(Starting) /\ WF_vars(WriteBatchSync) /\ WF_vars(WriteFinalBatch)
                 /\ WF_vars(Exit)

-----------------------------------------------------------------------------
\* Every variable has its type; a block with data is in the index, and one with
\* undo data has data (the checks of LoadBlockIndexDB and DisconnectTip).
TypeOK ==
    /\ node \in {"up", "stopping", "stopped", "down", "replay", "load"} \cup Refused
    /\ known \in SUBSET Block /\ data \in SUBSET known
    /\ hasUndo \in SUBSET data /\ failed \in SUBSET known
    /\ tip \in BlockOrNull /\ hashBlock \in BlockOrNull
    /\ coins \in Coins /\ dirty \in SUBSET Outpoint
    /\ invalid \in BlockOrNull
    /\ flush \in {"none", "index", "indexOnly", "coins"}
    /\ prune \in SUBSET Block
    /\ walk \in BlockOrNull
    /\ files \in SUBSET Block
    /\ rev \in [Block -> Coins]
    /\ dbIndex \in Index
    /\ dbCoins \in Coins
    /\ dbBest \in BlockOrNull
    /\ dbHeadNew \in BlockOrNull /\ dbHeadOld \in BlockOrNull
    /\ crashes \in 0..MaxCrashes

\* The coins a running node works with are those of its best block, whatever
\* crashes, partial writes and replays came before (CoinsDB, ReplayBlocks).
CoinsMatchBestBlock ==
    node \in {"up", "load"} => coins = Utxo[hashBlock]

\* A coin database that names a best block holds exactly the coins of that block,
\* and one that names two heads holds, for each outpoint, what one of the two
\* blocks leaves (DBBatchWrite: "mark the database as consistent with hashBlock").
DBConsistent ==
    /\ dbHeadNew = Null => dbCoins = Utxo[dbBest]
    /\ dbHeadNew # Null =>
          \A o \in Outpoint : dbCoins[o] \in {Utxo[dbHeadNew][o], Utxo[dbHeadOld][o]}

\* Every block the coin database names is in the block index database:
\* FlushStateToDisk writes the index first ("This can only be done if the
\* blocks / block index write was also done").
IndexAheadOfCoins ==
    {dbBest, dbHeadNew, dbHeadOld} \subseteq dbIndex.known \cup {Null}

\* The assertion old_heads[0] == hashBlock of DBBatchWrite: a flush that finds an
\* unfinished transition in the database has the same target.
HeadsMatch ==
    flush = "coins" /\ hashBlock # Null /\ dbHeadNew # Null => dbHeadNew = hashBlock

\* The order of the writes is kept, also after a flush that a crash cut off or whose
\* coin batches failed.  The write of the block index itself does not fail here.
WritesOrdered == IndexAheadOfCoins /\ HeadsMatch

\* A node that neither prunes nor invalidates starts again after any crash.
RestartSucceeds == node \notin Refused

\* The blocks ReplayBlocks has to read, for a flush from the old to the new head.
ReplayPath ==
    (Chain[dbHeadNew] \ Chain[dbHeadOld]) \cup (Chain[dbHeadOld] \ Chain[dbHeadNew])

\* Pruning deletes block files before the coins of their blocks are safely on
\* disk.  The blocks an interrupted coin flush has to replay are still there if
\* they are less than MIN_BLOCKS_TO_KEEP - 1 below its target (the flush in
\* DisconnectTip prunes relative to the tip it is about to leave).
ReplayHasItsBlocks ==
    dbHeadNew # Null =>
        \A b \in ReplayPath \ {Genesis} :
            Height[b] > Height[dbHeadNew] + 1 - MIN_BLOCKS_TO_KEEP => b \in dbIndex.data

\* LoadChainTip throws "CoinsDB best block not in setBlockIndexCandidates": it
\* takes that to be impossible.
TipStaysCandidate == node # "tip not a candidate"

\* A start that is not interrupted comes to an end: the node runs or it refuses.
StartCompletes == (node = "down") ~> (node \in {"up"} \cup Refused)
=============================================================================
