----------------------- MODULE ChainstateFlushProofs -----------------------
(***************************************************************************)
(* Proofs about ChainstateFlush, for every tree of blocks, every set of    *)
(* coins and any number of crashes.                                        *)
(*                                                                         *)
(* The heart of the argument is that the effects of blocks on coins may be *)
(* applied again and out of step: in a database between two heads, and all *)
(* the way through ReplayBlocks, each single coin is what the block        *)
(* reached so far leaves or what the new head leaves.  At the new head the *)
(* two are the same.                                                       *)
(***************************************************************************)
EXTENDS ChainstateFlush, TLAPS

\* The process has coins of one best block in memory.
HasTip == node \in {"up", "stopping", "stopped", "load", "tip not a candidate"}
InMemory == node # "down"

\* What is saved of the index is well formed: it has no block without its
\* parent and no data without a block.
IndexInv ==
    /\ \A b \in known \ {Genesis} : Parent[b] \in known
    /\ \A b \in dbIndex.known \ {Genesis} : Parent[b] \in dbIndex.known
    /\ dbIndex.data \subseteq dbIndex.known
    /\ dbIndex.hasUndo \subseteq dbIndex.data
    /\ dbIndex.failed \subseteq dbIndex.known
    /\ InMemory => dbIndex.known \subseteq known
    /\ node = "down" => known = {}
    /\ hashBlock \in known \cup {Null}

\* Undo data the index refers to is that of the block, connected to its parent.
UndoInv ==
    \A b \in hasUndo \cup dbIndex.hasUndo : rev[b] = UndoOf(Utxo[Parent[b]], b)

\* A cache entry that is not dirty says what the database says.
CacheInv ==
    /\ HasTip => coins = Utxo[hashBlock]
    /\ InMemory => \A o \in Outpoint \ dirty : coins[o] = dbCoins[o]

\* A flush runs in a running process, and an unfinished transition of the
\* database is only ever met by one that completes it.
HeadsInv ==
    /\ flush # "none" => node \in {"up", "stopping"}
    /\ flush = "coins" => hashBlock \in dbIndex.known \cup {Null}
    /\ dbHeadNew = Null => dbHeadOld = Null
    /\ dbHeadNew # Null => dbBest = Null
    /\ dbHeadNew # Null /\ node \in {"up", "stopping"} => flush \in {"index", "coins"}
    /\ dbHeadNew # Null /\ node \in {"up", "stopping", "load"} => hashBlock = dbHeadNew

\* ReplayBlocks: each coin is that of the block reached or that of the new head.
ReplayInv ==
    node = "replay" =>
        /\ dbHeadNew # Null
        /\ walk \in Block
        /\ \A o \in Outpoint : coins[o] \in {Utxo[walk][o], Utxo[dbHeadNew][o]}

IInv ==
    /\ TypeOK
    /\ IndexInv
    /\ UndoInv
    /\ CacheInv
    /\ HeadsInv
    /\ ReplayInv
    /\ DBConsistent
    /\ IndexAheadOfCoins

-----------------------------------------------------------------------------
(***************************************************************************)
(* Blocks and coins.                                                       *)
(***************************************************************************)

\* Connecting a block to the coins of its parent, coin by coin (RollforwardBlock).
LEMMA RollforwardType ==
    ASSUME NEW cs \in Coins, NEW b \in Block
    PROVE  Rollforward(cs, b) \in Coins
  BY TreeAssumption, CoinsAssumption DEF Rollforward, Coins, NoCoin

LEMMA RollbackType ==
    ASSUME NEW cs \in Coins, NEW b \in Block, NEW undo \in Coins
    PROVE  Rollback(cs, b, undo) \in Coins
  BY CoinsAssumption DEF Rollback, Coins, NoCoin

LEMMA UndoType ==
    ASSUME NEW cs \in Coins, NEW b \in Block
    PROVE  UndoOf(cs, b) \in Coins
  BY CoinsAssumption DEF UndoOf, Coins, NoCoin

LEMMA UtxoType ==
    ASSUME NEW b \in BlockOrNull
    PROVE  Utxo[b] \in Coins
  BY CoinsAssumption DEF BlockOrNull

LEMMA ParentType ==
    ASSUME NEW b \in Block
    PROVE  Parent[b] \in BlockOrNull /\ (b # Genesis => Parent[b] \in Block)
  BY TreeAssumption

\* The genesis block changes no coins.
LEMMA GenesisCoins ==
    Utxo[Genesis] = Utxo[Null]
<1>1. Utxo[Genesis] = Rollforward(Utxo[Null], Genesis)
  BY TreeAssumption, CoinsAssumption
<1>2. Rollforward(NoCoins, Genesis) = NoCoins
  BY CoinsAssumption DEF Rollforward, NoCoins
<1>. QED  BY <1>1, <1>2, CoinsAssumption

\* A coin that is that of the parent, or already something else x, is that of
\* the block, or still x, when the block has been applied (RollforwardBlock).
LEMMA RollforwardPoint ==
    ASSUME NEW cs \in Coins, NEW b \in Block, NEW o \in Outpoint, NEW x,
           cs[o] \in {Utxo[Parent[b]][o], x}
    PROVE  Rollforward(cs, b)[o] \in {Utxo[b][o], x}
<1>1. Utxo[b] = Rollforward(Utxo[Parent[b]], b)
  BY CoinsAssumption
<1>2. Rollforward(cs, b)[o] = IF o \in Creates[b] THEN Height[b]
                              ELSE IF o \in Spends[b] THEN NoCoin ELSE cs[o]
  BY DEF Rollforward
<1>3. Utxo[b][o] = IF o \in Creates[b] THEN Height[b]
                   ELSE IF o \in Spends[b] THEN NoCoin ELSE Utxo[Parent[b]][o]
  BY <1>1 DEF Rollforward
<1>. QED  BY <1>2, <1>3

\* The same when a block is undone with its own undo data (ApplyBlockUndo).
LEMMA RollbackPoint ==
    ASSUME NEW cs \in Coins, NEW b \in Block, NEW o \in Outpoint, NEW x,
           cs[o] \in {Utxo[b][o], x}
    PROVE  Rollback(cs, b, UndoOf(Utxo[Parent[b]], b))[o] \in {Utxo[Parent[b]][o], x}
<1>1. Utxo[b] = Rollforward(Utxo[Parent[b]], b)
  BY CoinsAssumption
<1>2. Utxo[b][o] = IF o \in Creates[b] THEN Height[b]
                   ELSE IF o \in Spends[b] THEN NoCoin ELSE Utxo[Parent[b]][o]
  BY <1>1 DEF Rollforward
<1>3. Rollback(cs, b, UndoOf(Utxo[Parent[b]], b))[o] =
          IF o \in Creates[b] THEN NoCoin
          ELSE IF o \in Spends[b] THEN Utxo[Parent[b]][o] ELSE cs[o]
  BY DEF Rollback, UndoOf
<1>4. o \in Creates[b] => Utxo[Parent[b]][o] = NoCoin
  BY CoinsAssumption
<1>. QED  BY <1>2, <1>3, <1>4

\* Undoing a connected block gives back the coins of its parent (DisconnectTip).
LEMMA RollbackUtxo ==
    ASSUME NEW b \in Block
    PROVE  Rollback(Utxo[b], b, UndoOf(Utxo[Parent[b]], b)) = Utxo[Parent[b]]
<1>1. Utxo[b] \in Coins /\ Utxo[Parent[b]] \in Coins
  BY UtxoType, ParentType DEF BlockOrNull
<1>2. UndoOf(Utxo[Parent[b]], b) \in Coins
  BY <1>1, UndoType
<1>3. Rollback(Utxo[b], b, UndoOf(Utxo[Parent[b]], b)) \in Coins
  BY <1>1, <1>2, RollbackType
<1>4. ASSUME NEW o \in Outpoint
      PROVE  Rollback(Utxo[b], b, UndoOf(Utxo[Parent[b]], b))[o] = Utxo[Parent[b]][o]
  <2>1. CASE Utxo[b][o] = Utxo[Parent[b]][o]
    BY <1>1, <2>1, RollbackPoint
  <2>2. CASE Utxo[b][o] # Utxo[Parent[b]][o]
    <3>1. Rollback(Utxo[b], b, UndoOf(Utxo[Parent[b]], b))[o]
             \in {Utxo[Parent[b]][o], Utxo[b][o]}
      BY <1>1, RollbackPoint
    <3>2. Utxo[b] = Rollforward(Utxo[Parent[b]], b)
      BY CoinsAssumption
    <3>3. o \in Creates[b] \/ o \in Spends[b]
      BY <2>2, <3>2 DEF Rollforward
    <3>. QED  BY <3>3, CoinsAssumption DEF Rollback, UndoOf
  <2>. QED  BY <2>1, <2>2
<1>. QED  BY <1>1, <1>3, <1>4 DEF Coins

\* GetAncestor in ReplayBlocks finds the block that follows.
LEMMA NextTowardsParent ==
    ASSUME NEW n \in Block, NEW w \in Chain[n], w # n
    PROVE  NextTowards(w, n) \in Chain[n] /\ Parent[NextTowards(w, n)] = w
<1>1. \E d \in Chain[n] : Parent[d] = w
  BY ChainAssumption
<1>. QED  BY <1>1 DEF NextTowards

LEMMA ChainType ==
    ASSUME NEW b \in BlockOrNull
    PROVE  Chain[b] \subseteq Block
  BY TreeAssumption DEF BlockOrNull

-----------------------------------------------------------------------------
(***************************************************************************)
(* Every step preserves the invariant.                                     *)
(***************************************************************************)
LEMMA InitInv == Init => IInv
<1>. SUFFICES ASSUME Init PROVE IInv
  OBVIOUS
<1>. USE DEF Init, NoIndex
<1>1. NoCoins \in Coins
  BY DEF NoCoins, Coins, NoCoin
<1>2. TypeOK
  <2>1. dbIndex \in Index
    BY ZenonT(30), TreeAssumption DEF Index
  <2>2. rev \in [Block -> Coins]
    BY <1>1
  <2>3. crashes \in 0..MaxCrashes
    BY FlushAssumption
  <2>. QED  BY <1>1, <2>1, <2>2, <2>3, TreeAssumption DEF TypeOK, BlockOrNull
<1>3. IndexInv
  BY TreeAssumption DEF IndexInv
<1>4. CacheInv /\ DBConsistent
  BY CoinsAssumption DEF CacheInv, DBConsistent
<1>. QED
  BY <1>2, <1>3, <1>4 DEF IInv, UndoInv, HeadsInv, ReplayInv, IndexAheadOfCoins

\* Steps that leave the disk, the coins and the tip alone.
LEMMA AcceptBlockStep ==
    ASSUME IInv, NEW b \in Block, AcceptBlock(b)
    PROVE  IInv'
<1>. USE DEF IInv, AcceptBlock, Idle, Between, chainVars, coinsDBVars
<1>1. TypeOK'
  BY DEF TypeOK
<1>2. IndexInv'
  BY DEF IndexInv, InMemory, TypeOK
<1>3. UndoInv' /\ CacheInv' /\ DBConsistent'
  BY DEF UndoInv, CacheInv, DBConsistent, HasTip, InMemory
<1>4. HeadsInv' /\ ReplayInv' /\ IndexAheadOfCoins'
  BY DEF HeadsInv, ReplayInv, IndexAheadOfCoins
<1>. QED  BY <1>1, <1>2, <1>3, <1>4

LEMMA ConnectTipStep ==
    ASSUME IInv, NEW b \in Block, ConnectTip(b)
    PROVE  IInv'
<1>. USE DEF IInv, ConnectTip, Idle, Between, coinsDBVars
<1>1. coins = Utxo[Parent[b]] /\ coins \in Coins
  BY DEF CacheInv, HasTip, TypeOK
<1>2. coins' = Utxo[b]
  BY <1>1, CoinsAssumption
<1>3. UndoOf(coins, b) \in Coins
  BY <1>1, UndoType
<1>4. rev' \in [Block -> Coins]
  BY <1>3 DEF TypeOK
<1>5. TypeOK'
  <2>1. coins' \in Coins
    BY <1>1, RollforwardType
  <2>2. dirty' \in SUBSET Outpoint
    BY CoinsAssumption DEF Touched, TypeOK
  <2>. QED  BY <1>4, <2>1, <2>2 DEF TypeOK, BlockOrNull
<1>6. IndexInv'
  BY DEF IndexInv, InMemory, TypeOK
<1>7. UndoInv'
  BY <1>1 DEF UndoInv, TypeOK, Index
<1>8. CacheInv'
  <2>1. ASSUME NEW o \in Outpoint \ dirty'  PROVE coins'[o] = dbCoins[o]
    BY DEF CacheInv, InMemory, Touched, Rollforward
  <2>. QED  BY <1>2, <2>1 DEF CacheInv, HasTip, InMemory
<1>9. HeadsInv'
  BY DEF HeadsInv
<1>10. ReplayInv' /\ DBConsistent' /\ IndexAheadOfCoins'
  BY DEF ReplayInv, DBConsistent, IndexAheadOfCoins
<1>. QED  BY <1>5, <1>6, <1>7, <1>8, <1>9, <1>10

\* What disconnecting the tip does to the coins, for DisconnectTip and for the
\* loop of InvalidateBlock.
LEMMA DisconnectBlockCoins ==
    ASSUME IInv, Between, DisconnectBlock
    PROVE  /\ Parent[tip] \in known
           /\ Parent[tip] \in Block
           /\ coins' = Utxo[Parent[tip]]
           /\ coins' \in Coins
           /\ dirty' \in SUBSET Outpoint
           /\ \A o \in Outpoint \ dirty' : coins'[o] = dbCoins[o]
<1>. USE DEF IInv, Between, DisconnectBlock
<1>1. tip \in Block /\ tip # Genesis
  BY DEF TypeOK, BlockOrNull
<1>2. rev[tip] = UndoOf(Utxo[Parent[tip]], tip)
  BY DEF UndoInv
<1>3. coins' = Utxo[Parent[tip]]
  BY <1>1, <1>2, RollbackUtxo DEF CacheInv, HasTip
<1>4. Parent[tip] \in Block
  BY <1>1, ParentType
<1>5. coins' \in Coins
  BY <1>3, <1>4, UtxoType DEF BlockOrNull
<1>6. Parent[tip] \in known
  BY <1>1 DEF IndexInv, TypeOK
<1>7. dirty' \in SUBSET Outpoint
  BY <1>1, CoinsAssumption DEF Touched, TypeOK
<1>8. ASSUME NEW o \in Outpoint \ dirty'  PROVE coins'[o] = dbCoins[o]
  BY DEF CacheInv, InMemory, Touched, Rollback
<1>. QED  BY <1>3, <1>4, <1>5, <1>6, <1>7, <1>8

LEMMA DisconnectTipStep ==
    ASSUME IInv, DisconnectTip \/ InvalidateTip
    PROVE  IInv'
<1>. USE DEF IInv, indexVars, diskVars, coinsDBVars
<1>1. Between /\ DisconnectBlock
  BY DEF DisconnectTip, InvalidateTip, Idle
<1>2. /\ Parent[tip] \in known
      /\ Parent[tip] \in Block
      /\ coins' = Utxo[Parent[tip]]
      /\ coins' \in Coins
      /\ dirty' \in SUBSET Outpoint
      /\ \A o \in Outpoint \ dirty' : coins'[o] = dbCoins[o]
  BY <1>1, DisconnectBlockCoins
<1>3. /\ hashBlock' = Parent[tip]
      /\ tip \in data
      /\ node = "up" /\ flush = "none"
      /\ UNCHANGED <<node, known, data, hasUndo, tip, invalid, flush, prune, walk,
                     files, rev, dbIndex, dbCoins, dbBest, dbHeadNew, dbHeadOld, crashes>>
      /\ failed' = failed \/ failed' = failed \cup {tip}
  BY <1>1 DEF DisconnectTip, InvalidateTip, DisconnectBlock, Between
<1>4. TypeOK'
  BY <1>2, <1>3 DEF TypeOK, BlockOrNull
<1>5. IndexInv' /\ UndoInv'
  BY <1>2, <1>3 DEF IndexInv, UndoInv, InMemory
<1>6. CacheInv'
  BY <1>2, <1>3 DEF CacheInv, HasTip, InMemory
<1>7. HeadsInv' /\ ReplayInv' /\ DBConsistent' /\ IndexAheadOfCoins'
  BY <1>3 DEF HeadsInv, ReplayInv, DBConsistent, IndexAheadOfCoins
<1>. QED  BY <1>4, <1>5, <1>6, <1>7

LEMMA UpdateTipStep ==
    ASSUME IInv, UpdateTip
    PROVE  IInv'
<1>. USE DEF IInv, UpdateTip, indexVars, diskVars, coinsDBVars
<1>1. TypeOK' /\ IndexInv' /\ UndoInv'
  BY DEF TypeOK, IndexInv, UndoInv, InMemory
<1>2. CacheInv' /\ HeadsInv'
  BY DEF CacheInv, HeadsInv, HasTip, InMemory
<1>3. ReplayInv' /\ DBConsistent' /\ IndexAheadOfCoins'
  BY DEF ReplayInv, DBConsistent, IndexAheadOfCoins
<1>. QED  BY <1>1, <1>2, <1>3

\* The failure flags, which the coins do not depend on.
LEMMA FailureFlagsStep ==
    ASSUME IInv, NEW b \in Block,
           InvalidateBlock(b) \/ InvalidateFails \/ ResetBlockFailureFlags(b)
    PROVE  IInv'
<1>. USE DEF IInv, chainVars, diskVars, coinsDBVars
<1>1. UNCHANGED <<node, known, data, hasUndo, tip, hashBlock, coins, dirty, flush, prune,
                  walk, files, rev, dbIndex, dbCoins, dbBest, dbHeadNew, dbHeadOld, crashes>>
  BY DEF InvalidateBlock, InvalidateFails, ResetBlockFailureFlags
<1>2. invalid' \in BlockOrNull
  BY DEF InvalidateBlock, InvalidateFails, ResetBlockFailureFlags, TypeOK, BlockOrNull
<1>3. failed' \in SUBSET known
  <2>1. CASE InvalidateBlock(b)
    BY <2>1 DEF InvalidateBlock, Descendants, TypeOK
  <2>2. CASE InvalidateFails
    <3>1. tip \in known
      BY <2>2, TreeAssumption DEF InvalidateFails, Between, IndexInv
    <3>. QED  BY <2>2, <3>1 DEF InvalidateFails, TypeOK
  <2>3. CASE ResetBlockFailureFlags(b)
    BY <2>3 DEF ResetBlockFailureFlags, TypeOK
  <2>. QED  BY <2>1, <2>2, <2>3
<1>4. TypeOK' /\ IndexInv' /\ UndoInv'
  BY <1>1, <1>2, <1>3 DEF TypeOK, IndexInv, UndoInv, InMemory
<1>5. CacheInv' /\ HeadsInv'
  BY ZenonT(30), <1>1 DEF CacheInv, HeadsInv, HasTip, InMemory
<1>6. ReplayInv' /\ DBConsistent' /\ IndexAheadOfCoins'
  BY <1>1 DEF ReplayInv, DBConsistent, IndexAheadOfCoins
<1>. QED  BY <1>4, <1>5, <1>6

\* A flush begins; the node may be on its way down.
LEMMA BeginFlushStep ==
    ASSUME IInv,
           \/ DisconnectTipAborts \/ InvalidateDone \/ StartShutdown \/ PeriodicWrite
           \/ \E pruned \in SUBSET Block : FlushStateToDisk(pruned)
    PROVE  IInv'
<1>. USE DEF IInv, indexVars, chainVars, diskVars, coinsDBVars
<1>1. /\ UNCHANGED <<known, data, hasUndo, failed, tip, hashBlock, coins, dirty, walk,
                     files, rev, dbIndex, dbCoins, dbBest, dbHeadNew, dbHeadOld, crashes>>
      /\ node = "up" /\ node' \in {"up", "stopping"}
      /\ flush = "none" /\ flush' \in {"index", "indexOnly"}
      /\ invalid' \in {invalid, Null}
      /\ prune' \in SUBSET Block
  BY SMTT(30) DEF DisconnectTipAborts, InvalidateDone, StartShutdown, PeriodicWrite,
         FlushStateToDisk, Idle, Between, TypeOK
<1>2. dbHeadNew = Null
  BY <1>1 DEF HeadsInv
<1>3. TypeOK' /\ IndexInv' /\ UndoInv'
  BY <1>1 DEF TypeOK, IndexInv, UndoInv, InMemory, BlockOrNull
<1>4. CacheInv' /\ HeadsInv'
  BY ZenonT(30), <1>1, <1>2 DEF CacheInv, HeadsInv, HasTip, InMemory
<1>5. ReplayInv' /\ DBConsistent' /\ IndexAheadOfCoins'
  BY <1>1 DEF ReplayInv, DBConsistent, IndexAheadOfCoins
<1>. QED  BY <1>3, <1>4, <1>5

LEMMA UnlinkPrunedFileStep ==
    ASSUME IInv, NEW b \in Block, UnlinkPrunedFile(b)
    PROVE  IInv'
<1>. USE DEF IInv, chainVars, coinsDBVars, UnlinkPrunedFile
<1>1. TypeOK' /\ IndexInv' /\ UndoInv'
  BY DEF TypeOK, IndexInv, UndoInv, InMemory
<1>2. CacheInv' /\ HeadsInv'
  BY ZenonT(30) DEF CacheInv, HeadsInv, HasTip, InMemory
<1>3. ReplayInv' /\ DBConsistent' /\ IndexAheadOfCoins'
  BY DEF ReplayInv, DBConsistent, IndexAheadOfCoins
<1>. QED  BY <1>1, <1>2, <1>3

LEMMA WriteBatchSyncStep ==
    ASSUME IInv, WriteBatchSync
    PROVE  IInv'
<1>. USE DEF IInv, indexVars, chainVars, coinsDBVars, WriteBatchSync
<1>1. TypeOK'
  BY DEF TypeOK, Index
<1>2. node \in {"up", "stopping"}
  BY ZenonT(30) DEF HeadsInv
<1>3. dbIndex.known \subseteq known
  BY <1>2 DEF IndexInv, InMemory
<1>4. IndexInv' /\ UndoInv'
  BY DEF TypeOK, IndexInv, UndoInv, InMemory
<1>5. CacheInv'
  BY ZenonT(30) DEF CacheInv, HasTip, InMemory
<1>6. HeadsInv'
  BY DEF HeadsInv, IndexInv
<1>7. ReplayInv' /\ DBConsistent' /\ IndexAheadOfCoins'
  BY <1>3 DEF ReplayInv, DBConsistent, IndexAheadOfCoins
<1>. QED  BY <1>1, <1>4, <1>5, <1>6, <1>7

\* A batch that is not the last leaves each coin of the database as the old or
\* as the new head has it.
LEMMA WritePartialBatchStep ==
    ASSUME IInv, NEW S \in SUBSET Outpoint, WritePartialBatch(S)
    PROVE  IInv'
<1>. USE DEF IInv, indexVars, WritePartialBatch
<1>1. node \in {"up", "stopping"}
  BY DEF HeadsInv
<1>2. coins = Utxo[hashBlock] /\ coins \in Coins /\ dbCoins \in Coins
  BY ZenonT(30), <1>1 DEF CacheInv, HasTip, TypeOK
<1>3. dbHeadNew # Null => dbHeadNew = hashBlock /\ dbBest = Null
  BY <1>1 DEF HeadsInv
<1>4. OldTip \in BlockOrNull /\ OldTip \in dbIndex.known \cup {Null}
  BY DEF OldTip, TypeOK, IndexAheadOfCoins
<1>5. ASSUME NEW o \in Outpoint
      PROVE  dbCoins[o] \in {Utxo[hashBlock][o], Utxo[OldTip][o]}
  BY <1>3 DEF OldTip, DBConsistent, HeadsInv
<1>6. ASSUME NEW o \in Outpoint
      PROVE  dbCoins'[o] \in {Utxo[hashBlock][o], Utxo[OldTip][o]}
  BY <1>2, <1>5 DEF Written
<1>7. dbCoins' \in Coins
  BY <1>2 DEF Written, Coins
<1>8. TypeOK'
  BY <1>4, <1>7 DEF TypeOK, BlockOrNull
<1>9. IndexInv' /\ UndoInv'
  BY DEF IndexInv, UndoInv, InMemory
<1>10. CacheInv'
  <2>1. ASSUME NEW o \in Outpoint \ dirty'  PROVE coins[o] = dbCoins'[o]
    BY <1>1 DEF Written, CacheInv, InMemory
  <2>. QED  BY <1>1, <1>2, <2>1 DEF CacheInv, HasTip, InMemory
<1>11. HeadsInv' /\ ReplayInv'
  BY <1>1 DEF HeadsInv, ReplayInv
<1>12. DBConsistent'
  BY <1>6 DEF DBConsistent
<1>13. IndexAheadOfCoins'
  BY <1>4 DEF IndexAheadOfCoins, HeadsInv
<1>. QED  BY <1>8, <1>9, <1>10, <1>11, <1>12, <1>13

LEMMA WriteFinalBatchStep ==
    ASSUME IInv, WriteFinalBatch
    PROVE  IInv'
<1>. USE DEF IInv, indexVars, WriteFinalBatch, AfterFlush
<1>1. node \in {"up", "stopping"}
  BY DEF HeadsInv
<1>2. coins = Utxo[hashBlock] /\ coins \in Coins /\ dbCoins \in Coins
  BY ZenonT(30), <1>1 DEF CacheInv, HasTip, TypeOK
<1>3. hashBlock \in dbIndex.known \cup {Null}
  BY DEF HeadsInv
<1>4. hashBlock = Null => dbHeadNew = Null
  BY <1>1 DEF HeadsInv
<1>5. CASE hashBlock = Null
  <2>1. TypeOK' /\ IndexInv' /\ UndoInv'
    BY <1>1, <1>5 DEF TypeOK, IndexInv, UndoInv, InMemory
  <2>2. CacheInv' /\ HeadsInv'
    BY SMTT(30), <1>1, <1>2, <1>4, <1>5 DEF CacheInv, HeadsInv, HasTip, InMemory
  <2>3. ReplayInv' /\ DBConsistent' /\ IndexAheadOfCoins'
    BY <1>1, <1>5 DEF ReplayInv, DBConsistent, IndexAheadOfCoins
  <2>. QED  BY SMTT(30), <2>1, <2>2, <2>3
<1>6. CASE hashBlock # Null
  <2>1. ASSUME NEW o \in Outpoint  PROVE Written(dirty)[o] = coins[o]
    BY <1>1 DEF Written, CacheInv, InMemory
  <2>2. Written(dirty) = coins
    BY SMTT(30), <1>2, <2>1 DEF Written, Coins
  <2>3. TypeOK' /\ IndexInv' /\ UndoInv'
    BY SMTT(30), <1>1, <1>2, <1>6, <2>2 DEF TypeOK, IndexInv, UndoInv, InMemory, BlockOrNull
  <2>4. CacheInv' /\ HeadsInv'
    BY SMTT(30), <1>1, <1>2, <1>6, <2>2 DEF CacheInv, HeadsInv, HasTip, InMemory
  <2>5. ReplayInv' /\ DBConsistent' /\ IndexAheadOfCoins'
    BY <1>1, <1>2, <1>3, <1>6, <2>2 DEF ReplayInv, DBConsistent, IndexAheadOfCoins
  <2>. QED  BY <2>3, <2>4, <2>5
<1>. QED  BY <1>5, <1>6

LEMMA MemoryLostStep ==
    ASSUME IInv, Crash \/ Exit
    PROVE  IInv'
<1>. USE DEF IInv, MemoryLost, diskVars, coinsDBVars
<1>1. MemoryLost /\ crashes' \in 0..MaxCrashes
  BY FlushAssumption DEF Crash, Exit, TypeOK
<1>2. NoCoins \in Coins
  BY DEF NoCoins, Coins, NoCoin
<1>3. TypeOK'
  BY <1>1, <1>2 DEF TypeOK, BlockOrNull
<1>4. IndexInv' /\ UndoInv' /\ CacheInv'
  BY ZenonT(30), <1>1 DEF IndexInv, UndoInv, CacheInv, HasTip, InMemory
<1>5. HeadsInv' /\ ReplayInv' /\ DBConsistent' /\ IndexAheadOfCoins'
  BY <1>1 DEF HeadsInv, ReplayInv, DBConsistent, IndexAheadOfCoins
<1>. QED  BY <1>3, <1>4, <1>5

\* The database a start finds fits ReplayBlocks or is consistent.
LEMMA LoadBlockIndexStep ==
    ASSUME IInv, LoadBlockIndex
    PROVE  IInv'
<1>. USE DEF IInv, LoadBlockIndex, diskVars, coinsDBVars
<1>1. TypeOK'
  <2>1. /\ dbIndex.known \in SUBSET Block /\ dbIndex.data \in SUBSET dbIndex.known
        /\ dbIndex.hasUndo \in SUBSET dbIndex.data
        /\ dbIndex.failed \in SUBSET dbIndex.known
    BY ZenonT(30) DEF TypeOK, Index, IndexInv
  <2>2. walk' \in BlockOrNull /\ hashBlock' \in BlockOrNull
    BY ZenonT(30), TreeAssumption DEF TypeOK, BlockOrNull
  <2>3. node' \in {"load", "replay"} \cup Refused
    BY ZenonT(30) DEF Refused
  <2>. QED  BY ZenonT(30), <2>1, <2>2, <2>3 DEF TypeOK
<1>2. hashBlock' \in dbIndex.known \cup {Null}
  <2>1. hashBlock = Null
    BY ZenonT(30) DEF IndexInv
  <2>2. dbBest \in dbIndex.known \cup {Null}
    BY ZenonT(30) DEF IndexAheadOfCoins
  <2>. QED  BY ZenonT(30), <2>1, <2>2
<1>3. node' \in {"load", "replay", "cannot replay", "missing files"} /\ flush = "none"
  BY ZenonT(30) DEF HeadsInv
<1>4. IndexInv' /\ UndoInv'
  BY ZenonT(30), <1>2, <1>3 DEF IndexInv, UndoInv, InMemory
<1>5. CacheInv'
  BY ZenonT(30), <1>3 DEF CacheInv, HasTip, InMemory, DBConsistent
<1>6. HeadsInv'
  BY ZenonT(30), <1>3 DEF HeadsInv
<1>7. ReplayInv'
  <2>. SUFFICES ASSUME node' = "replay"  PROVE ReplayInv'
    BY DEF ReplayInv
  <2>1. dbHeadNew # Null /\ walk' = IF dbHeadOld = Null THEN Genesis ELSE dbHeadOld
    OBVIOUS
  <2>2. walk' \in Block
    BY <2>1, TreeAssumption DEF TypeOK, BlockOrNull
  <2>3. Utxo[Genesis] = Utxo[Null]
    BY ZenonT(30), GenesisCoins
  <2>4. Utxo[walk'] = Utxo[dbHeadOld]
    BY ZenonT(30), <2>1, <2>3
  <2>. QED  BY <2>1, <2>2, <2>4 DEF ReplayInv, DBConsistent
<1>8. DBConsistent' /\ IndexAheadOfCoins'
  BY ZenonT(30) DEF DBConsistent, IndexAheadOfCoins
<1>. QED  BY ZenonT(30), <1>1, <1>4, <1>5, <1>6, <1>7, <1>8

\* One block of ReplayBlocks in either direction, or its end in failure.
LEMMA ReplayStep ==
    ASSUME IInv, ReplayRollback \/ ReplayRollforward
    PROVE  IInv'
<1>. USE DEF indexVars, diskVars, coinsDBVars
<1>0. /\ TypeOK /\ IndexInv /\ UndoInv /\ CacheInv /\ HeadsInv /\ ReplayInv
      /\ DBConsistent /\ IndexAheadOfCoins
  BY DEF IInv
<1>1. /\ node = "replay" /\ dbHeadNew \in Block /\ walk \in Block
      /\ \A o \in Outpoint : coins[o] \in {Utxo[walk][o], Utxo[dbHeadNew][o]}
      /\ UNCHANGED <<known, data, hasUndo, failed, tip, hashBlock, invalid, flush, prune,
                     files, rev, dbIndex, dbCoins, dbBest, dbHeadNew, dbHeadOld, crashes>>
  BY ZenonT(30), <1>0 DEF ReplayRollback, ReplayRollforward, ReplayInv, TypeOK, BlockOrNull
<1>2. \/ node' = "cannot replay" /\ UNCHANGED <<coins, dirty, walk>>
      \/ /\ node' = "replay"
         /\ coins' \in Coins /\ dirty' \in SUBSET Outpoint /\ walk' \in Block
         /\ \A o \in Outpoint : coins'[o] \in {Utxo[walk'][o], Utxo[dbHeadNew][o]}
         /\ \A o \in Outpoint \ dirty' : coins'[o] = dbCoins[o]
  <2>1. CASE ReplayRollback /\ walk \in data \cap hasUndo
    <3>1. /\ coins' = Rollback(coins, walk, rev[walk])
          /\ dirty' = dirty \cup Touched(walk) /\ walk' = Parent[walk] /\ node' = node
          /\ walk \notin Chain[dbHeadNew]
      BY ZenonT(30), <2>1 DEF ReplayRollback
    <3>2. rev[walk] = UndoOf(Utxo[Parent[walk]], walk)
      BY SMTT(30), <1>0, <2>1 DEF UndoInv
    <3>3. walk' \in Block
      BY ZenonT(30), <1>1, <3>1, ChainAssumption, ParentType
    <3>4. coins' \in Coins
      BY SMTT(30), <1>0, <1>1, <3>1, RollbackType DEF TypeOK
    <3>5. ASSUME NEW o \in Outpoint
          PROVE  coins'[o] \in {Utxo[walk'][o], Utxo[dbHeadNew][o]}
      <4>. DEFINE x == Utxo[dbHeadNew][o]
      <4>1. coins[o] \in {Utxo[walk][o], x} /\ coins \in Coins /\ walk \in Block
        BY SMTT(30), <1>0, <1>1 DEF TypeOK
      <4>. HIDE DEF x
      <4>2. Rollback(coins, walk, UndoOf(Utxo[Parent[walk]], walk))[o] \in {Utxo[Parent[walk]][o], x}
        BY SMTT(30), <4>1, RollbackPoint
      <4>. USE DEF x
      <4>. QED  BY ZenonT(30), <3>1, <3>2, <4>2
    <3>6. dirty' \in SUBSET Outpoint
      BY <1>0, <1>1, <3>1, CoinsAssumption DEF Touched, TypeOK
    <3>7. ASSUME NEW o \in Outpoint \ dirty'  PROVE coins'[o] = dbCoins[o]
      BY ZenonT(30), <1>0, <1>1, <3>1 DEF CacheInv, InMemory, Touched, Rollback
    <3>. QED  BY ZenonT(30), <1>1, <3>1, <3>3, <3>4, <3>5, <3>6, <3>7
  <2>2. CASE ReplayRollforward /\ NextTowards(walk, dbHeadNew) \in data
    <3>. DEFINE b == NextTowards(walk, dbHeadNew)
    <3>1. /\ coins' = Rollforward(coins, b) /\ dirty' = dirty \cup Touched(b)
          /\ walk' = b /\ node' = node
          /\ walk \in Chain[dbHeadNew] /\ walk # dbHeadNew
      BY <2>2 DEF ReplayRollforward
    <3>2. Parent[b] = walk /\ b \in Block
      BY ZenonT(30), <1>1, <3>1, NextTowardsParent, ChainType DEF BlockOrNull
    <3>. HIDE DEF b
    <3>4. coins' \in Coins
      BY SMTT(30), <1>0, <3>1, <3>2, RollforwardType DEF TypeOK
    <3>5. ASSUME NEW o \in Outpoint
          PROVE  coins'[o] \in {Utxo[walk'][o], Utxo[dbHeadNew][o]}
      <4>1. coins[o] \in {Utxo[Parent[b]][o], Utxo[dbHeadNew][o]} /\ coins \in Coins
        BY SMTT(30), <1>0, <1>1, <3>2 DEF TypeOK
      <4>2. Rollforward(coins, b)[o] \in {Utxo[b][o], Utxo[dbHeadNew][o]}
        BY SMTT(30), <3>2, <4>1, RollforwardPoint
      <4>. QED  BY SMTT(30), <3>1, <4>2
    <3>6. dirty' \in SUBSET Outpoint
      BY ZenonT(30), <1>0, <3>1, <3>2, CoinsAssumption DEF Touched, TypeOK
    <3>7. ASSUME NEW o \in Outpoint \ dirty'  PROVE coins'[o] = dbCoins[o]
      BY ZenonT(30), <1>0, <1>1, <3>1 DEF CacheInv, InMemory, Touched, Rollforward
    <3>. QED  BY SMTT(30), <1>1, <3>1, <3>2, <3>4, <3>5, <3>6, <3>7
  <2>. QED  BY ZenonT(30), <2>1, <2>2 DEF ReplayRollback, ReplayRollforward
<1>3. TypeOK'
  BY ZenonT(30), <1>0, <1>1, <1>2 DEF TypeOK, Refused, BlockOrNull
<1>4. IndexInv' /\ UndoInv'
  BY ZenonT(30), <1>0, <1>1, <1>2 DEF IndexInv, UndoInv, InMemory
<1>5. CacheInv'
  BY ZenonT(30), <1>0, <1>1, <1>2 DEF CacheInv, HasTip, InMemory
<1>6. HeadsInv' /\ ReplayInv'
  BY ZenonT(30), <1>0, <1>1, <1>2 DEF HeadsInv, ReplayInv
<1>7. DBConsistent' /\ IndexAheadOfCoins'
  BY ZenonT(30), <1>0, <1>1 DEF DBConsistent, IndexAheadOfCoins
<1>. QED  BY <1>3, <1>4, <1>5, <1>6, <1>7 DEF IInv

LEMMA ReplayDoneStep ==
    ASSUME IInv, ReplayDone
    PROVE  IInv'
<1>. USE DEF IInv, ReplayDone, indexVars, diskVars, coinsDBVars
<1>1. coins = Utxo[dbHeadNew]
  <2>1. coins \in Coins /\ Utxo[dbHeadNew] \in Coins
    BY UtxoType DEF TypeOK
  <2>2. \A o \in Outpoint : coins[o] = Utxo[dbHeadNew][o]
    BY ZenonT(30) DEF ReplayInv
  <2>. QED  BY <2>1, <2>2 DEF Coins
<1>2. dbHeadNew \in known
  BY SMTT(30) DEF ReplayInv, IndexAheadOfCoins, IndexInv, InMemory
<1>3. TypeOK' /\ IndexInv' /\ UndoInv'
  BY <1>2 DEF TypeOK, IndexInv, UndoInv, InMemory, BlockOrNull
<1>4. CacheInv'
  BY ZenonT(30), <1>1 DEF CacheInv, HasTip, InMemory
<1>5. HeadsInv' /\ ReplayInv' /\ DBConsistent' /\ IndexAheadOfCoins'
  BY DEF HeadsInv, ReplayInv, DBConsistent, IndexAheadOfCoins
<1>. QED  BY <1>3, <1>4, <1>5

LEMMA LoadChainTipStep ==
    ASSUME IInv, LoadChainTip
    PROVE  IInv'
<1>. USE DEF IInv, LoadChainTip, indexVars, diskVars, coinsDBVars
<1>1. dbHeadNew # Null => hashBlock \in known
  BY ZenonT(30) DEF HeadsInv, IndexAheadOfCoins, IndexInv, InMemory
<1>2. TypeOK' /\ IndexInv' /\ UndoInv'
  BY ZenonT(30) DEF TypeOK, IndexInv, UndoInv, InMemory, Refused, BlockOrNull
<1>3. CacheInv'
  BY ZenonT(30) DEF CacheInv, HasTip, InMemory
<1>4. HeadsInv'
  BY ZenonT(30), <1>1 DEF HeadsInv
<1>5. ReplayInv' /\ DBConsistent' /\ IndexAheadOfCoins'
  BY ZenonT(30) DEF ReplayInv, DBConsistent, IndexAheadOfCoins
<1>. QED  BY ZenonT(30), <1>2, <1>3, <1>4, <1>5

LEMMA StutterStep ==
    ASSUME IInv, UNCHANGED vars
    PROVE  IInv'
<1>. USE DEF IInv, vars, indexVars, chainVars, diskVars, coinsDBVars
<1>1. TypeOK' /\ IndexInv' /\ UndoInv'
  BY DEF TypeOK, IndexInv, UndoInv, InMemory
<1>2. CacheInv' /\ HeadsInv'
  BY ZenonT(30) DEF CacheInv, HeadsInv, HasTip, InMemory
<1>3. ReplayInv' /\ DBConsistent' /\ IndexAheadOfCoins'
  BY DEF ReplayInv, DBConsistent, IndexAheadOfCoins
<1>. QED  BY <1>1, <1>2, <1>3

\* The write error of WriteBatchFails is excluded: it does lose coins.
LEMMA NextStep ==
    ASSUME IInv, ~DBWriteMayFail, [Next]_vars
    PROVE  IInv'
<1>1. CASE Running
  BY <1>1, AcceptBlockStep, ConnectTipStep, FailureFlagsStep, DisconnectTipStep,
     UpdateTipStep, BeginFlushStep, TreeAssumption DEF Running
<1>2. CASE Flushing
  BY <1>2, UnlinkPrunedFileStep, WriteBatchSyncStep, WritePartialBatchStep,
     WriteFinalBatchStep DEF Flushing, WriteBatchFails
<1>3. CASE Starting
  BY <1>3, LoadBlockIndexStep, ReplayStep, ReplayDoneStep, LoadChainTipStep DEF Starting
<1>4. CASE Crash \/ Exit
  BY <1>4, MemoryLostStep
<1>5. CASE UNCHANGED vars
  BY <1>5, StutterStep
<1>. QED  BY <1>1, <1>2, <1>3, <1>4, <1>5 DEF Next

LEMMA Inductive ==
    ASSUME ~DBWriteMayFail
    PROVE  Spec => []IInv
<1>1. IInv /\ [Next]_vars => IInv'
  BY NextStep
<1>. QED  BY <1>1, InitInv, PTL DEF Spec

\* Every variable of FlushStateToDisk, of a start and of the databases stays in
\* its type; in particular the index never refers to data of an unknown block.
THEOREM TypeCorrect ==
    ASSUME ~DBWriteMayFail
    PROVE  Spec => []TypeOK
<1>1. IInv => TypeOK
  BY DEF IInv
<1>. QED  BY <1>1, Inductive, PTL

\* ReplayBlocks repairs what an interrupted DBBatchWrite left: whatever crashes,
\* partial batches, prunings and interrupted replays came before, the coins of a
\* running node are those of its best block.
THEOREM CoinsCorrect ==
    ASSUME ~DBWriteMayFail
    PROVE  Spec => []CoinsMatchBestBlock
<1>1. IInv => CoinsMatchBestBlock
  BY ZenonT(30) DEF IInv, CacheInv, HasTip, CoinsMatchBestBlock
<1>. QED  BY <1>1, Inductive, PTL

\* DBBatchWrite keeps its promise that a coin database which names a best block
\* is consistent with it, and mixes at most the two heads it names otherwise.
THEOREM DatabaseConsistent ==
    ASSUME ~DBWriteMayFail
    PROVE  Spec => []DBConsistent
<1>1. IInv => DBConsistent
  BY DEF IInv
<1>. QED  BY <1>1, Inductive, PTL

\* FlushStateToDisk never lets the coin database name a block that the index
\* database does not have, and the assertion of DBBatchWrite about an unfinished
\* transition never fails.
THEOREM WritesInOrder ==
    ASSUME ~DBWriteMayFail
    PROVE  Spec => []WritesOrdered
<1>1. IInv => IndexAheadOfCoins
  BY DEF IInv
<1>2. IInv => HeadsMatch
  BY DEF IInv, HeadsInv, HeadsMatch
<1>3. IInv => WritesOrdered
  BY <1>1, <1>2 DEF WritesOrdered
<1>. QED  BY <1>3, Inductive, PTL

-----------------------------------------------------------------------------
(***************************************************************************)
(* A node that neither prunes nor invalidates always starts again: the     *)
(* undo data of every block it may have to leave, and the data of every    *)
(* block it may have to apply, was in the index before the coins moved.    *)
(***************************************************************************)
\* All blocks of a chain that have undo data have it in the set given.
Undoable(b, undo) == Chain[b] \subseteq undo \cup {Genesis}

RestartInv ==
    /\ node \notin Refused
    /\ invalid = Null /\ prune = {} /\ failed = {} /\ dbIndex.failed = {}
    /\ Genesis \in dbIndex.known
    /\ dbIndex.data = dbIndex.known /\ data = known
    /\ dbIndex.data \subseteq files /\ data \subseteq files
    /\ InMemory => dbIndex.hasUndo \subseteq hasUndo
    /\ Undoable(hashBlock, hasUndo)
    /\ flush = "coins" => Undoable(hashBlock, dbIndex.hasUndo)
    /\ \A b \in {dbBest, dbHeadNew, dbHeadOld} : Undoable(b, dbIndex.hasUndo)
    /\ node = "replay" => Undoable(walk, hasUndo)

LEMMA ParentChain ==
    ASSUME NEW b \in Block
    PROVE  Chain[b] = Chain[Parent[b]] \cup {b}
  BY TreeAssumption

LEMMA RestartInit == Init => RestartInv
  BY TreeAssumption DEF Init, NoIndex, RestartInv, Undoable, Refused

LEMMA RestartRunning ==
    ASSUME IInv, RestartInv, ~PruneMode, Invalidatable = {}, Running
    PROVE  RestartInv'
<1>. USE DEF RestartInv, Undoable
<1>1. ASSUME NEW b \in Block, AcceptBlock(b)  PROVE RestartInv'
  BY ZenonT(30), <1>1 DEF AcceptBlock, Idle, Between, chainVars, coinsDBVars, InMemory
<1>2. ASSUME NEW b \in Block, ConnectTip(b)  PROVE RestartInv'
  <2>1. Chain[b] = Chain[hashBlock] \cup {b}
    BY ZenonT(30), <1>2, ParentChain DEF ConnectTip, Idle, Between
  <2>. QED
    BY <1>2, <2>1 DEF ConnectTip, Idle, Between, coinsDBVars, InMemory
<1>3. ASSUME NEW b \in Block, InvalidateBlock(b) \/ ResetBlockFailureFlags(b)
      PROVE  RestartInv'
  BY SMTT(30), <1>3 DEF InvalidateBlock, ResetBlockFailureFlags
<1>4. CASE DisconnectTip
  <2>1. hashBlock' = Parent[hashBlock] /\ hashBlock \in Block
    BY ZenonT(30), <1>4 DEF DisconnectTip, DisconnectBlock, Idle, Between, IInv, TypeOK, BlockOrNull
  <2>2. Chain[hashBlock'] \subseteq Chain[hashBlock]
    BY ZenonT(30), <2>1, ParentChain
  <2>. QED
    BY <1>4, <2>2 DEF DisconnectTip, Idle, Between, indexVars, diskVars, coinsDBVars, InMemory
<1>5. CASE UpdateTip \/ DisconnectTipAborts \/ StartShutdown \/ PeriodicWrite
  BY ZenonT(30), <1>5 DEF UpdateTip, DisconnectTipAborts, StartShutdown, PeriodicWrite, Idle, Between,
              indexVars, chainVars, diskVars, coinsDBVars, InMemory, Refused
<1>6. CASE InvalidateTip \/ InvalidateFails \/ InvalidateDone
  BY ZenonT(30), <1>6 DEF InvalidateTip, InvalidateFails, InvalidateDone
<1>7. ASSUME NEW pruned \in SUBSET Block, FlushStateToDisk(pruned)  PROVE RestartInv'
  BY <1>7 DEF FlushStateToDisk, indexVars, chainVars, diskVars, coinsDBVars, InMemory
<1>. QED  BY ZenonT(30), <1>1, <1>2, <1>3, <1>4, <1>5, <1>6, <1>7 DEF Running

LEMMA RestartFlushing ==
    ASSUME IInv, RestartInv, ~DBWriteMayFail, Flushing
    PROVE  RestartInv'
<1>. USE DEF RestartInv, Undoable
<1>1. node \in {"up", "stopping"} \/ flush = "none"
  BY DEF IInv, HeadsInv
<1>2. ASSUME NEW b \in Block, UnlinkPrunedFile(b)  PROVE RestartInv'
  BY ZenonT(30), <1>2 DEF UnlinkPrunedFile
<1>3. CASE WriteBatchSync
  <2>1. dbIndex' = [known |-> known, data |-> data, hasUndo |-> hasUndo, failed |-> failed]
    BY ZenonT(30), <1>3 DEF WriteBatchSync
  <2>0. InMemory
    BY <1>1, <1>3 DEF InMemory, WriteBatchSync
  <2>2. dbIndex.known \subseteq known /\ dbIndex.hasUndo \subseteq hasUndo
    BY SMTT(30), <2>0 DEF IInv, IndexInv
  <2>3. UNCHANGED <<node, invalid, prune, failed, data, known, files, hashBlock, hasUndo, walk,
                    dbBest, dbHeadNew, dbHeadOld>>
    BY SMTT(30), <1>3 DEF WriteBatchSync, indexVars, chainVars, coinsDBVars
  <2>4. /\ dbIndex'.known = known /\ dbIndex'.data = data
        /\ dbIndex'.hasUndo = hasUndo /\ dbIndex'.failed = failed
    BY <2>1
  <2>5. \A b \in {dbBest, dbHeadNew, dbHeadOld} : Undoable(b, hasUndo)
    BY <2>2
  <2>. HIDE DEF Undoable
  <2>6. Genesis \in known
    BY <2>2
  <2>. QED  BY ZenonT(30), <2>3, <2>4, <2>5, <2>6 DEF Undoable
<1>4. ASSUME NEW S \in SUBSET Outpoint, WritePartialBatch(S)  PROVE RestartInv'
  <2>1. Undoable(Null, dbIndex.hasUndo) /\ Undoable(OldTip, dbIndex.hasUndo)
    BY TreeAssumption DEF OldTip
  <2>. QED
    BY ZenonT(30), <1>1, <1>4, <2>1 DEF WritePartialBatch, indexVars, InMemory
<1>5. CASE WriteFinalBatch
  BY ZenonT(30), <1>1, <1>5, TreeAssumption DEF WriteFinalBatch, AfterFlush, indexVars, InMemory, Refused
<1>. QED  BY ZenonT(30), <1>2, <1>3, <1>4, <1>5 DEF Flushing, WriteBatchFails

LEMMA RestartStarting ==
    ASSUME IInv, RestartInv, Starting
    PROVE  RestartInv'
<1>. USE DEF RestartInv, Undoable
<1>1. CASE LoadBlockIndex
  <2>1. {dbHeadNew, dbHeadOld} \subseteq dbIndex.known \cup {Null}
    BY ZenonT(30) DEF IInv, IndexAheadOfCoins
  <2>2. Chain[Genesis] \subseteq {Genesis} /\ Chain[Null] = {}
    BY TreeAssumption
  <2>3. hashBlock = Null /\ flush = "none"
    BY ZenonT(30), <1>1 DEF LoadBlockIndex, IInv, IndexInv, HeadsInv
  <2>. QED
    BY ZenonT(30), <1>1, <2>1, <2>2, <2>3 DEF LoadBlockIndex, diskVars, coinsDBVars, InMemory, Refused
<1>2. CASE ReplayRollback
  <2>1. node = "replay" /\ walk \in Block /\ walk \notin Chain[dbHeadNew] /\ dbHeadNew \in Block
    BY ZenonT(30), <1>2 DEF ReplayRollback, IInv, ReplayInv, TypeOK, BlockOrNull
  <2>2. walk # Genesis /\ Chain[walk] = Chain[Parent[walk]] \cup {walk}
    BY SMTT(30), <2>1, ChainAssumption, ParentChain
  <2>3. walk \in data \cap hasUndo
    BY SMTT(30), <2>1, <2>2 DEF IInv, TypeOK
  <2>. QED
    BY <1>2, <2>1, <2>2, <2>3
    DEF ReplayRollback, indexVars, diskVars, coinsDBVars, InMemory
<1>3. CASE ReplayRollforward
  <2>. DEFINE b == NextTowards(walk, dbHeadNew)
  <2>1. node = "replay" /\ walk \in Block /\ walk \in Chain[dbHeadNew] /\ dbHeadNew \in Block
        /\ walk # dbHeadNew
    BY ZenonT(30), <1>3 DEF ReplayRollforward, IInv, ReplayInv, TypeOK, BlockOrNull
  <2>2. b \in Chain[dbHeadNew] /\ Parent[b] = walk /\ b \in Block
    BY ZenonT(30), <2>1, NextTowardsParent, ChainType DEF BlockOrNull
  <2>. HIDE DEF b
  <2>3. Chain[b] \subseteq Chain[dbHeadNew] /\ b # Genesis
    BY <2>1, <2>2, ChainAssumption, TreeAssumption
  <2>4. b \in hasUndo /\ Chain[b] \subseteq hasUndo \cup {Genesis}
    BY SMTT(30), <2>1, <2>2, <2>3 DEF InMemory
  <2>5. b \in data
    BY SMTT(30), <2>4 DEF IInv, TypeOK
  <2>6. walk' = b /\ node' = node
    BY SMTT(30), <1>3, <2>5 DEF ReplayRollforward, b
  <2>. QED
    BY <1>3, <2>1, <2>4, <2>6
    DEF ReplayRollforward, indexVars, diskVars, coinsDBVars, InMemory
<1>4. CASE ReplayDone
  BY <1>4 DEF ReplayDone, indexVars, diskVars, coinsDBVars, InMemory, IInv, HeadsInv, Refused
<1>5. CASE LoadChainTip
  BY ZenonT(30), <1>5 DEF LoadChainTip, indexVars, diskVars, coinsDBVars, InMemory, Refused
<1>. QED  BY ZenonT(30), <1>1, <1>2, <1>3, <1>4, <1>5 DEF Starting

LEMMA RestartMemoryLost ==
    ASSUME RestartInv, Crash \/ Exit
    PROVE  RestartInv'
  BY ZenonT(30), TreeAssumption
  DEF RestartInv, Undoable, Crash, Exit, MemoryLost, diskVars, coinsDBVars, InMemory, Refused

\* Without pruning and without invalidateblock, no crash at any point of a flush,
\* a reorganization or an earlier start makes LoadBlockIndexDB, ReplayBlocks or
\* LoadChainTip refuse to start.
THEOREM AlwaysRestarts ==
    ASSUME ~DBWriteMayFail, ~PruneMode, Invalidatable = {}
    PROVE  Spec => []RestartSucceeds
<1>1. IInv /\ RestartInv /\ [Next]_vars => RestartInv'
  <2>. SUFFICES ASSUME IInv, RestartInv, [Next]_vars  PROVE RestartInv'
    OBVIOUS
  <2>1. CASE UNCHANGED vars
    BY ZenonT(30), <2>1 DEF vars, indexVars, chainVars, diskVars, coinsDBVars, RestartInv, Undoable,
                InMemory
  <2>. QED
    BY <2>1, RestartRunning, RestartFlushing, RestartStarting, RestartMemoryLost DEF Next
<1>2. RestartInv => RestartSucceeds
  BY ZenonT(30) DEF RestartInv, RestartSucceeds
<1>. QED  BY <1>1, <1>2, RestartInit, Inductive, PTL DEF Spec
=============================================================================
