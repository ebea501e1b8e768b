----------------------------- MODULE BlockCoins -----------------------------
(***************************************************************************)
(* The coins each block spends and creates.  These never change: the       *)
(* header of a block fixes its transactions through the merkle root.       *)
(* Sources: UpdateCoins and AddCoins (validation.cpp, coins.cpp),          *)
(* ProcessingBlockIndex::ApplyBlockUndo (processing_block_index.cpp).      *)
(*                                                                         *)
(* A coin is the height of the block that created it (Coin::nHeight), the  *)
(* part of it that differs when one transaction is mined in two branches.  *)
(* Coins created and spent inside one block are left out.                  *)
(***************************************************************************)
EXTENDS BlockTree

CONSTANTS
    Outpoint,
    Spends,    \* outpoints of earlier blocks that a block spends
    Creates,   \* outpoints a block creates
    Utxo       \* the unspent coins after a block

NoCoin == -1
Coins == [Outpoint -> Nat \cup {NoCoin}]
NoCoins == [o \in Outpoint |-> NoCoin]
Touched(b) == Spends[b] \cup Creates[b]

\* The effect of a block on a coin set: UpdateCoins when it is connected,
\* RollforwardBlock when it is replayed over coins it may already have changed.
Rollforward(coins, b) ==
    [o \in Outpoint |-> IF o \in Creates[b] THEN Height[b]
                        ELSE IF o \in Spends[b] THEN NoCoin
                        ELSE coins[o]]

\* ApplyBlockUndo returns DISCONNECT_OK: every output was there as the block
\* made it, and no restored coin was.
DisconnectClean(coins, b) ==
    /\ \A o \in Creates[b] : coins[o] = Height[b]
    /\ \A o \in Spends[b] : coins[o] = NoCoin

\* Mutant of Rollback: coins that do not fit the block are left alone.
RollbackClean(coins, b, undo) ==
    IF DisconnectClean(coins, b)
    THEN [o \in Outpoint |-> IF o \in Creates[b] THEN NoCoin
                             ELSE IF o \in Spends[b] THEN undo[o]
                             ELSE coins[o]]
    ELSE coins

\* ApplyBlockUndo: the outputs go, the spent coins come back from undo data.
Rollback(coins, b, undo) ==
    [o \in Outpoint |-> IF o \in Creates[b] THEN NoCoin
                        ELSE IF o \in Spends[b] THEN undo[o]
                        ELSE coins[o]]

\* CBlockUndo, filled by UpdateCoins from the coins it spends.
UndoOf(coins, b) == [o \in Outpoint |-> IF o \in Spends[b] THEN coins[o] ELSE NoCoin]

\* Every block spends coins that are there and creates coins that are not, and
\* Utxo is what connecting a chain of blocks in order leaves.
ASSUME CoinsAssumption ==
    /\ Spends \in [Block -> SUBSET Outpoint]
    /\ Creates \in [Block -> SUBSET Outpoint]
    /\ Spends[Genesis] = {} /\ Creates[Genesis] = {}
    /\ Utxo \in [BlockOrNull -> Coins]
    /\ Utxo[Null] = NoCoins
    /\ \A b \in Block :
          /\ Spends[b] \cap Creates[b] = {}
          /\ \A o \in Spends[b] : Utxo[Parent[b]][o] # NoCoin
          /\ \A o \in Creates[b] : Utxo[Parent[b]][o] = NoCoin
          /\ Utxo[b] = Rollforward(Utxo[Parent[b]], b)
=============================================================================
