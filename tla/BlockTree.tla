----------------------------- MODULE BlockTree -----------------------------
(***************************************************************************)
(* The tree of blocks a node can learn about.  It never changes: the       *)
(* header of a block fixes its parent.  Sources: CBlockIndex               *)
(* (block_index.h, block_index.cpp).                                       *)
(***************************************************************************)
EXTENDS Integers

CONSTANTS
    Block,
    Genesis,
    Null,      \* the null hash, the best block of an empty coin database
    Parent,    \* CBlockIndex::pprev, Null for the genesis block
    Height,    \* CBlockIndex::nHeight
    Chain      \* the blocks from the genesis block up to a block

BlockOrNull == Block \cup {Null}

\* Mutant of NextTowards: the height is not increased.
NextTowardsSame(b, pindexNew) == b

\* pindexNew->GetAncestor(height of b + 1), for b below pindexNew.
NextTowards(b, pindexNew) == CHOOSE c \in Chain[pindexNew] : Parent[c] = b

\* Blocks are linked to the genesis block.
ASSUME TreeAssumption ==
    /\ Genesis \in Block
    /\ Null \notin Block
    /\ Parent \in [Block -> BlockOrNull]
    /\ Parent[Genesis] = Null
    /\ \A b \in Block \ {Genesis} : Parent[b] \in Block
    /\ Height \in [Block -> Nat]
    /\ Height[Genesis] = 0
    /\ \A b \in Block \ {Genesis} : Height[b] = Height[Parent[b]] + 1
    /\ Chain \in [BlockOrNull -> SUBSET Block]
    /\ Chain[Null] = {}
    /\ \A b \in Block : b \notin Chain[Parent[b]] /\ Chain[b] = Chain[Parent[b]] \cup {b}

\* Consequences of the tree shape, by induction on the height: a chain holds
\* the chain of each of its blocks, one block follows each block below the top,
\* and it starts at the genesis block.
ASSUME ChainAssumption ==
    \A b \in Block :
        /\ Genesis \in Chain[b]
        /\ \A c \in Chain[b] : Chain[c] \subseteq Chain[b]
        /\ \A c \in Chain[b] \ {b} : \E d \in Chain[b] : Parent[d] = c
=============================================================================
