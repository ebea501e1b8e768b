------------------------ MODULE MC_ChainstateFlush ------------------------
(***************************************************************************)
(* Instances of ChainstateFlush for TLC: a block c on the genesis block g, *)
(* and two branches of different length on c.  The coin o1 of c is spent   *)
(* on one branch only, o2 lives and dies inside that branch, and the       *)
(* transaction of o3 is mined on both branches, at different heights.      *)
(***************************************************************************)
EXTENDS ChainstateFlush

MCParent == [g |-> "null", c |-> "g", a1 |-> "c", a2 |-> "a1", b1 |-> "c"]
MCBlock == DOMAIN MCParent
MCHeight == [g |-> 0, c |-> 1, a1 |-> 2, a2 |-> 3, b1 |-> 2]
MCChain[b \in MCBlock \cup {"null"}] ==
    IF b = "null" THEN {} ELSE MCChain[MCParent[b]] \cup {b}
MCOutpoint == {"o1", "o2", "o3"}
MCCreates == [g |-> {}, c |-> {"o1"}, a1 |-> {"o2"}, a2 |-> {"o3"}, b1 |-> {"o3"}]
MCSpends == [g |-> {}, c |-> {}, a1 |-> {"o1"}, a2 |-> {"o2"}, b1 |-> {}]
MCUtxo[b \in MCBlock \cup {"null"}] ==
    IF b = "null" THEN [o \in MCOutpoint |-> -1]
    ELSE [o \in MCOutpoint |-> IF o \in MCCreates[b] THEN MCHeight[b]
                               ELSE IF o \in MCSpends[b] THEN -1
                               ELSE MCUtxo[MCParent[b]][o]]
=============================================================================
