------------------------ MODULE MC_ChainActivation ------------------------
(***************************************************************************)
(* Instances of ChainActivation for TLC: trees where blocks of equal work  *)
(* compete and a longer branch takes over through a reorganization.        *)
(***************************************************************************)
EXTENDS ChainActivation

TreeParent == [g |-> "null", a1 |-> "g", b1 |-> "g", c1 |-> "g", c2 |-> "c1",
               a2 |-> "a1", d2 |-> "a1", d3 |-> "d2"]
TreeBlock == DOMAIN TreeParent
TreeHeight == [g |-> 0, a1 |-> 1, b1 |-> 1, c1 |-> 1, c2 |-> 2, a2 |-> 2, d2 |-> 2, d3 |-> 3]
TreeChain[b \in TreeBlock \cup {"null"}] ==
    IF b = "null" THEN {} ELSE TreeChain[TreeParent[b]] \cup {b}
TreeAddress == [g |-> 0, a1 |-> 1, a2 |-> 2, d2 |-> 3, d3 |-> 4, b1 |-> 5, c1 |-> 6, c2 |-> 7]

\* Blocks of three branches on the genesis block arrive in any order on three
\* threads; one is invalid.
Parallel ==
    [blocks |-> {"a1", "b1", "c1", "c2"}, valid |-> {"g", "a1", "c1", "c2"},
     threads |-> {"t1", "t2", "t3"}, parallel |-> 2, invalidatable |-> {},
     reconsiderable |-> {}, preciousable |-> {}, calls |-> 0]

\* Calls of the three RPCs between activations, on a fork above the first block
\* of a branch and a branch of one block.
Rpc ==
    [blocks |-> {"a1", "a2", "d2", "d3", "b1"}, valid |-> {"g", "a1", "a2", "d2", "b1"},
     threads |-> {"t1"}, parallel |-> 1, invalidatable |-> {"a1", "a2"},
     reconsiderable |-> {"a1"}, preciousable |-> {"b1", "d2"}, calls |-> 3]

\* A block becomes precious, or is delivered again, during validations.
Precious ==
    [Parallel EXCEPT !.blocks = {"a1", "c1", "c2"}, !.threads = {"t1", "t2"},
                     !.preciousable = {"a1", "c1"}, !.calls = 1]

Situations == {Parallel, Rpc, Precious}

\* A block is marked invalid while its scripts are being checked.
Invalidated ==
    [Parallel EXCEPT !.threads = {"t1", "t2"}, !.parallel = 1, !.invalidatable = {"a1"},
                     !.calls = 1]
Invalidations == {Invalidated}
=============================================================================
