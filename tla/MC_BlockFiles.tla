-------------------------- MODULE MC_BlockFiles --------------------------
(***************************************************************************)
(* Instances of BlockFiles for TLC: blocks of two sizes in files that take *)
(* two or three of them.                                                   *)
(***************************************************************************)
EXTENDS BlockFiles

MCBlockSize == [b \in Block |-> IF b % 2 = 0 THEN 1 ELSE 2]
MCUndoSize == [b \in Block |-> IF b % 2 = 0 THEN 2 ELSE 1]

\* A node that keeps everything, on a machine that loses power.
Archive == [top |-> 4, preferred |-> 5, target |-> 0, openMayFail |-> FALSE,
            powerMayFail |-> TRUE]

\* A node that prunes, crashes and cannot always write.
Pruning == [top |-> 3, preferred |-> 6, target |-> 9, openMayFail |-> TRUE,
            powerMayFail |-> FALSE]

Situations == {Archive, Pruning}
=============================================================================
