--------------------------- MODULE MC_CoinsCache ---------------------------
(***************************************************************************)
(* Instances of CoinsCache for TLC.                                         *)
(***************************************************************************)
EXTENDS CoinsCache, TLC

CONSTANTS o1, o2, c1, c2, h1, h2, t1, t2

\* One outpoint that can hold two different coins (the same transaction in two
\* branches), two threads that connect blocks, two blocks.
Branches ==
    [coins |-> o1 :> {c1, c2} @@ o2 :> {}, hashes |-> {h1, h2}, connecting |-> {t1, t2}]

\* Two outpoints and room for one script: loads of a thread that connects a
\* block and of one that validates transactions compete for the cache.
Space ==
    [coins |-> o1 :> {c1} @@ o2 :> {c1}, hashes |-> {h1}, connecting |-> {t1}]

Situations == {Branches, Space}
=============================================================================
