------------------------------ MODULE UtxoSet ------------------------------
(***************************************************************************)
(* What the layered coin caches of the node promise together: one set of   *)
(* unspent coins that belongs to one best block, private snapshots of it   *)
(* for the threads that connect or disconnect a block, and a commit that   *)
(* replaces the whole set at once, allowed only to a snapshot that was     *)
(* taken at the best block that is still current.  Caches, flags, flushes  *)
(* to disk, evictions and locks do not appear.                             *)
(***************************************************************************)
CONSTANTS Outpoint, Coin, NoCoin, Hash, Null, Unknown, Span

VARIABLES
    tip,     \* the best block
    utxoAt,  \* the coin set each block hash stands for, Unknown until it is built
    base,    \* the best block a snapshot was taken at, Unknown when there is none
    view     \* the snapshot together with its owner's changes

vars == <<tip, utxoAt, base, view>>

Coins == [Outpoint -> Coin \cup {NoCoin}]
NoCoins == [o \in Outpoint |-> NoCoin]

Init ==
    /\ tip \in Hash \cup {Null}
    /\ \E u \in Coins :
          /\ tip = Null => u = NoCoins
          /\ utxoAt = [h \in Hash \cup {Null} |->
                          IF h = tip THEN u ELSE IF h = Null THEN NoCoins ELSE Unknown]
    /\ base = [s \in Span |-> Unknown]
    /\ view = [s \in Span |-> NoCoins]

Open(s) ==
    /\ base[s] = Unknown
    /\ base' = [base EXCEPT ![s] = tip]
    /\ view' = [view EXCEPT ![s] = utxoAt[tip]]
    /\ UNCHANGED <<tip, utxoAt>>

Add(s, o, c) ==
    /\ base[s] = tip
    /\ view' = [view EXCEPT ![s][o] = c]
    /\ UNCHANGED <<tip, utxoAt, base>>

Spend(s, o) ==
    /\ base[s] = tip
    /\ view' = [view EXCEPT ![s][o] = NoCoin]
    /\ UNCHANGED <<tip, utxoAt, base>>

Commit(s, h) ==
    /\ base[s] = tip
    /\ utxoAt[h] \in {Unknown, view[s]}
    /\ tip' = h
    /\ utxoAt' = [utxoAt EXCEPT ![h] = view[s]]
    /\ base' = [base EXCEPT ![s] = Unknown]
    /\ view' = [view EXCEPT ![s] = NoCoins]

Close(s) ==
    /\ base[s] # Unknown
    /\ base' = [base EXCEPT ![s] = Unknown]
    /\ view' = [view EXCEPT ![s] = NoCoins]
    /\ UNCHANGED <<tip, utxoAt>>

Next ==
    \E s \in Span :
        \/ Open(s)
        \/ \E o \in Outpoint : Spend(s, o) \/ \E c \in Coin : Add(s, o, c)
        \/ \E h \in Hash : Commit(s, h)
        \/ Close(s)

Spec == Init /\ [][Next]_vars
=============================================================================
