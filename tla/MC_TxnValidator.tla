--------------------------- MODULE MC_TxnValidator ---------------------------
(***************************************************************************)
(* Small families of transactions for TxnValidator.  x and y are confirmed  *)
(* outpoints; a transaction named in vin[t] is spent through its output 0   *)
(* unless said otherwise.                                                   *)
(***************************************************************************)
EXTENDS TxnValidator, TLC

X == <<"base", 0>>
Y == <<"base", 1>>
Z == <<"base", 2>>
Out(t) == <<t, 0>>

NoEvents == [rpc |-> {}, block |-> {}, timeouts |-> 0, overflows |-> 0, faults |-> 0,
             leaves |-> 0]

Situation(vin, verdict, budgetOfStart) ==
    [vin |-> vin, verdict |-> verdict,
     peer |-> [t \in DOMAIN vin |-> "p"], sends |-> [t \in DOMAIN vin |-> 1],
     MaxQueueMemSize |-> 4, MaxOrphanTxSize |-> 4, budget |-> budgetOfStart]

Ok(ts) == [t \in ts |-> "ok"]

\* Two rivals for x, each with a child; the time of a batch may run out.
Rivals ==
    Situation([a |-> {X}, b |-> {X, Y}, c |-> {Out("a")}, d |-> {Out("b")}],
              Ok({"a", "b", "c", "d"}), [NoEvents EXCEPT !.timeouts = 1])

\* A transaction with two parents, one of them slow, and a grandchild.
Diamond ==
    Situation([p |-> {X}, q |-> {Y}, o |-> {Out("p"), Out("q")}, g |-> {Out("o")}],
              [p |-> "ok", q |-> "slow", o |-> "ok", g |-> "ok"],
              [NoEvents EXCEPT !.timeouts = 1])

\* A rejected parent, an invalid orphan, a full orphan pool, a lost peer.
Rejected ==
    [Situation([p |-> {X}, c |-> {Out("p")}, i |-> {Out("p"), Y}, g |-> {Out("c")}],
              [p |-> "ok", c |-> "policy", i |-> "invalid", g |-> "ok"],
              [NoEvents EXCEPT !.leaves = 1, !.timeouts = 1])
     EXCEPT !.MaxOrphanTxSize = 2, !.sends = [p |-> 1, c |-> 2, i |-> 1, g |-> 1],
            !.peer = [p |-> "p", c |-> "q", i |-> "p", g |-> "p"]]

\* A malformed transaction of a peer that also sent orphans, and one never relayed.
Malformed ==
    [Situation([p |-> {X}, c |-> {Out("p")}, m |-> {Out("c")}, n |-> {Y}],
               [p |-> "ok", c |-> "ok", m |-> "malformed", n |-> "nonstandard"],
               [NoEvents EXCEPT !.timeouts = 1])
     EXCEPT !.peer = [p |-> "q", c |-> "p", m |-> "p", n |-> "q"]]

\* The rival of a pool transaction is confirmed, and may then be sent again.
Confirmed ==
    [Situation([a |-> {X}, b |-> {X}, c |-> {Out("b")}],
               Ok({"a", "b", "c"}),
               [NoEvents EXCEPT !.block = {"b"}, !.overflows = 1, !.timeouts = 1])
     EXCEPT !.sends = [a |-> 1, b |-> 2, c |-> 1]]

\* Transactions submitted by RPC, faults, and full queues.
Submitted ==
    [Situation([p |-> {X}, c |-> {Out("p")}, r |-> {Out("p")}],
               [p |-> "slow", c |-> "slow", r |-> "ok"],
               [NoEvents EXCEPT !.rpc = {"p", "r"}, !.faults = 1])
     EXCEPT !.MaxQueueMemSize = 1, !.sends = [p |-> 1, c |-> 2, r |-> 1]]

\* An orphan with two parents that needs more time, and a rival of it.
SlowOrphan ==
    Situation([p |-> {X}, q |-> {Y}, o |-> {Out("p"), Out("q")}, d |-> {Out("p")}],
              [p |-> "ok", q |-> "ok", o |-> "slow", d |-> "ok"], NoEvents)

Situations == {Rivals, Diamond, Rejected, Malformed, Confirmed, Submitted}
SlowOrphans == {SlowOrphan}
=============================================================================
