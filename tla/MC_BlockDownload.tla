------------------------- MODULE MC_BlockDownload -------------------------
(* Instances of BlockDownload for TLC: an honest peer is one that
   sends what it is asked for. *)
EXTENDS BlockDownload, TLC

CONSTANTS p1, p2

Start(honest, headers, unasked, compact, parallel, verdict) ==
    [peers |-> {p1, p2}, honest |-> honest, headers |-> headers, stored |-> 0, unasked |-> unasked,
     compact |-> compact, parallel |-> parallel, verdict |-> verdict]

Alone(s, p) == [s EXCEPT !.peers = {p}]

FarAhead(honest) ==
    [Start(honest, 3, 0, TRUE, 1, <<"ok", "ok", "ok">>) EXCEPT !.stored = 2]

(* Two blocks and a peer that may hold them up, with a download window of one
   block; one block in full and in compact form, also unasked, with parallel
   downloads, and without them; an invalid block from two peers; an invalid block
   announced before its header is known; compact blocks far ahead of the tip, from one
   peer, from more peers than a block may be downloaded from, and from a peer that may
   go before it sends the block. *)
MCStarts ==
    {Start({p1}, 2, 0, FALSE, 2, <<"ok", "ok", "none">>),
     Start({p1}, 0, 1, TRUE, 2, <<"ok", "none", "none">>),
     Start({p1}, 1, 0, FALSE, 1, <<"ok", "none", "none">>),
     Start({}, 1, 0, TRUE, 2, <<"connect", "none", "none">>),
     Alone(Start({}, 0, 1, TRUE, 2, <<"ok", "check", "none">>), p2),
     Alone(Start({p1}, 0, 0, TRUE, 2, <<"ok", "ok", "ok">>), p1),
     FarAhead({p1, p2}),
     Alone(FarAhead({}), p2)}

FarAheadOnly == {FarAhead({p1, p2})}
=============================================================================
