--------------------------- MODULE MempoolGroups ---------------------------
(***************************************************************************)
(* The transaction pool of txmempool.cpp: its entries in insertion order,   *)
(* the primary pool of what may be mined, the secondary pool of what does   *)
(* not pay the block's minimum fee, and the child-pays-for-parent groups    *)
(* that bring secondary transactions into the primary pool together.        *)
(*                                                                          *)
(* Every operator here runs under the exclusive lock smtx.  It maps a pool  *)
(* p to the pool it leaves behind, whose field ops has grown by the changes *)
(* of the mining journal, in their order.  Sizes are counted in             *)
(* transactions, and the minimum fee rate is one unit per transaction.      *)
(***************************************************************************)
EXTENDS Integers, Sequences, FiniteSets, SequencesExt, FiniteSetsExt

CONSTANTS
    Txs,        \* the transactions there are
    NoTx,       \* no transaction: the group of an entry outside any group
    MaxVisits   \* MAX_NUMBER_OF_TX_TO_VISIT_IN_ONE_GO

ASSUME NoTxAssumption == NoTx \notin Txs
ASSUME MaxVisitsAssumption == MaxVisits \in Nat

(***************************************************************************)
(* start.parents[t] are the transactions whose outputs t spends,            *)
(* start.rivals[t] those that spend an output t spends too, start.fee[t]    *)
(* is what t pays.                                                          *)
(***************************************************************************)
VARIABLES
    start,  \* the situation of this behaviour, fixed
    pool    \* the entries: their order, grouping data and groups; mapDeltas, the fee
            \* each transaction is credited with; the candidates of the eviction
            \* tracker, and how groups have changed since it was set up; and whether
            \* every assertion of the tracker has held

\* Accumulated data of a secondary entry; a primary entry has none.
GroupingData == [fee : Int, size : Nat, ancestors : Nat]
Dummy == [fee |-> 0, size |-> 0, ancestors |-> 0]
NoData == [fee |-> 0, size |-> 0, ancestors |-> -1]

\* evictionTracker is not set.
NoTracker == {NoTx}

\* A change of the journal names a transaction and the group it belongs to.
Operations == [op : {"ADD", "REMOVE"}, entry : [tx : Txs, group : Txs \cup {NoTx}]]

Pools == [order : Seq(Txs), data : [Txs -> GroupingData \cup {NoData}],
          group : [Txs -> Txs \cup {NoTx}], delta : [Txs -> Int], ops : Seq(Operations),
          tracked : SUBSET Txs \cup {NoTracker},
          regrouped : SUBSET {"formed", "disbanded"}, asserts : BOOLEAN]

EmptyPool == [order |-> <<>>, data |-> [t \in Txs |-> NoData],
              group |-> [t \in Txs |-> NoTx], delta |-> [t \in Txs |-> 0], ops |-> <<>>,
              tracked |-> NoTracker, regrouped |-> {}, asserts |-> TRUE]

Entries(p) == ToSet(p.order)
IsInPrimaryMempool(p, t) == p.data[t] = NoData
Primary(p) == {t \in Entries(p) : IsInPrimaryMempool(p, t)}
IsCPFPGroupMember(p, t) == p.group[t] # NoTx
Members(p, payer) == {t \in Entries(p) : p.group[t] = payer}
Children(p, t) == {c \in Entries(p) : t \in start.parents[c]}
ModifiedFee(p, t) == start.fee[t] + p.delta[t]

\* The entries of S in insertion order, which is a topological order.
InOrder(p, S) == SelectSeq(p.order, LAMBDA t : t \in S)
First(p, S) == Head(InOrder(p, S))

SecondaryParents(p, t) ==
    {q \in start.parents[t] \cap Entries(p) : ~IsInPrimaryMempool(p, q)}

JournalEntry(p, t) == [tx |-> t, group |-> p.group[t]]
Change(p, op, t) == [op |-> op, entry |-> JournalEntry(p, t)]
AddOperations(p, op, s) == [p EXCEPT !.ops = @ \o [i \in DOMAIN s |-> Change(p, op, s[i])]]

GetDescendants(p, S) ==
    LET down[t \in Entries(p)] == {t} \cup UNION {down[c] : c \in Children(p, t)}
    IN  UNION {down[t] : t \in S}

GetSecondaryMempoolAncestors(p, payer) ==
    LET up[t \in Entries(p)] == {t} \cup UNION {up[q] : q \in SecondaryParents(p, t)}
    IN  up[payer]

IsPayingEnough(data) == data.fee >= data.size

\* What t and its parents owe and pay, an ancestor counted once per path to it.
CalculateSecondaryMempoolData(p, t) ==
    LET parents == SecondaryParents(p, t)
        Total(field(_)) == MapThenSumSet(field, parents)
        fee(q) == p.data[q].fee
        size(q) == p.data[q].size
        ancestors(q) == p.data[q].ancestors + 1
    IN  [fee |-> ModifiedFee(p, t) + Total(fee), size |-> 1 + Total(size),
         ancestors |-> Total(ancestors)]

SetGroupingData(p, t, data) == [p EXCEPT !.data[t] = data]

\* History: a group changes in a way the eviction tracker, if set, is not told of.
Regroup(p, how) ==
    [p EXCEPT !.regrouped = IF p.tracked = NoTracker THEN @ ELSE @ \cup {how}]

\* The group's members enter the primary pool and the journal together.
AcceptSingleGroup(p, payer) ==
    LET members == GetSecondaryMempoolAncestors(p, payer)
        grouped == [p EXCEPT
                      !.data = [t \in Txs |-> IF t \in members THEN NoData ELSE @[t]],
                      !.group = [t \in Txs |-> IF t \in members THEN payer ELSE @[t]]]
    IN  AddOperations(Regroup(grouped, "formed"), "ADD", InOrder(p, members))

AcceptStandalone(p, t) ==
    AddOperations(SetGroupingData(p, t, NoData), "ADD", <<t>>)

(***************************************************************************)
(* TryAcceptToPrimaryMempoolNL.  One turn takes the first entry to update;  *)
(* it enters the primary pool alone or with its group, or its data is       *)
(* recalculated, and the children a change concerns are updated in turn.    *)
(***************************************************************************)
UpdateNext(s) ==
    LET t == First(s.p, s.toUpdate)
        rest == s.toUpdate \ {t}
        data == CalculateSecondaryMempoolData(s.p, t)
        members == GetSecondaryMempoolAncestors(s.p, t)
        outside == UNION {Children(s.p, m) : m \in members} \ members
    IN  CASE IsPayingEnough(data) /\ data.ancestors = 0 ->
               [p |-> AcceptStandalone(s.p, t),
                toUpdate |-> rest \cup Children(s.p, t), visits |-> s.visits + 1]
          [] IsPayingEnough(data) /\ data.ancestors # 0 ->
               [p |-> AcceptSingleGroup(s.p, t),
                toUpdate |-> rest \cup outside, visits |-> s.visits + Cardinality(members)]
          [] ~IsPayingEnough(data) /\ data = s.p.data[t] ->
               [s EXCEPT !.toUpdate = rest, !.visits = @ + 1]
          [] OTHER ->
               [p |-> SetGroupingData(s.p, t, data),
                toUpdate |-> rest \cup Children(s.p, t), visits |-> s.visits + 1]

TryAcceptToPrimaryMempool(p, toUpdate, limitTheLoop) ==
    LET Done(s) == s.toUpdate = {} \/ (limitTheLoop /\ s.visits > MaxVisits)
        loop[s \in [p : Pools, toUpdate : SUBSET Txs, visits : Nat]] ==
            IF Done(s) THEN s.p ELSE loop[UpdateNext(s)]
    IN  loop[[p |-> p, toUpdate |-> toUpdate, visits |-> 0]]

TryAcceptChildlessTxToPrimaryMempool(p, t) ==
    LET data == CalculateSecondaryMempoolData(p, t)
    IN  CASE ~IsPayingEnough(data) -> SetGroupingData(p, t, data)
          [] IsPayingEnough(data) /\ data.ancestors = 0 -> AcceptStandalone(p, t)
          [] OTHER -> TryAcceptToPrimaryMempool(p, {t}, TRUE)

(***************************************************************************)
(* CEvictionCandidateTracker follows the pool from the first eviction until *)
(* the next block.  Only the set of its candidates is kept here: their      *)
(* scores are those of the entries, as every change of one is reported.     *)
(***************************************************************************)
HasChildren(p, t) ==
    IF IsCPFPGroupMember(p, t)
    THEN \E m \in Members(p, p.group[t]) : ~(Children(p, m) \subseteq Members(p, p.group[t]))
    ELSE Children(p, t) # {}

\* An entry outside any group stands for itself, a group's payer for its group.
Representative(p, t) == IF IsCPFPGroupMember(p, t) THEN p.group[t] ELSE t

InsertEntry(p, t) == [p EXCEPT !.tracked = @ \cup {t}, !.asserts = @ /\ t \notin p.tracked]


EntryAdded(p, t) ==
    LET expired == {Representative(p, q) : q \in start.parents[t] \cap Entries(p)}
    IN  IF p.tracked = NoTracker THEN p
        ELSE InsertEntry([p EXCEPT !.tracked = @ \ expired], t)

\* t is gone; its parents that stay may be candidates now.
EntryRemoved(p, t) ==
    LET insert(q, parent) == IF HasChildren(q, parent) THEN q
                             ELSE InsertEntry(q, Representative(q, parent))
    IN  IF p.tracked = NoTracker THEN p
        ELSE FoldLeft(insert, [p EXCEPT !.tracked = @ \ {t}], InOrder(p, start.parents[t]))

AddUnchecked(p, t) ==
    EntryAdded(TryAcceptChildlessTxToPrimaryMempool(
        [p EXCEPT !.order = Append(@, t), !.data[t] = Dummy, !.group[t] = NoTx], t), t)

(***************************************************************************)
(* RemoveFromPrimaryMempoolNL.  An entry moves to the secondary pool with   *)
(* every descendant; one that is in a group first disbands it, so that the  *)
(* other members follow.  Entries of ignored are left to the caller.        *)
(***************************************************************************)
RemoveNext(s, dummyData, ignored) ==
    LET t == First(s.p, s.toRemove)
        rest == s.toRemove \ {t}
        members == Members(s.p, s.p.group[t]) \ ignored
        removed == AddOperations(s.p, "REMOVE", <<t>>)
        data == IF dummyData THEN Dummy ELSE CalculateSecondaryMempoolData(s.p, t)
    IN  CASE ~IsInPrimaryMempool(s.p, t) -> [s EXCEPT !.toRemove = rest]
          [] IsInPrimaryMempool(s.p, t) /\ IsCPFPGroupMember(s.p, t) ->
               [s EXCEPT !.p.group = [m \in Txs |-> IF m \in members THEN NoTx ELSE @[m]],
                         !.toRemove = rest \cup members]
          [] OTHER ->
               [p |-> SetGroupingData(removed, t, data),
                toRemove |-> rest \cup Children(s.p, t), removed |-> s.removed \cup {t}]

RemoveFromPrimaryMempool(p, toRemove, dummyData, ignored) ==
    LET loop[s \in [p : Pools, toRemove : SUBSET Txs, removed : SUBSET Txs]] ==
            IF s.toRemove = {} THEN s ELSE loop[RemoveNext(s, dummyData, ignored)]
    IN  loop[[p |-> p, toRemove |-> toRemove, removed |-> {}]]

Forget(p, S) ==
    [p EXCEPT !.order = SelectSeq(@, LAMBDA t : t \notin S),
              !.data = [t \in Txs |-> IF t \in S THEN NoData ELSE @[t]],
              !.group = [t \in Txs |-> IF t \in S THEN NoTx ELSE @[t]]]

\* The tracker is told of a child before its parent.
removeUnchecked(p, S) ==
    LET gone == Forget(AddOperations(p, "REMOVE", InOrder(p, S \cap Primary(p))), S)
    IN  FoldRight(LAMBDA t, q : EntryRemoved(q, t), InOrder(p, S), gone)

\* Mutant: a group that loses a member stays as it is.
removeStagedGroupsStay(p, S) == removeUnchecked(p, S)

\* S holds every descendant of its entries.  Groups that lose a member are
\* disbanded first, and what is left of them is tried again afterwards.
removeStaged(p, S) ==
    LET grouped == {t \in S : IsCPFPGroupMember(p, t)}
        Erase(disbanded) ==
            TryAcceptToPrimaryMempool(removeUnchecked(disbanded.p, S),
                                      disbanded.removed \ S, FALSE)
    IN  Erase(RemoveFromPrimaryMempool(p, grouped, TRUE, {}))

\* tx itself, or the spenders of its outputs when tx is not in the pool.
removeRecursive(p, tx) ==
    LET txToRemove == IF tx \in Entries(p) THEN {tx} ELSE Children(p, tx)
    IN  removeStaged(p, GetDescendants(p, txToRemove))

(***************************************************************************)
(* RemoveForBlock.  The block is walked backwards: a transaction of the     *)
(* pool is marked for removal, and its children that stay are marked for an *)
(* update; the rivals of any other transaction leave at once.               *)
(***************************************************************************)
VisitBlockTx(s, tx) ==
    LET kids == Children(s.p, tx) \ s.toRemove
        inGroup == {c \in kids : IsCPFPGroupMember(s.p, c) /\ s.p.group[c] = s.p.group[tx]}
        owing == {c \in kids : /\ ~IsInPrimaryMempool(s.p, tx)
                                /\ ~IsInPrimaryMempool(s.p, c)}
        conflicted == GetDescendants(s.p, start.rivals[tx] \cap Entries(s.p))
    IN  IF tx \in Entries(s.p)
        THEN [s EXCEPT !.toRemove = @ \cup {tx}, !.groupKids = @ \cup inGroup,
                       !.secondaryKids = @ \cup owing]
        ELSE [s EXCEPT !.p = removeStaged(@, conflicted), !.groupKids = @ \ conflicted,
                       !.secondaryKids = @ \ conflicted]

\* Mutant: secondary children of mined secondary transactions are not updated.
RemoveVisitedGroupsOnly(s) ==
    LET Erase(disbanded) ==
            TryAcceptToPrimaryMempool(removeUnchecked(disbanded.p, s.toRemove),
                                      disbanded.removed, FALSE)
    IN  Erase(RemoveFromPrimaryMempool(s.p, s.groupKids, TRUE, s.toRemove))

RemoveVisited(s) ==
    LET Erase(disbanded) ==
            TryAcceptToPrimaryMempool(removeUnchecked(disbanded.p, s.toRemove),
                                      disbanded.removed \cup s.secondaryKids, FALSE)
    IN  Erase(RemoveFromPrimaryMempool(s.p, s.groupKids, TRUE, s.toRemove))

RemoveForBlock(p, block) ==
    LET none == [p |-> [p EXCEPT !.tracked = NoTracker, !.regrouped = {}], toRemove |-> {},
                 groupKids |-> {}, secondaryKids |-> {}]
    IN  RemoveVisited(FoldRight(LAMBDA tx, seen : VisitBlockTx(seen, tx), block, none))

\* The fee credited to t changes; t, and its group, are evaluated again.
prioritiseTransaction(p, t, feeDelta) ==
    LET credited == [p EXCEPT !.delta[t] = @ + feeDelta]
        Noted(q) == IF q.group = p.group THEN q ELSE Regroup(q, "disbanded")
        Accept(disbanded) ==
            TryAcceptToPrimaryMempool(Noted(disbanded.p), disbanded.removed \cup {t}, FALSE)
    IN  IF t \notin Entries(p) THEN credited
        ELSE Accept(RemoveFromPrimaryMempool(credited, {t}, FALSE, {}))

(***************************************************************************)
(* LimitMempoolSize.  What is too old leaves with its descendants; then the *)
(* least valuable candidates leave until the pool is within its limits.     *)
(***************************************************************************)
Expire(p, old) == removeStaged(p, GetDescendants(p, old \cap Entries(p)))

\* Entries without children, a group's payer if no child of the group is outside.
EvictionCandidates(p) ==
    {t \in Entries(p) : Children(p, t) = {} /\ ~HasChildren(p, t)}

\* The fee rate of t or of its group, scaled by the number of transactions; a
\* secondary entry is worth less than any primary one.
evaluateEvictionCandidate(p, t) ==
    LET members == IF IsCPFPGroupMember(p, t) THEN Members(p, p.group[t]) ELSE {t}
        fee(m) == ModifiedFee(p, m)
        rate == (MapThenSumSet(fee, members) * 1000) \div Cardinality(members)
    IN  IF IsInPrimaryMempool(p, t) THEN rate ELSE rate - 1000000

\* Of equals the heap may give any: the first or the last that came.
GetMostWorthless(p, newest) ==
    LET Score(t) == evaluateEvictionCandidate(p, t)
        worst == InOrder(p, {t \in p.tracked : \A u \in p.tracked : Score(t) <= Score(u)})
    IN  IF newest THEN Last(worst) ELSE Head(worst)

TrimToSize(p, sizelimit, newest) ==
    LET begun == IF p.tracked = NoTracker
                 THEN [p EXCEPT !.tracked = EvictionCandidates(p)] ELSE p
        Stuck(q) == q.tracked = {}
        Evict(q) == removeStaged(q, GetDescendants(q, {GetMostWorthless(q, newest)}))
        trim[q \in Pools] ==
            IF q.order = <<>> \/ Stuck(q) \/ Len(q.order) <= sizelimit
            THEN [q EXCEPT !.asserts = @ /\ (Stuck(q) => q.order = <<>>)]
            ELSE trim[Evict(q)]
    IN  trim[begun]

TrimToLimits(p, newest) ==
    LET usageTotal == Len(p.order)
        usageSecondary == Cardinality(Entries(p) \ Primary(p))
        excess == Max({0, usageSecondary - start.secondary})
        targetSize == Min({usageTotal, start.limit}) - excess
    IN  IF usageTotal > start.limit \/ excess > 0
        THEN TrimToSize(p, targetSize, newest) ELSE p

LimitMempoolSize(p, old, newest) == TrimToLimits(Expire(p, old), newest)
=============================================================================
