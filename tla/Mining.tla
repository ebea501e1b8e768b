------------------------------- MODULE Mining -------------------------------
(***************************************************************************)
(* The transaction pool, the mining journal and the block assembler at      *)
(* work together.                                                           *)
(*                                                                          *)
(* The transaction validator, the chain activation and CreateNewBlock hold  *)
(* cs_main in turn; step says who does and how far they are.  The           *)
(* assembler's thread runs without it, and so do the RPCs                   *)
(* prioritisetransaction and rebuildjournal.  The pool changes first, the   *)
(* journal follows when the change set is applied: a template must never    *)
(* show what lies between.                                                  *)
(***************************************************************************)
EXTENDS MiningJournal

CONSTANT Starts   \* the situations to explore

(***************************************************************************)
(* Besides parents, rivals and fee a situation has: chain, the blocks       *)
(* connected already; blocks, the blocks that may come; limit, secondary    *)
(* and keep, the sizes of the pool, of its secondary part and of the        *)
(* disconnect pool; expiring, transactions that may become too old;         *)
(* refused, transactions that may be refused when a reorganisation returns  *)
(* them to the pool; deltas, the credits <<t, d>> an operator may give;     *)
(* fill, the setting -jbafillafternewblock; overlap, whether RPCs come      *)
(* while others hold cs_main; reasons, what activations happen for: a new   *)
(* block, or a block that is made precious, invalid or valid again (REORG); *)
(* and budget, how often each event may happen.                             *)
(***************************************************************************)
VARIABLES
    step,         \* the holder of cs_main and its progress
    resume,       \* the change set of an activation that has released cs_main
    chain,        \* the connected blocks, each a sequence of transactions
    disconnectpool, \* transactions of disconnected blocks, the latest first
    fBlocksDisconnected, \* the pool is to be updated after a disconnection
    reset,        \* changes of rebuildjournal that wait to be applied
    template,     \* the template CreateNewBlock builds or has returned
    left          \* what is left of start.budget

vars == <<start, pool, journal, changes, asm, step, resume, chain, disconnectpool,
          fBlocksDisconnected, reset, template, left>>

Confirmed == ToSet(FlattenSeq(chain))
NoTemplate == [vtx |-> <<>>, fees |-> 0]
FeesOf(txns) == LET fee(i) == start.fee[txns[i]] IN MapThenSumSet(fee, DOMAIN txns)

Events == {"batches", "connects", "disconnects", "prioritises", "rebuilds", "templates"}
Spend(event) == left[event] > 0 /\ left' = [left EXCEPT ![event] = @ - 1]

Fresh(p) == [p EXCEPT !.ops = <<>>]
MainFree == step = "free" /\ (start.overlap \/ reset = <<>>)

\* The transaction is valid on top of the chain and the pool p.
Acceptable(t, p, confirmed) ==
    /\ t \notin Entries(p) \cup confirmed
    /\ start.parents[t] \subseteq Entries(p) \cup confirmed
    /\ start.rivals[t] \cap (Entries(p) \cup confirmed) = {}

-----------------------------------------------------------------------------
(***************************************************************************)
(* The transaction validator's batch.                                       *)
(***************************************************************************)
StartBatch ==
    /\ MainFree /\ Spend("batches")
    /\ step' = "batch" /\ changes' = NewChangeSet("NEW_TXN")
    /\ UNCHANGED <<start, pool, journal, asm, chain, disconnectpool,
                   fBlocksDisconnected, resume, reset, template>>

\* The operations of p join the change set.
Queue(p, set) ==
    pool' = Fresh(p) /\ changes' = addOperations(set, p.ops)

\* They are applied with the set, whose life ends.
Publish(p, set) ==
    LET all == addOperations(set, p.ops)
    IN  /\ pool' = Fresh(p)
        /\ journal' = applyChanges(journal, all.ops, all.reason)
        /\ asm' = Observed(asm, all.ops = <<>> \/ all.tail)

\* They join the set, which is applied as far as it may.
Collect(p, set) ==
    LET all == addOperations(set, p.ops)
        n == Immediate(all)
    IN  /\ pool' = Fresh(p)
        /\ journal' = applyChanges(journal, SubSeq(all.ops, 1, n), all.reason)
        /\ asm' = Observed(asm, n = 0 \/ all.tail)
        /\ changes' = [all EXCEPT !.ops = SubSeq(@, n + 1, Len(@))]

AcceptTx(t) ==
    /\ step = "batch" /\ Acceptable(t, pool, Confirmed)
    /\ Collect(AddUnchecked(pool, t), changes)
    /\ UNCHANGED <<start, step, chain, disconnectpool, fBlocksDisconnected, resume, reset,
                   template, left>>

\* LimitMempoolSize, then the end of the change set's life, which applies it.
EndBatch(old, newest) ==
    /\ step = "batch"
    /\ Publish(LimitMempoolSize(pool, old, newest), changes)
    /\ changes' = NoChanges /\ step' = "free"
    /\ UNCHANGED <<start, chain, disconnectpool, fBlocksDisconnected, resume, reset,
                   template, left>>

-----------------------------------------------------------------------------
(***************************************************************************)
(* Chain activation: blocks are disconnected, blocks are connected, the     *)
(* pool is updated, and the change set is applied to a copy of the journal. *)
(***************************************************************************)

\* The change set of the activation.  It is new with NEW_BLOCK when a block arrives
\* (validation.cpp:5768), with REORG when preciousblock, invalidateblock or
\* reconsiderblock starts it (validation.cpp:4688, 4704, rpc/blockchain.cpp:2253).
BlockChanges(reason) ==
    CASE step # "free" -> changes
      [] step = "free" /\ resume # NoChanges -> resume
      [] OTHER -> NewChangeSet(reason)

\* AddToDisconnectPoolUpToLimit: the earliest entry is dropped with its children.
DropExcess(p, queue) ==
    LET excess == Max({0, Len(queue) - start.keep})
        drop(q, t) == removeRecursive(q, t)
    IN  FoldLeft(drop, p, SubSeq(queue, 1, excess))

DisconnectTip ==
    LET queue == disconnectpool \o Reverse(Last(chain))
        from == Max({1, Len(queue) - start.keep + 1})
    IN  /\ MainFree \/ step = "disconnecting"
        /\ chain # <<>> /\ Spend("disconnects")
        /\ step' = "disconnecting" /\ fBlocksDisconnected' = TRUE /\ resume' = NoChanges
        /\ chain' = Front(chain)
        /\ disconnectpool' = SubSeq(queue, from, Len(queue))
        /\ \E reason \in start.reasons : Queue(DropExcess(pool, queue), BlockChanges(reason))
        /\ UNCHANGED <<start, journal, asm, reset, template>>

\* The block's transactions are new, in order, and clash with nothing confirmed.
Connectable(block) ==
    \A i \in DOMAIN block :
        /\ block[i] \notin Confirmed
        /\ start.parents[block[i]] \subseteq Confirmed \cup ToSet(SubSeq(block, 1, i - 1))
        /\ start.rivals[block[i]] \cap Confirmed = {}

ConnectTip(block) ==
    /\ MainFree \/ step \in {"disconnecting", "connecting"}
    /\ Connectable(block) /\ Spend("connects")
    /\ step' = "connecting" /\ resume' = NoChanges
    /\ chain' = Append(chain, block)
    /\ disconnectpool' = SelectSeq(disconnectpool, LAMBDA t : t \notin ToSet(block))
    /\ \E reason \in start.reasons : Queue(RemoveForBlock(pool, block), BlockChanges(reason))
    /\ UNCHANGED <<start, journal, asm, fBlocksDisconnected, reset, template>>

\* processValidation of the disconnected transactions, earliest first, on a
\* pool that is empty but for them; refused ones are left out.
Readd(p, queue, refused, newest) ==
    LET try(q, t) == IF t \notin refused /\ Acceptable(t, q, Confirmed)
                     THEN AddUnchecked(q, t) ELSE q
    IN  IF queue = <<>> THEN p ELSE LimitMempoolSize(FoldLeft(try, p, queue), {}, newest)

Resubmit(p, order) == LET add(q, t) == AddUnchecked(q, t) IN FoldLeft(add, p, order)

RemoveOrphaned(p, queue) ==
    LET orphaned(q, t) == IF t \in Entries(q) THEN q ELSE removeRecursive(q, t)
    IN  FoldLeft(orphaned, p, queue)

Cleared(p) == [EmptyPool EXCEPT !.delta = p.delta]

\* AddToMempoolForReorg.  Pool and journal are emptied; the disconnected
\* transactions come first, the earlier entries after them; what lost its
\* parents or is no longer final leaves.
AddToMempoolForReorg(refused, newest) ==
    LET queue == Reverse(disconnectpool)
        readded == Resubmit(Readd(Cleared(pool), queue, refused, newest), pool.order)
        RemoveForReorg(p) == removeStaged(p, GetDescendants(p, refused \cap Entries(p)))
    IN  /\ step \in {"disconnecting", "connecting"} /\ fBlocksDisconnected
        /\ step' = "apply" /\ fBlocksDisconnected' = FALSE /\ disconnectpool' = <<>>
        /\ journal' = <<>> /\ asm' = [asm EXCEPT !.valid = FALSE]
        /\ Queue(RemoveForReorg(RemoveOrphaned(readded, queue)),
                 [changes EXCEPT !.reason = "REORG", !.ops = <<>>])
        /\ UNCHANGED <<start, chain, resume, reset, template, left>>

\* The end of ActivateBestChainStep.
EndStep ==
    /\ step = "connecting" /\ ~fBlocksDisconnected
    /\ step' = "apply"
    /\ UNCHANGED <<start, pool, journal, changes, asm, chain, disconnectpool,
                   fBlocksDisconnected, resume, reset, template, left>>

\* CJournalBuilder::applyChangeSet, up to the release of its lock: a copy takes
\* the place of the journal, and whoever reads the old one must move on.
ReplaceJournal ==
    /\ step = "apply" /\ changes.ops # <<>>
    /\ step' = "replaced" /\ asm' = [asm EXCEPT !.valid = FALSE]
    /\ UNCHANGED <<start, pool, journal, changes, chain, disconnectpool,
                   fBlocksDisconnected, resume, reset, template, left>>

ApplyChangeSet ==
    /\ step = "replaced"
    /\ step' = "apply"
    /\ journal' = applyChanges(journal, changes.ops, changes.reason)
    /\ asm' = Moved(Observed(asm, changes.tail), journal, journal', changes)
    /\ changes' = [changes EXCEPT !.ops = <<>>]
    /\ UNCHANGED <<start, pool, chain, disconnectpool, fBlocksDisconnected, resume, reset,
                   template, left>>

\* cs_main is released: at the end, between two steps, or while the next block is
\* validated.  The next block is connected with the same change set.
ContinueActivation ==
    /\ step = "apply" /\ changes.ops = <<>>
    /\ step' = "free" /\ changes' = NoChanges
    /\ \/ resume' = changes /\ left["connects"] > 0
       \/ resume' = NoChanges
    /\ UNCHANGED <<start, pool, journal, asm, chain, disconnectpool,
                   fBlocksDisconnected, reset, template, left>>

-----------------------------------------------------------------------------
(***************************************************************************)
(* The RPCs that do not take cs_main.                                       *)
(***************************************************************************)
RpcAllowed == reset = <<>> /\ (start.overlap \/ step = "free")

\* A change set of its own lives and is applied under the pool's lock.
PrioritiseTransaction(t, feeDelta) ==
    /\ RpcAllowed /\ Spend("prioritises")
    /\ Publish(prioritiseTransaction(pool, t, feeDelta), NewChangeSet("UNKNOWN"))
    /\ UNCHANGED <<start, changes, step, chain, disconnectpool, fBlocksDisconnected,
                   resume, reset, template>>

\* RebuildMempool refills the pool and clears the journal; rebuildjournal then
\* applies the changes without the pool's lock.
RebuildMempool ==
    LET p == Resubmit(Cleared(pool), pool.order)
    IN  /\ RpcAllowed /\ p.ops # <<>> /\ Spend("rebuilds")
        /\ pool' = Fresh(p) /\ reset' = p.ops
        /\ journal' = <<>> /\ asm' = [asm EXCEPT !.valid = FALSE]
        /\ UNCHANGED <<start, changes, step, chain, disconnectpool,
                       fBlocksDisconnected, resume, template>>

rebuildjournal ==
    /\ reset # <<>>
    /\ journal' = applyChanges(<<>>, reset, "RESET")
    /\ asm' = [asm EXCEPT !.valid = FALSE] /\ reset' = <<>>
    /\ UNCHANGED <<start, pool, changes, step, chain, disconnectpool,
                   fBlocksDisconnected, resume, template, left>>

-----------------------------------------------------------------------------
(***************************************************************************)
(* The block assembler: its thread, and the two parts of CreateNewBlock,    *)
(* which copies the transactions under the assembler's lock and reads their *)
(* fees after it.                                                           *)
(***************************************************************************)
threadBlockUpdate ==
    /\ asm' = updateBlock(asm, journal, MaxSlot) /\ asm' # asm
    /\ UNCHANGED <<start, pool, journal, changes, step, chain, disconnectpool,
                   fBlocksDisconnected, resume, reset, template, left>>

CreateNewBlock ==
    LET a == updateBlock(asm, journal, IF start.fill THEN Cardinality(Txs) ELSE MaxSlot)
    IN  /\ MainFree /\ Spend("templates")
        /\ step' = "template" /\ asm' = a
        /\ template' = [vtx |-> a.txns, fees |-> 0]
        /\ UNCHANGED <<start, pool, journal, changes, chain, disconnectpool,
                       fBlocksDisconnected, resume, reset>>

ReturnTemplate ==
    /\ step = "template" /\ step' = "free"
    /\ template' = [template EXCEPT !.fees = FeesOf(asm.txns)]
    /\ UNCHANGED <<start, pool, journal, changes, asm, chain, disconnectpool,
                   fBlocksDisconnected, resume, reset, left>>

-----------------------------------------------------------------------------
Init ==
    /\ start \in Starts
    /\ pool = EmptyPool
    /\ journal = <<>> /\ changes = NoChanges /\ asm = newBlock
    /\ step = "free" /\ chain = start.chain
    /\ disconnectpool = <<>> /\ fBlocksDisconnected = FALSE
    /\ resume = NoChanges
    /\ reset = <<>> /\ template = NoTemplate /\ left = start.budget

Next ==
    \/ StartBatch
    \/ \E old \in SUBSET start.expiring, newest \in BOOLEAN : EndBatch(old, newest)
    \/ \E t \in Txs : AcceptTx(t)
    \/ DisconnectTip
    \/ \E block \in start.blocks : ConnectTip(block)
    \/ \E refused \in SUBSET start.refused, newest \in BOOLEAN :
            AddToMempoolForReorg(refused, newest)
    \/ EndStep \/ ReplaceJournal \/ ApplyChangeSet \/ ContinueActivation
    \/ \E credit \in start.deltas : PrioritiseTransaction(credit[1], credit[2])
    \/ RebuildMempool \/ rebuildjournal
    \/ threadBlockUpdate \/ CreateNewBlock \/ ReturnTemplate

Spec == Init /\ [][Next]_vars

\* The assembler's thread wakes up at a fixed interval as long as the node runs.
FairSpec == Spec /\ WF_vars(threadBlockUpdate)

-----------------------------------------------------------------------------
TypeOK ==
    /\ pool \in Pools /\ IsInjective(pool.order)
    /\ step \in {"free", "batch", "disconnecting", "connecting", "apply", "replaced",
                  "template"}

\* What lies before t: its parents that are not confirmed are among earlier.
ParentsAmong(t, earlier) == start.parents[t] \subseteq earlier \cup Confirmed

Sorted(txns) ==
    \A i \in DOMAIN txns : start.parents[txns[i]] \cap ToSet(txns) \subseteq
                               ToSet(SubSeq(txns, 1, i - 1))

\* The primary pool can be mined as it is: an entry outside any group pays the
\* minimum fee itself, a group pays it in total, each ancestor counted once
\* whatever the approximate sums said that formed it, and no primary entry
\* rests on a secondary one (txmempool.cpp: AcceptSingleGroupNL,
\* RemoveFromPrimaryMempoolNL, RemoveForBlock).  Nothing of a disconnected
\* block is in the pool or clashes with it before the pool is updated.
PrimaryPays ==
    /\ TypeOK
    /\ Sorted(pool.order)
    /\ \A t \in Primary(pool) :
          LET members == IF IsCPFPGroupMember(pool, t) THEN Members(pool, pool.group[t])
                         ELSE {t}
              fee(m) == ModifiedFee(pool, m)
          IN  /\ SecondaryParents(pool, t) = {}
              /\ IsCPFPGroupMember(pool, t) => pool.group[t] \in members
              /\ members \subseteq Primary(pool)
              /\ MapThenSumSet(fee, members) >= Cardinality(members)
    /\ \A t \in ToSet(disconnectpool) : ({t} \cup start.rivals[t]) \cap Entries(pool) = {}

\* What CheckMempoolImplNL asserts of the secondary pool: the data of every
\* entry is the sum of its own and its secondary parents' data, and no entry
\* whose data pays for the lot is left there.
SecondaryDataCurrent ==
    \A t \in Entries(pool) \ Primary(pool) :
        /\ pool.data[t] = CalculateSecondaryMempoolData(pool, t)
        /\ ~IsPayingEnough(pool.data[t])

\* The eviction tracker never adds a candidate twice, which InsertEntry asserts,
\* nor runs out of candidates while there are entries, which GetMostWorthless
\* asserts; a failed assertion ends the node.  MC_Mining_eviction, _formed and
\* _disbanded show three families where one fails.
TrackerAsserts == pool.asserts


\* What the header says, without exception.
EvictionExact == pool.tracked \in {NoTracker, EvictionCandidates(pool)}

\* Once every change is applied the journal holds exactly the primary pool, each
\* transaction after its parents, the members of a group side by side: what
\* checkJournalNL asserts, and what the assembler takes for granted.
JournalMatchesPool ==
    step = "free" /\ reset = <<>> =>
        /\ ToSet(TxnsOf(journal)) = Primary(pool) /\ IsInjective(TxnsOf(journal))
        /\ Sorted(TxnsOf(journal))
        /\ \A i \in DOMAIN journal :
              /\ journal[i].group = pool.group[journal[i].tx]
              /\ IsCPFPGroupMember(pool, journal[i].tx) =>
                    \E n \in 1..i :
                      ToSet(TxnsOf(GroupAt(journal, n))) = Members(pool, journal[i].group)

\* The transactions CreateNewBlock copies make a valid block on the tip it
\* builds on: none confirmed or twice in it, every parent confirmed or
\* earlier, no group in part, no larger than allowed, however the pool, the
\* journal and the assembler's thread moved since the template was begun.
TemplateValid ==
    step = "template" =>
        LET vtx == template.vtx
        IN  /\ IsInjective(vtx) /\ ToSet(vtx) \cap Confirmed = {}
            /\ \A i \in DOMAIN vtx : ParentsAmong(vtx[i], ToSet(SubSeq(vtx, 1, i - 1)))
            /\ \A t \in ToSet(vtx) : IsCPFPGroupMember(pool, t) =>
                   Members(pool, pool.group[t]) \subseteq ToSet(vtx)
            /\ Len(vtx) < MaxBlockSize \/ vtx = <<>>

\* The assembler's thread takes all of the journal that fits, in the end: it
\* does not stop at what was the end when it looked last, nor keep what a
\* change of the journal has made stale.
TemplateCatchesUp ==
    <>[](/\ asm.valid /\ asm.pos \in 1..(Len(journal) + 1)
         /\ asm.pos <= Len(journal) => ~Fits(asm, journal)
         /\ asm.txns = SubSeq(TxnsOf(journal), 1, asm.pos - 1))
=============================================================================
