---------------------------- MODULE TxnValidator ----------------------------
(***************************************************************************)
(* The parallel transaction validator (txn_validator.cpp, validation.cpp,   *)
(* net/validation_scheduler.cpp) with the double spend detector             *)
(* (txn_double_spend_detector.cpp) and the orphan pool (orphan_txns.cpp).   *)
(*                                                                          *)
(* Peers' messages append transactions to the standard queue.  The          *)
(* validator thread moves queued transactions into the processing queue and *)
(* validates that batch with parallel tasks, which check, reserve the       *)
(* inputs in the detector, commit to the pool and release, each at its own  *)
(* pace.  A transaction whose inputs are unknown waits in the orphan pool;  *)
(* one that exceeds the time allowed at high priority moves to the          *)
(* non-standard queue; one the batch had no time for is cancelled and       *)
(* retried.  RPC submissions and blocks come in between two batches, since  *)
(* the thread holds cs_main during a batch.                                 *)
(*                                                                          *)
(* A transaction object is one shared pointer: its orphan mark, its         *)
(* priority and its entry in the TxIdTracker belong to the object, and the  *)
(* detector recognises a transaction by the object's address.               *)
(***************************************************************************)
EXTENDS Naturals, Sequences, FiniteSets, SequencesExt

CONSTANTS
    MaxStdToSchedule,     \* transactions taken per batch from the standard queue
    MaxNonStdToSchedule,  \* and from the non-standard queue
    MaxOrphanInputsPerBatch, \* limit of the deeper layers of retried orphans
    Starts                \* the situations to explore

ASSUME BoundsAssumption ==
    /\ MaxStdToSchedule \in Nat \ {0}
    /\ MaxNonStdToSchedule \in Nat \ {0}
    /\ MaxOrphanInputsPerBatch \in Nat

(***************************************************************************)
(* A situation fixes the transactions that exist: vin[t] is the set of      *)
(* outpoints <<creator, n>> that t spends (creator "base": confirmed        *)
(* already), verdict[t] what the script and policy checks say of it once    *)
(* its inputs are known, peer[t] who sends it and sends[t] how often.       *)
(* MaxQueueMemSize and MaxOrphanTxSize, the room of either queue and of the *)
(* orphan pool counted in transactions, are settings.  budget bounds what   *)
(* may happen besides: transactions submitted by RPC, the block that        *)
(* confirms transactions ({}: none), and how often the time of a batch runs *)
(* out, the pool overflows, a task throws and a peer leaves.                *)
(***************************************************************************)
VARIABLES
    start,            \* the situation of this behaviour, fixed
    left,             \* left[t]: copies of t still to be received from its peer
    mStdTxns,         \* queue of new transactions
    mNonStdTxns,      \* queue of transactions that need more time
    mProcessingQueue, \* the transactions of the current batch
    step,             \* step[i]: how far the task of position i is
    result,           \* result[i]: what it found
    phase,            \* of the validator thread: "waiting", "batch", "requeue"
    mOrphanTxns,      \* transactions in the orphan pool
    mCollectedTxData, \* accepted transactions whose dependents are to be retried
    orphan,           \* orphan[t]: t's object is marked as an orphan
    lowPriority,      \* lowPriority[t]: t's object is of low priority
    mKnownSpendsTx,   \* transactions whose inputs the detector holds
    mempool,          \* transactions of the pool
    chain,            \* transactions confirmed by the block
    recentRejects,    \* rejected transactions, not asked for again
    tipChanged,       \* the tip moved since the rejects were last reset
    peers,            \* connected peers
    forgotten,        \* history: orphans whose retry was legitimately lost
    budget            \* what else may still happen in this behaviour

vars == <<start, left, mStdTxns, mNonStdTxns, mProcessingQueue, step, result,
          phase, mOrphanTxns, mCollectedTxData, orphan, lowPriority,
          mKnownSpendsTx, mempool, chain, recentRejects, tipChanged, peers,
          forgotten, budget>>

queues == <<mStdTxns, mNonStdTxns, mProcessingQueue>>
objects == <<orphan, lowPriority>>
orphans == <<mOrphanTxns, mCollectedTxData>>
world == <<start, left, peers>>

Txs == DOMAIN start.vin
Vin(t) == start.vin[t]
Conflict(s, t) == s # t /\ Vin(s) \cap Vin(t) # {}

(***************************************************************************)
(* The coins a transaction may spend: outputs of confirmed transactions the *)
(* chain has not spent, and outputs of pool transactions.                   *)
(***************************************************************************)
Available(o) ==
    /\ o[1] \in {"base"} \cup chain \cup mempool
    /\ \A t \in chain : o \notin Vin(t)

HaveInputs(t) == \A o \in Vin(t) : Available(o)

\* Some pool transaction, perhaps t itself, spends an input of t.
MempoolConflict(t) == \E s \in mempool : Vin(s) \cap Vin(t) # {}

(***************************************************************************)
(* The TxIdTracker holds the id of every transaction whose object lives: of *)
(* the queued ones, of the batch and of the orphans.                        *)
(***************************************************************************)
TxIdTracker ==
    ToSet(mStdTxns) \cup ToSet(mNonStdTxns) \cup ToSet(mProcessingQueue) \cup mOrphanTxns

Init ==
    /\ start \in Starts
    /\ left = start.sends
    /\ mStdTxns = <<>> /\ mNonStdTxns = <<>> /\ mProcessingQueue = <<>>
    /\ step = <<>> /\ result = <<>>
    /\ phase = "waiting"
    /\ mOrphanTxns = {} /\ mCollectedTxData = {}
    /\ orphan = [t \in Txs |-> FALSE]
    /\ lowPriority = [t \in Txs |-> FALSE]
    /\ mKnownSpendsTx = {}
    /\ mempool = {} /\ chain = {}
    /\ recentRejects = {} /\ tipChanged = FALSE
    /\ peers = {start.peer[t] : t \in Txs}
    /\ forgotten = {}
    /\ budget = start.budget

-----------------------------------------------------------------------------
(***************************************************************************)
(* Receiving.                                                               *)
(***************************************************************************)
IsTxnKnown(t, rejects) ==
    \/ t \in rejects
    \/ t \in mempool
    \/ t \in TxIdTracker
    \/ t \in chain

(***************************************************************************)
(* A peer's tx message: a transaction that is not known is queued, unless   *)
(* the queue is full.  The rejects are forgotten when the tip has changed.  *)
(***************************************************************************)
ProcessTxMessage(t) ==
    LET rejects == IF tipChanged THEN {} ELSE recentRejects
        accepted == ~IsTxnKnown(t, rejects) /\ Len(mStdTxns) < start.MaxQueueMemSize
    IN  /\ left[t] > 0
        /\ start.peer[t] \in peers
        /\ left' = [left EXCEPT ![t] = @ - 1]
        /\ recentRejects' = rejects
        /\ tipChanged' = FALSE
        /\ mStdTxns' = IF accepted THEN Append(mStdTxns, t) ELSE mStdTxns
        /\ orphan' = IF accepted THEN [orphan EXCEPT ![t] = FALSE] ELSE orphan
        /\ lowPriority' = IF accepted THEN [lowPriority EXCEPT ![t] = FALSE] ELSE lowPriority
        /\ UNCHANGED <<start, mNonStdTxns, mProcessingQueue, step, result, phase, orphans,
                       mKnownSpendsTx, mempool, chain, peers, forgotten, budget>>

-----------------------------------------------------------------------------
(***************************************************************************)
(* The start of a batch: the thread gets cs_main and moves transactions of  *)
(* both queues into the processing queue, which may still hold the ones to  *)
(* be retried, as long as it is below the size of a batch.                  *)
(***************************************************************************)
CollectTxns(dest, queue, max) ==
    IF Len(dest) < MaxStdToSchedule + MaxNonStdToSchedule
    THEN [dest |-> dest \o SubSeq(queue, 1, IF Len(queue) < max THEN Len(queue) ELSE max),
          rest |-> SubSeq(queue, max + 1, Len(queue))]
    ELSE [dest |-> dest, rest |-> queue]

StartBatch ==
    LET std    == CollectTxns(mProcessingQueue, mStdTxns, MaxStdToSchedule)
        nonStd == CollectTxns(std.dest, mNonStdTxns, MaxNonStdToSchedule)
    IN  /\ phase = "waiting"
        /\ nonStd.dest # <<>>
        /\ mProcessingQueue' = nonStd.dest
        /\ mStdTxns' = std.rest
        /\ mNonStdTxns' = nonStd.rest
        /\ step' = [i \in DOMAIN nonStd.dest |-> "not started"]
        /\ result' = [i \in DOMAIN nonStd.dest |-> "none"]
        /\ phase' = "batch"
        /\ UNCHANGED <<world, objects, orphans, mKnownSpendsTx, mempool, chain,
                       recentRejects, tipChanged, forgotten, budget>>

(***************************************************************************)
(* The scheduler starts a transaction when those of its parents that are in *)
(* the batch are done (txIdToPos keeps the last position of a transaction). *)
(***************************************************************************)
Parents(t) == {o[1] : o \in Vin(t)}

ParentPositions(i) ==
    {j \in DOMAIN mProcessingQueue :
        /\ mProcessingQueue[j] \in Parents(mProcessingQueue[i])
        /\ \A k \in DOMAIN mProcessingQueue : k > j => mProcessingQueue[k] # mProcessingQueue[j]}

CanStartValidation(i) ==
    /\ step[i] = "not started"
    /\ \A j \in ParentPositions(i) : step[j] = "done"

\* The run time of the batch is over, so tasks are cancelled from now on.
TimeUp == \E i \in DOMAIN result : result[i] = "cancelled"

\* A parent failed in this batch: when both are in one task it is not cancelled.
ParentFailed(i) ==
    \E j \in ParentPositions(i) : result[j] \notin {"none", "accepted", "cancelled"}

(***************************************************************************)
(* What TxnValidation finds before it asks the detector ("none": nothing    *)
(* against the transaction): the checks of the transaction alone, which     *)
(* cost a malformed one its peer's reputation, the look at the pool, the    *)
(* search for the inputs, and the scripts within the time of the priority.  *)
(***************************************************************************)
TransactionChecks(t) ==
    CASE start.verdict[t] = "malformed"   -> "invalid"
      [] start.verdict[t] = "nonstandard" -> "policy"
      [] OTHER -> "none"

PoolChecks(t) == IF t \in mempool \/ MempoolConflict(t) THEN "policy" ELSE "none"

InputChecks(t) ==
    CASE HaveInputs(t) -> "none"
      [] ~HaveInputs(t) /\ t \in chain -> "policy"
      [] OTHER -> "missing"

ScriptChecks(t) ==
    CASE start.verdict[t] = "slow" -> IF lowPriority[t] THEN "none" ELSE "timeout"
      [] start.verdict[t] = "ok" -> "none"
      [] OTHER -> start.verdict[t]

TxnValidation(t) ==
    LET found == SelectSeq(<<TransactionChecks(t), PoolChecks(t), InputChecks(t), ScriptChecks(t)>>,
                           LAMBDA r : r # "none")
    IN  IF found = <<>> THEN "none" ELSE Head(found)

Check(i) ==
    LET found == TxnValidation(mProcessingQueue[i])
    IN  /\ phase = "batch"
        /\ CanStartValidation(i)
        /\ TimeUp => ParentFailed(i)
        /\ result' = [result EXCEPT ![i] = found]
        /\ step' = [step EXCEPT ![i] = IF found = "none" THEN "checked" ELSE "failed"]
        /\ UNCHANGED <<world, queues, phase, objects, orphans, mKnownSpendsTx, mempool,
                       chain, recentRejects, tipChanged, forgotten, budget>>

\* The run time is over before this task has started.
Cancel(i) ==
    /\ phase = "batch"
    /\ CanStartValidation(i)
    /\ ~(~TimeUp /\ budget.timeouts = 0)
    /\ budget' = IF TimeUp THEN budget ELSE [budget EXCEPT !.timeouts = @ - 1]
    /\ result' = [result EXCEPT ![i] = "cancelled"]
    /\ step' = [step EXCEPT ![i] = "done"]
    /\ UNCHANGED <<world, queues, phase, objects, orphans, mKnownSpendsTx, mempool,
                   chain, recentRejects, tipChanged, forgotten>>

(***************************************************************************)
(* The detector's insertTxnInputs, under its lock: a conflict with the pool *)
(* or with the inputs of a transaction in validation refuses it.            *)
(***************************************************************************)
isAnyOfInputsKnown(t) == \E s \in mKnownSpendsTx : Vin(s) \cap Vin(t) # {}

\* Only the pool is looked at, not the transactions still in validation.
InsertAllowedPoolOnly(t) == ~MempoolConflict(t)

InsertAllowed(t) == ~MempoolConflict(t) /\ ~isAnyOfInputsKnown(t)

insertTxnInputs(i) ==
    LET t == mProcessingQueue[i]
        allowed == InsertAllowed(t)
    IN  /\ phase = "batch"
        /\ step[i] = "checked"
        /\ mKnownSpendsTx' = IF allowed THEN mKnownSpendsTx \cup {t} ELSE mKnownSpendsTx
        /\ step' = [step EXCEPT ![i] = IF allowed THEN "inserted" ELSE "failed"]
        /\ result' = [result EXCEPT ![i] = IF allowed THEN "none" ELSE "policy"]
        /\ UNCHANGED <<world, queues, phase, objects, orphans, mempool, chain,
                       recentRejects, tipChanged, forgotten, budget>>

CommitTxToMempool(i) ==
    /\ phase = "batch"
    /\ step[i] = "inserted"
    /\ mempool' = mempool \cup {mProcessingQueue[i]}
    /\ step' = [step EXCEPT ![i] = "committed"]
    /\ UNCHANGED <<world, queues, result, phase, objects, orphans, mKnownSpendsTx, chain,
                   recentRejects, tipChanged, forgotten, budget>>

(***************************************************************************)
(* The end of ProcessValidatedTxn for a committed transaction: its outputs  *)
(* are remembered for dependent orphans, it leaves the orphan pool, and     *)
(* last its inputs leave the detector.                                      *)
(***************************************************************************)
FinishCommitted(i) ==
    LET t == mProcessingQueue[i]
    IN  /\ phase = "batch"
        /\ step[i] = "committed"
        /\ mCollectedTxData' = mCollectedTxData \cup {t}
        /\ mOrphanTxns' = mOrphanTxns \ {t}
        /\ mKnownSpendsTx' = mKnownSpendsTx \ {t}
        /\ step' = [step EXCEPT ![i] = "done"]
        /\ result' = [result EXCEPT ![i] = "accepted"]
        /\ UNCHANGED <<world, queues, phase, objects, mempool, chain, recentRejects,
                       tipChanged, forgotten, budget>>
-----------------------------------------------------------------------------
(***************************************************************************)
(* ProcessValidatedTxn for a transaction that failed.  Nothing but the      *)
(* detector is touched when its peer is gone.  completed: it will not be    *)
(* tried again at low priority.                                             *)
(***************************************************************************)
FromPeer(p) == {t \in Txs : start.peer[t] = p}

HandleInvalidOrphan(t, r, completed) ==
    /\ mOrphanTxns' = IF r = "missing" THEN mOrphanTxns
                      ELSE IF r = "invalid" THEN mOrphanTxns \ FromPeer(start.peer[t])
                      ELSE IF completed THEN mOrphanTxns \ {t}
                      ELSE mOrphanTxns
    /\ recentRejects' = IF r # "missing" /\ completed THEN recentRejects \cup {t} ELSE recentRejects
    /\ UNCHANGED <<orphan, tipChanged>>

\* A new orphan: its parents are asked for, which looks at the rejects, and the
\* pool is cut down to its size by evicting arbitrary orphans.
HandleOrphanAndRejected(t) ==
    IF Parents(t) \cap recentRejects # {}
    THEN /\ recentRejects' = recentRejects \cup {t}
         /\ UNCHANGED <<mOrphanTxns, orphan, tipChanged>>
    ELSE /\ recentRejects' = IF tipChanged THEN {} ELSE recentRejects
         /\ tipChanged' = FALSE
         /\ orphan' = [orphan EXCEPT ![t] = TRUE]
         /\ \E kept \in SUBSET (mOrphanTxns \cup {t}) :
              /\ Cardinality(kept) =
                    IF Cardinality(mOrphanTxns \cup {t}) > start.MaxOrphanTxSize
                    THEN start.MaxOrphanTxSize
                    ELSE Cardinality(mOrphanTxns \cup {t})
              /\ mOrphanTxns' = kept

HandleInvalidNonOrphan(t, r, completed) ==
    IF r = "missing"
    THEN HandleOrphanAndRejected(t)
    ELSE /\ recentRejects' = IF completed THEN recentRejects \cup {t} ELSE recentRejects
         /\ UNCHANGED <<mOrphanTxns, orphan, tipChanged>>

HandleInvalid(t, r) ==
    LET completed == lowPriority[t] \/ r # "timeout"
    IN  IF start.peer[t] \notin peers
        THEN UNCHANGED <<mOrphanTxns, orphan, recentRejects, tipChanged>>
        ELSE IF orphan[t]
             THEN HandleInvalidOrphan(t, r, completed)
             ELSE HandleInvalidNonOrphan(t, r, completed)

FinishFailed(i) ==
    LET t == mProcessingQueue[i]
    IN  /\ phase = "batch"
        /\ step[i] = "failed"
        /\ HandleInvalid(t, result[i])
        /\ mKnownSpendsTx' = mKnownSpendsTx \ {t}
        /\ step' = [step EXCEPT ![i] = "done"]
        /\ forgotten' = IF start.peer[t] \notin peers THEN forgotten \cup {t} ELSE forgotten
        /\ UNCHANGED <<world, queues, result, phase, mCollectedTxData, lowPriority, mempool,
                       chain, budget>>

\* The detector keeps the inputs of a transaction whose task threw.
ExceptionKeepsInputs(i) ==
    LET t == mProcessingQueue[i]
    IN  /\ phase = "batch"
        /\ step[i] \in {"checked", "inserted"}
        /\ budget.faults > 0
        /\ budget' = [budget EXCEPT !.faults = @ - 1]
        /\ step' = [step EXCEPT ![i] = "done"]
        /\ result' = [result EXCEPT ![i] = "faulted"]
        /\ forgotten' = forgotten \cup {t}
        /\ UNCHANGED <<world, queues, phase, objects, orphans, mKnownSpendsTx, mempool, chain,
                       recentRejects, tipChanged>>

\* An exception during the validation: the transaction is given up.
HandleTxnProcessingException(i) ==
    LET t == mProcessingQueue[i]
    IN  /\ phase = "batch"
        /\ step[i] \in {"checked", "inserted"}
        /\ budget.faults > 0
        /\ budget' = [budget EXCEPT !.faults = @ - 1]
        /\ mKnownSpendsTx' = mKnownSpendsTx \ {t}
        /\ step' = [step EXCEPT ![i] = "done"]
        /\ result' = [result EXCEPT ![i] = "faulted"]
        /\ forgotten' = forgotten \cup {t}
        /\ UNCHANGED <<world, queues, phase, objects, orphans, mempool, chain,
                       recentRejects, tipChanged>>

-----------------------------------------------------------------------------
(***************************************************************************)
(* LimitMempoolSize: an overflowing pool loses transactions, each with its  *)
(* descendants.                                                             *)
(***************************************************************************)
LimitMempoolSize(pool) ==
    {kept \in SUBSET pool :
        /\ \A t \in kept : Parents(t) \cap pool \subseteq kept
        /\ kept # pool => budget.overflows > 0}

(***************************************************************************)
(* The end of a batch, still under cs_main: transactions that ran out of    *)
(* time become low priority, the pool is limited, and the data of removed   *)
(* transactions is no longer collected.                                     *)
(***************************************************************************)
PositionsWith(r) == {i \in DOMAIN result : result[i] = r}
TxsWith(r) == {mProcessingQueue[i] : i \in PositionsWith(r)}

\* The same with the copies of a transaction that is in the batch twice; the
\* tasks of a batch run in any order, so the order does not matter.
CopiesWith(r) ==
    LET positions == SetToSeq(PositionsWith(r))
    IN  [k \in DOMAIN positions |-> mProcessingQueue[positions[k]]]

\* The priority of a transaction that ran out of time is not lowered.
EndBatchKeepsPriority ==
    /\ phase = "batch"
    /\ \A i \in DOMAIN step : step[i] = "done"
    /\ \E kept \in LimitMempoolSize(mempool) :
         /\ mempool' = kept
         /\ mCollectedTxData' = mCollectedTxData \ (mempool \ kept)
         /\ budget' = IF kept = mempool THEN budget ELSE [budget EXCEPT !.overflows = @ - 1]
    /\ phase' = "requeue"
    /\ UNCHANGED <<world, queues, step, result, mOrphanTxns, objects, mKnownSpendsTx, chain,
                   recentRejects, tipChanged, forgotten>>

EndBatch ==
    /\ phase = "batch"
    /\ \A i \in DOMAIN step : step[i] = "done"
    /\ lowPriority' = [t \in Txs |-> lowPriority[t] \/ t \in TxsWith("timeout")]
    /\ \E kept \in LimitMempoolSize(mempool) :
         /\ mempool' = kept
         /\ mCollectedTxData' = mCollectedTxData \ (mempool \ kept)
         /\ budget' = IF kept = mempool THEN budget ELSE [budget EXCEPT !.overflows = @ - 1]
    /\ phase' = "requeue"
    /\ UNCHANGED <<world, queues, step, result, mOrphanTxns, orphan, mKnownSpendsTx, chain,
                   recentRejects, tipChanged, forgotten>>

(***************************************************************************)
(* The orphans to retry: all that spend an output of an accepted            *)
(* transaction, and, up to the limit, the orphans that depend on those and  *)
(* are the only spender of the output.                                      *)
(***************************************************************************)
OnlyChild(p, o) ==
    \E op \in Vin(o) : op[1] = p /\ {s \in mOrphanTxns : op \in Vin(s)} = {o}

FirstLayer == {o \in mOrphanTxns : Parents(o) \cap mCollectedTxData # {}}

collectDependentTxnsForRetry ==
    {retry \in SUBSET mOrphanTxns :
        /\ FirstLayer \subseteq retry
        /\ \A o \in retry \ FirstLayer : \E p \in retry : OnlyChild(p, o)
        /\ IF Cardinality(FirstLayer) >= MaxOrphanInputsPerBatch
           THEN retry = FirstLayer
           ELSE \/ Cardinality(retry) >= MaxOrphanInputsPerBatch
                \/ \A o \in mOrphanTxns \ retry : \A p \in retry : ~OnlyChild(p, o)}

\* Orphans are only retried when nothing was cancelled.
scheduleOrphansUnlessCancelled(retry) == IF TxsWith("cancelled") = {} THEN retry ELSE {}

\* Cancelled transactions are queued again anyway.
scheduleOrphanP2PTxnsForReprocessing(retry) == retry \ TxsWith("cancelled")

(***************************************************************************)
(* After cs_main is released: low priority transactions move to the         *)
(* non-standard queue, the orphans to retry and the cancelled transactions  *)
(* become the next processing queue.                                        *)
(***************************************************************************)
Requeue ==
    LET slow == CopiesWith("timeout")
        room == start.MaxQueueMemSize - Len(mNonStdTxns)
        moved == SubSeq(slow, 1, IF Len(slow) < room THEN Len(slow) ELSE room)
    IN  /\ phase = "requeue"
        /\ mNonStdTxns' = mNonStdTxns \o moved
        /\ \E retry \in collectDependentTxnsForRetry :
             mProcessingQueue' = SetToSeq(scheduleOrphanP2PTxnsForReprocessing(retry))
                                 \o CopiesWith("cancelled")
        /\ mCollectedTxData' = {}
        /\ forgotten' = forgotten \cup (ToSet(slow) \ ToSet(moved))
        /\ step' = <<>> /\ result' = <<>>
        /\ phase' = "waiting"
        /\ UNCHANGED <<world, mStdTxns, mOrphanTxns, objects, mKnownSpendsTx, mempool, chain,
                       recentRejects, tipChanged, budget>>

-----------------------------------------------------------------------------
(***************************************************************************)
(* The synchronous interface, between two batches: sendrawtransaction       *)
(* validates one transaction without a time limit and without the orphan    *)
(* handlers, and the pool is limited at once.                               *)
(***************************************************************************)
SubmittedIsValid(t) ==
    /\ ~MempoolConflict(t)
    /\ HaveInputs(t)
    /\ start.verdict[t] \in {"ok", "slow"}
    /\ InsertAllowed(t)

Children(ts) == {o \in mOrphanTxns : Parents(o) \cap ts # {}}

processValidation(t) ==
    /\ phase = "waiting"
    /\ t \in budget.rpc
    /\ t \notin TxIdTracker \cup mempool
    /\ IF SubmittedIsValid(t)
       THEN \E kept \in LimitMempoolSize(mempool \cup {t}) :
              /\ mempool' = kept
              /\ forgotten' = forgotten \cup Children({t})
              /\ budget' = [budget EXCEPT !.rpc = @ \ {t},
                                !.overflows = IF kept = mempool \cup {t} THEN @ ELSE @ - 1]
       ELSE /\ budget' = [budget EXCEPT !.rpc = @ \ {t}]
            /\ UNCHANGED <<mempool, forgotten>>
    /\ UNCHANGED <<world, queues, step, result, phase, orphans, objects, mKnownSpendsTx,
                   chain, recentRejects, tipChanged>>

(***************************************************************************)
(* A block is connected while the validator does not hold cs_main: its      *)
(* transactions and their conflicts leave the pool, with the descendants of *)
(* the conflicts, and orphans that spend what the block spends are erased.  *)
(***************************************************************************)
StillFunded(pool, confirmed) ==
    UNION {kept \in SUBSET (pool \ confirmed) :
             \A t \in kept :
               /\ Parents(t) \subseteq {"base"} \cup confirmed \cup kept
               /\ \A s \in confirmed : ~Conflict(s, t)}

BlockConnected ==
    LET block == budget.block
    IN  /\ phase # "batch"
        /\ block # {}
        /\ chain' = block
        /\ mempool' = StillFunded(mempool, block)
        /\ mOrphanTxns' = {o \in mOrphanTxns : \A t \in block : Vin(o) \cap Vin(t) = {}}
        /\ forgotten' = forgotten \cup Children(block)
        /\ tipChanged' = TRUE
        /\ budget' = [budget EXCEPT !.block = {}]
        /\ UNCHANGED <<world, queues, step, result, phase, mCollectedTxData, objects,
                       mKnownSpendsTx, recentRejects>>

\* A peer disconnects (FinalizeNode needs cs_main): its orphans are erased.
FinalizeNode(p) ==
    /\ phase # "batch"
    /\ p \in peers
    /\ budget.leaves > 0
    /\ budget' = [budget EXCEPT !.leaves = @ - 1]
    /\ peers' = peers \ {p}
    /\ mOrphanTxns' = mOrphanTxns \ FromPeer(p)
    /\ UNCHANGED <<start, left, queues, step, result, phase, mCollectedTxData, objects,
                   mKnownSpendsTx, mempool, chain, recentRejects, tipChanged, forgotten>>

-----------------------------------------------------------------------------
Task(i) ==
    \/ Check(i)
    \/ Cancel(i)
    \/ insertTxnInputs(i)
    \/ CommitTxToMempool(i)
    \/ FinishCommitted(i)
    \/ FinishFailed(i)
    \/ HandleTxnProcessingException(i)

Validator ==
    \/ StartBatch
    \/ \E i \in DOMAIN mProcessingQueue : Task(i)
    \/ EndBatch
    \/ Requeue

Next ==
    \/ Validator
    \/ \E t \in Txs : ProcessTxMessage(t) \/ processValidation(t)
    \/ BlockConnected
    \/ \E p \in peers : FinalizeNode(p)

Spec == Init /\ [][Next]_vars

\* The validator thread runs every few milliseconds and its tasks are executed.
FairSpec == Spec /\ WF_vars(Validator)

-----------------------------------------------------------------------------
TypeOK ==
    /\ start \in Starts
    /\ left \in [Txs -> 0..2]
    /\ \A q \in {mStdTxns, mNonStdTxns, mProcessingQueue} : q \in Seq(Txs)
    /\ DOMAIN step = DOMAIN result
    /\ phase \in {"waiting", "batch", "requeue"}
    /\ orphan \in [Txs -> BOOLEAN] /\ lowPriority \in [Txs -> BOOLEAN]
    /\ \A s \in {mOrphanTxns, mCollectedTxData, mKnownSpendsTx, mempool, chain, recentRejects} :
          s \subseteq Txs

(***************************************************************************)
(* The detector's guarantee (txn_double_spend_detector.cpp:24-28): whatever *)
(* the interleaving of the tasks, of two transactions that spend the same   *)
(* output at most one gets into the pool, and every transaction of the pool *)
(* has its inputs, from the chain or from the pool.                         *)
(***************************************************************************)
PoolHasNoConflicts ==
    /\ \A s, t \in mempool : ~Conflict(s, t)
    /\ \A t \in mempool : HaveInputs(t)

(***************************************************************************)
(* The detector holds the inputs of exactly those transactions that passed  *)
(* it and are not finished: nothing is left behind by a failed, cancelled   *)
(* or throwing task, which would refuse later spenders for ever, and        *)
(* nothing is dropped before its transaction is committed.                  *)
(***************************************************************************)
DetectorSound ==
    /\ TypeOK
    /\ mKnownSpendsTx = {mProcessingQueue[i] :
                           i \in {j \in DOMAIN step : step[j] \in {"inserted", "committed"}}}

(***************************************************************************)
(* When the validator has nothing left to do, every orphan still in the     *)
(* pool lacks an input: no order of arrivals, timeouts, cancellations and   *)
(* retries leaves behind an orphan that could be accepted.  Excepted are    *)
(* orphans whose parent came by RPC or in a block, which retries nothing,   *)
(* and those given up: dropped from a full queue, thrown, or judged after   *)
(* their peer had left.                                                     *)
(***************************************************************************)
NoOrphanLeftBehind ==
    (phase = "waiting" /\ mStdTxns = <<>> /\ mNonStdTxns = <<>> /\ mProcessingQueue = <<>>)
        => \A o \in mOrphanTxns : HaveInputs(o) => o \in forgotten

\* Nothing happens but arrivals, timeouts and cancellations, and there is room.
Calm ==
    /\ start.budget.overflows = 0 /\ start.budget.faults = 0 /\ start.budget.leaves = 0
    /\ start.budget.rpc = {} /\ start.budget.block = {}
    /\ Cardinality(Txs) <= start.MaxQueueMemSize
    /\ Cardinality(Txs) <= start.MaxOrphanTxSize
    /\ \A t \in Txs : start.verdict[t] \notin {"invalid", "malformed"}

\* Valid, without a rival, and so are all unconfirmed ancestors.
Deserving ==
    UNION {ts \in SUBSET Txs :
             \A t \in ts : /\ start.verdict[t] \in {"ok", "slow"}
                           /\ Parents(t) \subseteq {"base"} \cup ts
                           /\ \A s \in Txs : ~Conflict(s, t)}

(***************************************************************************)
(* In a calm situation, once everything has been received every             *)
(* transaction that is valid, has no rival and only such ancestors gets     *)
(* into the pool, in whatever order they came, however often they ran out   *)
(* of time at high priority or were cancelled.                              *)
(***************************************************************************)
ValidTxnsAccepted ==
    (Calm /\ \A t \in Txs : left[t] = 0) ~> (Deserving \subseteq mempool)
=============================================================================
