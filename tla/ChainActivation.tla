-------------------------- MODULE ChainActivation --------------------------
(***************************************************************************)
(* Choosing the active chain: AcceptBlock, ActivateBestChain with blocks   *)
(* validated in parallel, and the RPCs that overrule it (invalidateblock,  *)
(* reconsiderblock, preciousblock).  Sources: validation.cpp,              *)
(* blockvalidation.h, block_index.h (CBlockIndexWorkComparator).           *)
(*                                                                         *)
(* Several threads run ActivateBestChain.  cs_main is held from one        *)
(* release to the next; it is released while the scripts of a block that   *)
(* extends the best known work are checked, and between two steps of the   *)
(* loop.  The mempool, the coins and the files the steps write are left    *)
(* to other modules, as are pruned blocks and soft consensus freezing.     *)
(***************************************************************************)
EXTENDS BlockTree, FiniteSets, FiniteSetsExt

CONSTANTS
    Thread,
    Work,               \* CBlockIndex::nChainWork
    Address,            \* addresses of the CBlockIndex objects
    Starts              \* the situations to explore

ASSUME ActivationAssumption ==
    /\ Work \in [Block -> Nat]
    /\ \A b \in Block \ {Genesis} : Work[b] > Work[Parent[b]]
    /\ Address \in [Block -> Nat]
    /\ \A b, c \in Block : Address[b] = Address[c] => b = c
    /\ \A s \in Starts :
          /\ s.blocks \subseteq Block /\ s.threads \subseteq Thread
          /\ s.valid \subseteq Block /\ Genesis \in s.valid
          /\ s.parallel \in Nat \ {0} /\ s.calls \in Nat
          /\ s.invalidatable \cup s.reconsiderable \cup s.preciousable
                \subseteq Block \ {Genesis}

(***************************************************************************)
(* A situation has: blocks, the blocks that come; valid, those of them that *)
(* satisfy the consensus rules; threads, the threads that activate them;    *)
(* parallel, config.GetMaxParallelBlocks(); the blocks an operator may pass *)
(* to each of the three RPCs; and calls, the bound on RPC calls and blocks  *)
(* delivered again.                                                         *)
(***************************************************************************)
VARIABLES
    start,         \* the situation of this behaviour, fixed
    known,         \* mapBlockIndex
    data,          \* blocks with BLOCK_HAVE_DATA, so validity TRANSACTIONS
    linked,        \* blocks with nChainTx set: all their parents have data
    unlinked,      \* mapBlocksUnlinked
    failed,        \* blocks with FAILED_FLAG
    failedParent,  \* blocks with FAILED_PARENT_FLAG
    scripts,       \* blocks of validity SCRIPTS
    vtime,         \* mValidationCompletionTime
    seq,           \* nSequenceId
    reverse,       \* nBlockReverseSequenceId
    lastPrecious,  \* nLastPreciousChainwork
    candidates,    \* setBlockIndexCandidates
    tip,           \* chainActive.Tip()
    validating,    \* CBlockValidationStatus::mCurrentlyValidatingBlocks
    terminated,    \* threads whose script checks were told to stop
    csMain,        \* the thread that holds cs_main
    act,           \* the activation each thread is running
    calls

index == <<known, data, linked, unlinked>>
status == <<failed, failedParent, scripts>>
order == <<vtime, seq, reverse, lastPrecious>>
vars == <<start, index, status, order, candidates, tip, validating, terminated, csMain, act, calls>>

\* Validation times: of a precious block, and of one not validated yet.
MinTime == 0
MaxTime == Cardinality(Block) + 1

\* The locals of ActivateBestChain and of the steps it calls.
Idle == [pc |-> "idle",
         pblock |-> Null,      \* the block that was delivered
         nested |-> FALSE,     \* called from InvalidateBlock, with cs_main held
         mostWork |-> Null,    \* pindexMostWork
         newTip |-> Null,      \* pindexNewTip
         oldTip |-> Null,      \* pindexOldTip
         block |-> Null]       \* the block whose scripts are being checked

\* Every variable has its type, and the sets of block statuses are nested as
\* AcceptBlock builds them: linked blocks have data, candidates and the tip are
\* linked, and a block that waits in mapBlocksUnlinked is not linked.
TypeOK ==
    /\ known \subseteq Block /\ data \subseteq known /\ linked \subseteq data
    /\ unlinked \subseteq data \ linked
    /\ failed \subseteq known /\ failedParent \subseteq known /\ scripts \subseteq linked
    /\ vtime \in [Block -> MinTime .. MaxTime]
    /\ seq \in [Block -> -start.calls .. Cardinality(Block)]
    /\ reverse \in -(start.calls + 1) .. -1
    /\ lastPrecious \in Nat
    /\ candidates \subseteq linked
    /\ tip \in linked
    /\ validating \subseteq linked
    /\ terminated \subseteq Thread
    /\ csMain \in Thread \cup {Null}
    /\ act \in [Thread ->
          [pc : {"idle", "loop", "find", "check", "connect", "scripts"},
           pblock : BlockOrNull, nested : BOOLEAN, mostWork : BlockOrNull,
           newTip : BlockOrNull, oldTip : BlockOrNull, block : BlockOrNull]]
    /\ calls \in 0 .. start.calls

\* The genesis block is loaded and active.
Init ==
    /\ start \in Starts
    /\ known = {Genesis} /\ data = {Genesis} /\ linked = {Genesis} /\ unlinked = {}
    /\ failed = {} /\ failedParent = {} /\ scripts = {Genesis}
    /\ vtime = [b \in Block |-> IF b = Genesis THEN MinTime ELSE MaxTime]
    /\ seq = [b \in Block |-> 0]
    /\ reverse = -1 /\ lastPrecious = 0
    /\ candidates = {Genesis} /\ tip = Genesis
    /\ validating = {} /\ terminated = {} /\ csMain = Null
    /\ act = [t \in Thread |-> Idle]
    /\ calls = 0

-----------------------------------------------------------------------------
\* CBlockIndexWorkComparator: a sorts below b, with validation times vt and
\* sequence numbers sq.
WorseBy(vt, sq, a, b) ==
    \/ Work[a] < Work[b]
    \/ /\ Work[a] = Work[b]
       /\ \/ vt[a] > vt[b]
          \/ /\ vt[a] = vt[b]
             /\ \/ sq[a] > sq[b]
                \/ sq[a] = sq[b] /\ Address[a] > Address[b]

Worse(a, b) == WorseBy(vtime, seq, a, b)

Invalid == failed \cup failedParent
Below(b) == {c \in known : b \in Chain[c] /\ c # b}
Fork(a, b) == CHOOSE c \in Chain[a] \cap Chain[b] :
                 \A d \in Chain[a] \cap Chain[b] : Height[d] <= Height[c]

Free(t) == csMain \in {Null, t}

\* The thread returns from ActivateBestChain, and from its caller.
Exit(t) == act' = [act EXCEPT ![t] = Idle] /\ csMain' = Null

-----------------------------------------------------------------------------
\* AcceptBlockHeader for a header alone.
AcceptBlockHeader(b) ==
    /\ csMain = Null
    /\ b \notin known
    /\ Parent[b] \in known \ Invalid
    /\ known' = known \cup {b}
    /\ UNCHANGED <<start, data, linked, unlinked, status, order, candidates, tip,
                   validating, terminated, csMain, act, calls>>

\* ReceivedBlockTransactions.  When the parent is linked the block becomes so,
\* and with it every block that waited for it, parents first.
ReceivedBlockTransactions(b) ==
    LET waiting == unlinked \cup {b}
        new == {c \in waiting : b \in Chain[c] /\ Chain[c] \ Chain[Parent[b]] \subseteq waiting}
        next == Cardinality(linked)
    IN /\ data' = data \cup {b}
       /\ IF Parent[b] \in linked
          THEN \E s \in [new -> next .. next + Cardinality(new) - 1] :
                  /\ \A c, d \in new : s[c] = s[d] => c = d
                  /\ \A c, d \in new : Height[c] < Height[d] => s[c] < s[d]
                  /\ seq' = [c \in Block |-> IF c \in new THEN s[c] ELSE seq[c]]
                  /\ linked' = linked \cup new
                  /\ unlinked' = unlinked \ new
                  /\ candidates' = candidates \cup {c \in new : ~WorseBy(vtime, seq', c, tip)}
          ELSE /\ unlinked' = IF Parent[b] \in Invalid THEN unlinked ELSE unlinked \cup {b}
               /\ UNCHANGED <<seq, linked, candidates>>

\* ProcessNewBlock: AcceptBlock under cs_main, then ActivateBestChain.  A block
\* nobody asked for is stored only if it has more work than the tip; one that
\* is not stored still starts an activation.
ProcessNewBlock(t, b) ==
    /\ act[t] = Idle /\ csMain = Null
    /\ b # Genesis /\ Parent[b] \in known \ Invalid
    /\ b \notin Invalid
    /\ known' = known \cup {b}
    /\ act' = [act EXCEPT ![t] = [Idle EXCEPT !.pc = "loop", !.pblock = b]]
    /\ \/ /\ b \notin data
          /\ ReceivedBlockTransactions(b)
          /\ UNCHANGED calls
       \/ /\ b \in data \/ Work[b] <= Work[tip]
          /\ calls < start.calls /\ calls' = calls + 1
          /\ UNCHANGED <<data, linked, unlinked, seq, candidates>>
    /\ UNCHANGED <<start, status, vtime, reverse, lastPrecious, tip, validating, terminated, csMain>>

-----------------------------------------------------------------------------
\* One pass of the loop in ActivateBestChain: the cached target is kept if
\* nobody moved the tip meanwhile.
ActivateBestChain(t) ==
    LET a == act[t]
        cached == a.mostWork # Null /\ a.newTip = tip
    IN /\ a.pc = "loop" /\ Free(t)
       /\ csMain' = t
       /\ act' = [act EXCEPT ![t].oldTip = tip,
                             ![t].mostWork = IF cached THEN a.mostWork ELSE Null,
                             ![t].pc = IF cached THEN "check" ELSE "find"]
       /\ UNCHANGED <<start, index, status, order, candidates, tip, validating, terminated, calls>>

\* ConsiderBlockForMostWorkChain
ConsiderBlock(mostWork, b, currentTip) ==
    IF \/ b = Null \/ b = mostWork \/ Parent[b] # currentTip
       \/ Work[mostWork] > Work[b]
       \/ b \notin linked \ Invalid
    THEN mostWork ELSE b

\* InvalidateChain: every block that builds on b fails with it.
InvalidateChain(b) ==
    /\ failedParent' = failedParent \cup Below(b)
    /\ candidates' = candidates \ (Below(b) \cup {b})

\* FindMostWorkChain, one candidate at a time: a candidate with an invalid
\* ancestor is dropped with everything that builds on that ancestor.
FindMostWorkChain(t) ==
    LET a == act[t]
        best == CHOOSE c \in candidates : \A d \in candidates \ {c} : Worse(d, c)
        bad == (Chain[best] \ Chain[tip]) \cap Invalid
        mostWork == ConsiderBlock(best, a.pblock, a.oldTip)
    IN /\ a.pc = "find"
       /\ \/ /\ candidates = {}
             /\ Exit(t)
             /\ UNCHANGED <<failedParent, candidates>>
          \/ /\ candidates # {} /\ bad = {}
             /\ IF mostWork = a.oldTip
                THEN Exit(t)
                ELSE /\ act' = [act EXCEPT ![t].mostWork = mostWork, ![t].pc = "check"]
                     /\ UNCHANGED csMain
             /\ UNCHANGED <<failedParent, candidates>>
          \/ /\ candidates # {} /\ bad # {}
             /\ InvalidateChain(CHOOSE b \in bad : \A c \in bad : Height[c] <= Height[b])
             /\ UNCHANGED <<act, csMain>>
       /\ UNCHANGED <<start, index, failed, scripts, order, tip, validating, terminated, calls>>

\* CBlockValidationStatus
isAncestorInValidation(b) == validating \cap Chain[b] # {}
areNSiblingsInValidation(b, n) == Cardinality({c \in validating : Height[c] = Height[b]}) >= n

\* The beginning of ActivateBestChainStep: the active chain is disconnected down
\* to its fork with the target.
DisconnectToFork(mostWork) == tip' = Fork(tip, mostWork)

\* Another activation already heads for the target, or every validation queue
\* is taken by its siblings; otherwise ActivateBestChainStep begins.
CheckTarget(t) ==
    LET a == act[t]
    IN /\ a.pc = "check"
       /\ \/ /\ \/ isAncestorInValidation(a.mostWork)
                \/ areNSiblingsInValidation(a.mostWork, start.parallel)
             /\ Exit(t)
             /\ UNCHANGED tip
          \/ /\ ~isAncestorInValidation(a.mostWork)
             /\ ~areNSiblingsInValidation(a.mostWork, start.parallel)
             /\ DisconnectToFork(a.mostWork)
             /\ act' = [act EXCEPT ![t].pc = "connect"]
             /\ UNCHANGED csMain
       /\ UNCHANGED <<start, index, status, order, candidates, validating, terminated, calls>>

-----------------------------------------------------------------------------
\* Mutant of EndStep: the target is kept whatever was found.
EndStepCached(t, newTip, fInvalidFound) ==
    /\ act' = [act EXCEPT ![t] =
                 [@ EXCEPT !.pc = "loop", !.newTip = newTip, !.oldTip = Null, !.block = Null,
                           !.mostWork = IF @ = newTip THEN Null ELSE @]]
    /\ csMain' = IF act[t].nested THEN t ELSE Null

\* The end of a step, with newTip active: the target is kept if it lies further
\* on and no invalid block was found.  cs_main is released unless the caller of
\* ActivateBestChain holds it too.
EndStep(t, newTip, fInvalidFound) ==
    LET a == act[t]
    IN /\ act' = [act EXCEPT ![t] =
                    [a EXCEPT !.pc = "loop", !.newTip = newTip, !.oldTip = Null, !.block = Null,
                              !.mostWork = IF fInvalidFound \/ @ = newTip THEN Null ELSE @]]
       /\ csMain' = IF a.nested THEN t ELSE Null

\* Mutant of Unwind: the exception leaves ActivateBestChain.
UnwindExit(t) == Exit(t)

\* An exception leaves the step: the loop starts over without a target.
Unwind(t) ==
    /\ act' = [act EXCEPT ![t] = [@ EXCEPT !.pc = "loop", !.oldTip = Null, !.block = Null,
                                           !.mostWork = Null]]
    /\ csMain' = Null

\* PruneBlockIndexCandidates, with b the active tip.
PruneBlockIndexCandidates(cands, vt, sq, b) == {c \in cands : ~WorseBy(vt, sq, c, b)}

\* writeUndoToDisk between erase and insert: the validity is raised, and the
\* time of the validation noted, unless the block has failed.
WriteUndo(b) ==
    /\ scripts' = IF b \in Invalid THEN scripts ELSE scripts \cup {b}
    /\ vtime' = IF b \in Invalid \cup scripts \/ vtime[b] # MaxTime THEN vtime
                ELSE [vtime EXCEPT ![b] = Max({vtime[c] : c \in Block} \ {MaxTime}) + 1]

\* The rest of ConnectTip for a block that was found valid, and of the step.
Connected(t, b) ==
    /\ WriteUndo(b)
    /\ tip' = b
    /\ candidates' = PruneBlockIndexCandidates(candidates \cup {b}, vtime', seq, b)
    /\ IF b = act[t].mostWork \/ Work[b] > Work[act[t].oldTip]
       THEN EndStep(t, b, FALSE)
       ELSE UNCHANGED <<act, csMain>>
    /\ UNCHANGED <<failed, failedParent>>

\* InvalidBlockFound, and the end of the step.
InvalidBlockFound(t, b) ==
    /\ failed' = failed \cup {b}
    /\ candidates' = candidates \ {b}
    /\ EndStep(t, tip, TRUE)
    /\ UNCHANGED <<failedParent, scripts, vtime, tip>>

\* Mutant of parallelBlockValidation: cs_main is released for every block.
parallelBlockValidationAlways(t) == ~act[t].nested

\* The tip is as good as when the step began: the scripts of the next block are
\* checked without cs_main.
parallelBlockValidation(t) == Work[tip] = Work[act[t].oldTip] /\ ~act[t].nested

NextBlock(t) == NextTowards(tip, act[t].mostWork)

\* CCheckQueuePool::GetChecker: with no idle queue, the checks of a block on the
\* way to the least work are told to stop, if that is less than this thread's.
GetChecker(t) ==
    LET running == {u \in Thread : act[u].pc = "scripts"}
        value(u) == Work[act[u].mostWork]
        worst == {u \in running : \A v \in running : value(u) <= value(v)}
    IN IF Cardinality(running) >= start.parallel /\ \E u \in worst : value(u) < value(t)
       THEN \E u \in worst : terminated' = terminated \cup {u}
       ELSE UNCHANGED terminated

\* ConnectTip with cs_main held from beginning to end.
ConnectTip(t) ==
    /\ act[t].pc = "connect"
    /\ ~parallelBlockValidation(t)
    /\ GetChecker(t)
    /\ \/ NextBlock(t) \in start.valid /\ Connected(t, NextBlock(t))
       \/ NextBlock(t) \notin start.valid /\ InvalidBlockFound(t, NextBlock(t))
    /\ UNCHANGED <<start, index, seq, reverse, lastPrecious, validating, calls>>

\* ConnectTip up to LeaveCriticalSectionGuard.
ConnectTipStart(t) ==
    /\ act[t].pc = "connect"
    /\ parallelBlockValidation(t)
    /\ GetChecker(t)
    /\ validating' = validating \cup {NextBlock(t)}
    /\ act' = [act EXCEPT ![t].pc = "scripts", ![t].block = NextBlock(t)]
    /\ csMain' = Null
    /\ UNCHANGED <<start, index, status, order, candidates, tip, calls>>

\* Mutant of TryReattach: the best block is not compared.
TryReattachAlways(b) == TRUE

\* TryReattach: the best block is the one the block was checked against.
TryReattach(b) == tip = Parent[b]

\* The scripts have been checked and cs_main is held again.
ConnectTipFinish(t) ==
    LET b == act[t].block
    IN /\ act[t].pc = "scripts" /\ csMain = Null
       /\ validating' = validating \ {b}
       /\ terminated' = terminated \ {t}
       /\ \/ /\ b \in start.valid /\ TryReattach(b)
             /\ Connected(t, b)
          \/ /\ b \in start.valid /\ ~TryReattach(b)    \* CBestBlockAttachmentCancellation
             /\ WriteUndo(b)
             /\ candidates' = candidates \cup {b}
             /\ Unwind(t)
             /\ UNCHANGED <<failed, failedParent, tip>>
          \/ b \notin start.valid /\ InvalidBlockFound(t, b)
       /\ UNCHANGED <<start, index, seq, reverse, lastPrecious, calls>>

\* CBlockValidationCancellation: the checks stopped before they were complete.
CancelValidation(t) ==
    /\ act[t].pc = "scripts" /\ csMain = Null
    /\ t \in terminated
    /\ validating' = validating \ {act[t].block}
    /\ terminated' = terminated \ {t}
    /\ Unwind(t)
    /\ UNCHANGED <<start, index, status, order, candidates, tip, calls>>

-----------------------------------------------------------------------------
\* InvalidateBlock, up to its own call of ActivateBestChain.
InvalidateBlock(t, b) ==
    LET active == b \in Chain[tip]
        gone == IF active THEN Chain[tip] \ Chain[Parent[b]] ELSE Below(b)
    IN /\ act[t] = Idle /\ csMain = Null
       /\ b \in known /\ calls < start.calls
       /\ failed' = failed \cup {b}
       /\ failedParent' = failedParent \cup gone
       /\ tip' = IF active THEN Parent[b] ELSE tip
       /\ candidates' = (candidates \ (gone \cup {b}))
                         \cup {c \in linked \ (failed' \cup failedParent') : ~Worse(c, tip')}
       /\ act' = [act EXCEPT ![t] = [Idle EXCEPT !.pc = "loop", !.nested = TRUE]]
       /\ csMain' = t
       /\ calls' = calls + 1
       /\ UNCHANGED <<start, index, scripts, order, validating, terminated>>

\* Mutant of ReconsiderBlock: the descendants keep their flags.
ReconsiderBlockAlone(t, b) ==
    /\ act[t] = Idle /\ csMain = Null
    /\ b \in known /\ calls < start.calls
    /\ failed' = failed \ Chain[b]
    /\ failedParent' = failedParent \ Chain[b]
    /\ candidates' = candidates \cup {c \in {b} \cap Invalid \cap linked : Worse(tip, c)}
    /\ act' = [act EXCEPT ![t] = [Idle EXCEPT !.pc = "loop"]]
    /\ calls' = calls + 1
    /\ UNCHANGED <<start, index, scripts, order, tip, validating, terminated, csMain>>

\* ResetBlockFailureFlags, then ActivateBestChain without cs_main.
ReconsiderBlock(t, b) ==
    LET below == Below(b) \cup {b}
    IN /\ act[t] = Idle /\ csMain = Null
       /\ b \in known /\ calls < start.calls
       /\ failed' = failed \ (below \cup Chain[b])
       /\ failedParent' = failedParent \ (below \cup Chain[b])
       /\ candidates' = candidates \cup {c \in below \cap Invalid \cap linked : Worse(tip, c)}
       /\ act' = [act EXCEPT ![t] = [Idle EXCEPT !.pc = "loop"]]
       /\ calls' = calls + 1
       /\ UNCHANGED <<start, index, scripts, order, tip, validating, terminated, csMain>>

\* PreciousBlock: the block is treated as the first one with its work.
PreciousBlock(t, b) ==
    LET id == IF Work[tip] > lastPrecious THEN -1 ELSE reverse
    IN /\ act[t] = Idle /\ csMain = Null
       /\ b \in known /\ calls < start.calls
       /\ Work[b] >= Work[tip]
       /\ lastPrecious' = Work[tip]
       /\ vtime' = [vtime EXCEPT ![b] = MinTime]
       /\ seq' = [seq EXCEPT ![b] = id]
       /\ reverse' = id - 1
       /\ candidates' = IF b \in linked \ Invalid
                        THEN PruneBlockIndexCandidates(candidates \cup {b}, vtime', seq', tip)
                        ELSE candidates \ {b}
       /\ act' = [act EXCEPT ![t] = [Idle EXCEPT !.pc = "loop"]]
       /\ calls' = calls + 1
       /\ UNCHANGED <<start, index, status, tip, validating, terminated, csMain>>

-----------------------------------------------------------------------------
Activation(t) ==
    \/ ActivateBestChain(t) \/ FindMostWorkChain(t) \/ CheckTarget(t)
    \/ ConnectTip(t) \/ ConnectTipStart(t) \/ ConnectTipFinish(t)

Next ==
    \/ \E b \in start.blocks : AcceptBlockHeader(b)
    \/ \E t \in start.threads :
          \/ Activation(t)
          \/ CancelValidation(t)
          \/ \E b \in start.blocks : ProcessNewBlock(t, b)
          \/ \E b \in start.invalidatable : InvalidateBlock(t, b)
          \/ \E b \in start.reconsiderable : ReconsiderBlock(t, b)
          \/ \E b \in start.preciousable : PreciousBlock(t, b)

Spec == Init /\ [][Next]_vars

\* Threads keep running, and every script check ends.
FairSpec == Spec /\ \A t \in Thread : WF_vars(Activation(t))

-----------------------------------------------------------------------------
\* The active chain holds no block marked invalid whenever cs_main is free:
\* FindMostWorkChain looks no further down than the active chain, "as we know
\* all blocks in it are valid already".
ActiveChainValid == csMain = Null => Chain[tip] \cap Invalid = {}

\* A block is validated by one thread at a time: the guard taken by ConnectTip
\* finds its block unused ("Same block already being validated - if this
\* happens we have a bug").
NotValidatedTwice ==
    \A t \in Thread : act[t].pc = "connect" => NextBlock(t) \notin validating

\* A block is connected on top of its parent, also when its scripts were checked
\* while other threads moved the tip; other steps only go back along the chain.
TipFollowsTree ==
    [][tip' # tip => Parent[tip'] = tip \/ tip' \in Chain[tip]]_vars

\* Other threads see the tip when cs_main is released.  A step that releases it
\* leaves a tip with no less work than it found, unless it met an invalid block.
ReleasedTipNotWorse ==
    [][\A t \in Thread :
          csMain = t /\ csMain' = Null /\ act[t].oldTip # Null /\ failed' = failed
          => Work[tip'] >= Work[act[t].oldTip]]_vars

\* No block is forgotten: a block that is linked and not marked invalid is a
\* candidate, or a candidate with a fully validated chain sorts above it.
CandidatesCover ==
    csMain = Null =>
        \A b \in linked : Chain[b] \cap Invalid = {} =>
            \E c \in candidates : c = b \/ (Worse(b, c) /\ Chain[c] \subseteq scripts)

\* When no activation is running, no linked chain without invalid blocks has
\* more work than the active one: an activation that gave up in favour of
\* another, lost its validation queue or was overtaken was not the last word.
BestChainActive ==
    (\A t \in Thread : act[t] = Idle) =>
        \A b \in linked : Chain[b] \subseteq start.valid /\ Chain[b] \cap Invalid = {}
                              => Work[b] <= Work[tip]

\* Every call of ActivateBestChain returns.
ActivationEnds == \A t \in Thread : act[t] # Idle ~> act[t] = Idle

\* CheckBlockIndex: a block with data, whose parents are not all there and none
\* of them invalid, waits in mapBlocksUnlinked.
WaitsForParents ==
    csMain = Null =>
        \A b \in data \ linked : Chain[b] \cap failed = {} => b \in unlinked

\* CheckBlockIndex: "The failed mask cannot be set for blocks without invalid
\* parents."
FailedMaskHasCause ==
    csMain = Null => \A b \in Invalid : Chain[b] \cap failed # {}

\* Block flags, candidates, waiting blocks and blocks in validation agree with
\* each other and with the active chain, as FindMostWorkChain, ConnectTip and
\* CheckBlockIndex take for granted.
IndexConsistent ==
    /\ TypeOK
    /\ ActiveChainValid /\ CandidatesCover /\ WaitsForParents /\ FailedMaskHasCause
    /\ NotValidatedTwice
=============================================================================
