--------------------------- MODULE MiningJournal ---------------------------
(***************************************************************************)
(* The journal from which block templates are built (mining/journal.cpp,    *)
(* mining/journal_change_set.cpp, mining/journal_builder.cpp), and the      *)
(* assembler that follows it (mining/journaling_block_assembler.cpp).       *)
(*                                                                          *)
(* A change set collects ADD and REMOVE operations for one reason.  Basic   *)
(* reasons let it be applied as soon as it ends with the paying transaction *)
(* of a group; the changes of a block or a reorganisation wait until the    *)
(* set is complete, and are applied to a copy of the journal that has       *)
(* replaced it.  The assembler keeps a position in the journal it reads and *)
(* starts over when that journal was replaced or its order has changed.     *)
(***************************************************************************)
EXTENDS MempoolGroups

CONSTANTS
    MaxSlot,       \* mMaxSlotTransactions: transactions per update of a template
    MaxBlockSize   \* maximum generated block size, in transactions

ASSUME SlotAssumption == MaxSlot \in Nat \ {0} /\ MaxBlockSize \in Nat

VARIABLES
    journal,   \* the current journal: its entries in the order of replay
    changes,   \* the change set of the holder of cs_main
    asm        \* the assembler: its position, whether that is still valid,
               \* and the transactions of the block it is building

NoChanges == [reason |-> "none", ops |-> <<>>, tail |-> TRUE]
NewChangeSet(reason) == [NoChanges EXCEPT !.reason = reason, !.tail = reason # "REORG"]
isUpdateReasonBasic(reason) == reason \notin {"NEW_BLOCK", "REORG", "RESET"}

TxnsOf(s) == [i \in DOMAIN s |-> s[i].tx]
Removals(ops) == {i \in DOMAIN ops : ops[i].op = "REMOVE"}

addOperations(set, ops) ==
    [set EXCEPT !.ops = @ \o ops, !.tail = @ /\ Removals(ops) = {}]

(***************************************************************************)
(* CJournal::applyChanges.  A transaction is in the journal at most once.   *)
(* A reorganisation inserts before the entry that was first when the        *)
(* changes began, all others append; kept counts the entries of the old     *)
(* journal that are left.                                                   *)
(***************************************************************************)
\* Mutant: every transaction of a reorganisation is inserted at the very front.
ApplyChangeReversed(s, change, isReorg) ==
    CASE change.op = "ADD" /\ isReorg -> [s EXCEPT !.txs = <<change.entry>> \o @]
      [] change.op = "ADD" /\ ~isReorg -> [s EXCEPT !.txs = Append(@, change.entry)]
      [] OTHER -> [s EXCEPT !.txs = SelectSeq(@, LAMBDA e : e.tx # change.entry.tx)]

ApplyChange(s, change, isReorg) ==
    LET at == {i \in DOMAIN s.txs : s.txs[i].tx = change.entry.tx}
        i == CHOOSE k \in at : TRUE
        front == Len(s.txs) - s.kept
    IN  CASE change.op = "ADD" /\ at # {} -> s
          [] change.op = "ADD" /\ at = {} /\ isReorg ->
               [s EXCEPT !.txs = InsertAt(@, front + 1, change.entry)]
          [] change.op = "ADD" /\ at = {} /\ ~isReorg ->
               [s EXCEPT !.txs = Append(@, change.entry)]
          [] change.op = "REMOVE" /\ at # {} ->
               [txs |-> RemoveAt(s.txs, i), kept |-> IF i > front THEN s.kept - 1 ELSE s.kept]
          [] OTHER -> s

applyChanges(txs, ops, reason) ==
    LET isReorg == reason = "REORG"
        step(s, change) == ApplyChange(s, change, isReorg)
    IN  FoldLeft(step, [txs |-> txs, kept |-> Len(txs)], ops).txs

\* Mutant: no change makes the position stale.
ObservedAlwaysValid(a, tail) == a

\* The assembler's position survives a change that only appends.
Observed(a, tail) == [a EXCEPT !.valid = @ /\ tail]

\* The position is that of an entry: it moves when others are inserted before it.
Moved(a, old, new, set) ==
    IF set.reason = "REORG" /\ set.tail /\ old # <<>>
    THEN [a EXCEPT !.pos = @ + Len(new) - Len(old)] ELSE a

\* What a change set with a basic reason applies at once: everything up to the
\* last paying transaction of a group.
Immediate(set) ==
    LET paying == {i \in DOMAIN set.ops :
                      set.ops[i].op = "ADD" /\ set.ops[i].entry.group = set.ops[i].entry.tx}
    IN  IF isUpdateReasonBasic(set.reason) /\ paying # {}
        THEN CHOOSE n \in paying : \A i \in paying : i <= n
        ELSE 0

(***************************************************************************)
(* JournalingBlockAssembler.  addTransactionOrGroup adds the next entry, or *)
(* every entry of its group, or nothing when they do not fit.               *)
(***************************************************************************)
GroupAt(txs, pos) ==
    LET g == txs[pos].group
        last == CHOOSE n \in pos..Len(txs) :
                  /\ \A i \in pos..n : txs[i].group = g
                  /\ n < Len(txs) => txs[n + 1].group # g
    IN  IF g = NoTx THEN SubSeq(txs, pos, pos) ELSE SubSeq(txs, pos, last)

Fits(a, txs) == Len(a.txns) + Len(GroupAt(txs, a.pos)) < MaxBlockSize

addTransactionOrGroup(a, txs) ==
    LET unit == GroupAt(txs, a.pos)
    IN  [a EXCEPT !.txns = @ \o TxnsOf(unit), !.pos = @ + Len(unit)]

newBlock == [valid |-> TRUE, pos |-> 1, txns |-> <<>>]

\* Mutant: the transactions of earlier updates count as well.
updateBlockTotal(a, txs, maxTxns) ==
    LET begun == IF a.valid THEN a ELSE newBlock
        Finished(b) == b.pos > Len(txs) \/ Len(b.txns) >= maxTxns \/ ~Fits(b, txs)
        loop[b \in [valid : BOOLEAN, pos : Nat, txns : Seq(Txs)]] ==
            IF Finished(b) THEN b ELSE loop[addTransactionOrGroup(b, txs)]
    IN  loop[begun]

\* Takes entries until maxTxns are taken, the journal ends or the next does not fit.
updateBlock(a, txs, maxTxns) ==
    LET begun == IF a.valid THEN a ELSE newBlock
        Finished(b) == \/ b.pos > Len(txs)
                       \/ Len(b.txns) >= Len(begun.txns) + maxTxns
                       \/ ~Fits(b, txs)
        loop[b \in [valid : BOOLEAN, pos : Nat, txns : Seq(Txs)]] ==
            IF Finished(b) THEN b ELSE loop[addTransactionOrGroup(b, txs)]
    IN  loop[begun]
=============================================================================
