----------------------------- MODULE CheckQueue -----------------------------
(***************************************************************************)
(* The pool of check queues that verify the scripts of blocks, with their  *)
(* worker threads and the threads that validate blocks (checkqueue.h,      *)
(* checkqueuepool.h).  A validating thread takes a queue from the pool,    *)
(* adds checks, and helps the workers of the queue until nothing is left.  *)
(* An action is one critical section under the mutex of a queue or of the  *)
(* pool, or the execution of one check outside of it.                      *)
(***************************************************************************)
EXTENDS Integers, Sequences, FiniteSets, SequencesExt

CONSTANTS
    mScriptCheckQueue, \* the queues, a sequence
    Worker,
    Client,            \* threads that validate blocks
    GroupClient,       \* those that are in the thread group of the node
    QueueOf,           \* the queue a worker was spawned for
    ValueT,            \* nChainWork of the tips that are validated
    Batches,           \* what is passed to Add: sequences of "good" and "bad"
    MaxChecks,         \* bound on the checks of a session
    nBatchSize,
    None

Queue == ToSet(mScriptCheckQueue)
Thread == Worker \cup Client

ASSUME CheckQueueAssumption ==
    /\ mScriptCheckQueue # <<>> /\ IsInjective(mScriptCheckQueue)
    /\ IsFiniteSet(Worker) /\ IsFiniteSet(Client) /\ Worker \cap Client = {}
    /\ GroupClient \subseteq Client
    /\ DOMAIN QueueOf = Worker /\ \A w \in Worker : QueueOf[w] \in Queue
    /\ ValueT \subseteq Nat
    /\ \A b \in Batches : b # <<>> /\ ToSet(b) \subseteq {"good", "bad"}
    /\ MaxChecks \in Nat /\ nBatchSize \in Nat \ {0}
    /\ None \notin Queue

VARIABLES
    mIdleQueues,      \* sequence of queues
    mRunningCheckers, \* sequence of [mChecker, mValue], oldest first
    cq,               \* the members of every CCheckQueue
    pc,
    at,               \* the queue a thread works for
    value,            \* the value a client waits for a queue with
    hand,             \* vChecks (those not yet executed) and nNow of Loop
    fOk,
    vTempFailedChecks,
    scopeExited,      \* the client is in ~CCheckQueueScopeGuard
    added, passed,    \* history: checks of the session, and those found good
    interrupted,      \* what interrupt_all did to a thread: "no", "pending", "thrown"
    shutdown,         \* "no", "started", "destroyed"
    aborted           \* an assertion failed

poolVars == <<mIdleQueues, mRunningCheckers, value>>
nodeVars == <<interrupted, shutdown, aborted>>
history == <<added, passed>>
vars == <<poolVars, cq, pc, at, hand, fOk, vTempFailedChecks, scopeExited, history, nodeVars>>

NoWork == [checks |-> <<>>, nNow |-> 0]

\* failedChecks and vTempFailedChecks stand for whether a check of the current
\* session is among them; what earlier sessions left there is not looked at.
Init ==
    /\ mIdleQueues = mScriptCheckQueue
    /\ mRunningCheckers = <<>>
    /\ cq = [q \in Queue |-> [queue |-> <<>>, nTodo |-> 0, nTotal |-> 0, nIdle |-> 0,
                              fAllOk |-> "ok", canceled |-> FALSE, failedChecks |-> FALSE]]
    /\ pc = [t \in Thread |-> IF t \in Worker THEN "first" ELSE "none"]
    /\ at = [t \in Thread |-> IF t \in Worker THEN QueueOf[t] ELSE None]
    /\ value = [c \in Client |-> 0]
    /\ hand = [t \in Thread |-> NoWork]
    /\ fOk = [t \in Thread |-> "ok"]
    /\ vTempFailedChecks = [t \in Thread |-> FALSE]
    /\ scopeExited = [c \in Client |-> FALSE]
    /\ added = [q \in Queue |-> 0] /\ passed = [q \in Queue |-> 0]
    /\ interrupted = [t \in Thread |-> "no"] /\ shutdown = "no" /\ aborted = FALSE

-----------------------------------------------------------------------------
(***************************************************************************)
(* CCheckQueue::Loop.  "first", "finish" and "awake" are the three ways    *)
(* into its critical section, "run" is the work outside.                   *)
(***************************************************************************)
Both(a, b) == IF a = "none" \/ b = "none" THEN "none"
              ELSE IF a = "ok" /\ b = "ok" THEN "ok" ELSE "bad"

\* The result of the last batch; with a canceled session the queue is drained.
FinishBatch(c, t) ==
    [c EXCEPT !.fAllOk = Both(@, fOk[t]),
              !.failedChecks = @ \/ (Both(c.fAllOk, fOk[t]) # "none" /\ vTempFailedChecks[t]),
              !.nTodo = @ - hand[t].nNow - (IF c.canceled THEN Len(c.queue) ELSE 0),
              !.queue = IF c.canceled THEN <<>> ELSE @]

\* The queue's members after the first part of the critical section.
CleanUp(t) ==
    LET c == cq[at[t]] IN
    CASE pc[t] = "first"  -> [c EXCEPT !.nTotal = @ + 1]
      [] pc[t] = "awake"  -> [c EXCEPT !.nIdle = @ - 1]
      [] pc[t] = "finish" -> FinishBatch(c, t)

\* boost::condition_variable::wait throws when the thread has been interrupted.
InLoop(t) == \/ pc[t] \in {"first", "finish"}
             \/ pc[t] = "awake" /\ interrupted[t] # "pending"

\* Mutant of Notified: the master is not told that the last check is done.
NotifiedNobody(t, c) == pc

\* condMaster.notify_one, after the last check.
Notified(t, c) ==
    [u \in Thread |-> IF /\ pc[t] = "finish" /\ t \in Worker /\ c.nTodo = 0
                         /\ u \in Client /\ at[u] = at[t] /\ pc[u] = "asleep"
                      THEN "awake" ELSE pc[u]]

nNow(c) ==
    LET share == Len(c.queue) \div (c.nTotal + c.nIdle + 1)
        most == IF nBatchSize < share THEN nBatchSize ELSE share
    IN IF most > 1 THEN most ELSE 1

LoopTake(t) ==
    /\ InLoop(t)
    /\ LET c == CleanUp(t) IN
       /\ c.queue # <<>>
       /\ cq' = [cq EXCEPT ![at[t]] = [c EXCEPT !.queue = SubSeq(@, nNow(c) + 1, Len(@))]]
       /\ hand' = [hand EXCEPT ![t] = [checks |-> SubSeq(c.queue, 1, nNow(c)), nNow |-> nNow(c)]]
       /\ fOk' = [fOk EXCEPT ![t] = c.fAllOk]
       /\ pc' = [Notified(t, c) EXCEPT ![t] = "run"]
    /\ UNCHANGED <<poolVars, at, vTempFailedChecks, scopeExited, history, nodeVars>>

\* Only the master leaves, when no check is queued or in hand.
MasterDone(t, c) == t \in Client /\ c.nTodo = 0

\* Mutant of Result: a canceled session returns what it has so far.
ResultSoFar(c) == c.fAllOk

Result(c) == IF c.canceled THEN "none" ELSE c.fAllOk

LoopReturn(t) ==
    /\ InLoop(t)
    /\ LET c == CleanUp(t)
           quit == shutdown = "destroyed" IN
       /\ c.queue = <<>> /\ (quit \/ MasterDone(t, c))
       /\ cq' = [cq EXCEPT ![at[t]] = [c EXCEPT !.fAllOk = IF quit THEN @ ELSE Result(c)]]
       /\ fOk' = [fOk EXCEPT ![t] = IF quit THEN "none" ELSE Result(c)]
       /\ pc' = [Notified(t, c) EXCEPT ![t] = "leave"]
    /\ hand' = [hand EXCEPT ![t] = NoWork]
    /\ UNCHANGED <<poolVars, at, vTempFailedChecks, scopeExited, history, nodeVars>>

LoopSleep(t) ==
    /\ InLoop(t) /\ shutdown # "destroyed"
    /\ LET c == CleanUp(t) IN
       /\ c.queue = <<>> /\ ~MasterDone(t, c)
       /\ cq' = [cq EXCEPT ![at[t]] = [c EXCEPT !.nIdle = @ + 1]]
       /\ pc' = [Notified(t, c) EXCEPT ![t] = "asleep"]
    /\ hand' = [hand EXCEPT ![t] = NoWork]
    /\ fOk' = [fOk EXCEPT ![t] = "ok"]  \* not read before the next batch
    /\ UNCHANGED <<poolVars, at, vTempFailedChecks, scopeExited, history, nodeVars>>

SpuriousWakeup(t) ==
    /\ pc[t] = "asleep"
    /\ pc' = [pc EXCEPT ![t] = "awake"]
    /\ UNCHANGED <<poolVars, cq, at, hand, fOk, vTempFailedChecks, scopeExited, history, nodeVars>>

Uncounted(t) == [cq EXCEPT ![at[t]].nIdle = @ - 1]

\* The wait throws: the idle guard counts the thread down, then the mutex is
\* released.
WaitThrows(t) ==
    /\ pc[t] \in {"asleep", "awake"} /\ interrupted[t] = "pending"
    /\ cq' = Uncounted(t)
    /\ pc' = [pc EXCEPT ![t] = "thrown"]
    /\ interrupted' = [interrupted EXCEPT ![t] = "thrown"]
    /\ UNCHANGED <<poolVars, at, hand, fOk, vTempFailedChecks, scopeExited, history, shutdown,
                   aborted>>

\* ~CTotalScopeGuard.  A client that was interrupted goes on to the destructor of
\* its handle.
LoopExit(t) ==
    /\ pc[t] \in {"leave", "thrown"}
    /\ cq' = [cq EXCEPT ![at[t]].nTotal = @ - 1]
    /\ pc' = [pc EXCEPT ![t] = IF t \in Worker THEN "gone"
                               ELSE IF pc[t] = "leave" THEN "return" ELSE "unwind"]
    /\ vTempFailedChecks' = [vTempFailedChecks EXCEPT ![t] = FALSE]
    /\ UNCHANGED <<poolVars, at, hand, fOk, scopeExited, history, nodeVars>>

\* One check of a batch.  A check that notices a cancellation has no result.
RunCheck(t) ==
    LET q == at[t]
        check == Head(hand[t].checks) IN
    /\ pc[t] = "run"
    /\ hand[t].checks # <<>> /\ fOk[t] = "ok"
    /\ \/ /\ fOk' = [fOk EXCEPT ![t] = IF check = "good" THEN "ok" ELSE "bad"]
          /\ vTempFailedChecks' = [vTempFailedChecks EXCEPT
                                     ![t] = @ \/ check = "bad"]
          /\ passed' = [passed EXCEPT ![q] = IF check = "good" THEN @ + 1 ELSE @]
       \/ /\ cq[q].canceled
          /\ fOk' = [fOk EXCEPT ![t] = "none"]
          /\ UNCHANGED <<vTempFailedChecks, passed>>
    /\ hand' = [hand EXCEPT ![t].checks = Tail(@)]
    /\ UNCHANGED <<poolVars, cq, pc, at, scopeExited, added, nodeVars>>

RunEnd(t) ==
    /\ pc[t] = "run"
    /\ hand[t].checks = <<>> \/ fOk[t] # "ok" \/ cq[at[t]].canceled
    /\ hand' = [hand EXCEPT ![t].checks = <<>>]
    /\ pc' = [pc EXCEPT ![t] = "finish"]
    /\ UNCHANGED <<poolVars, cq, at, fOk, vTempFailedChecks, scopeExited, history, nodeVars>>

Loop(t) == \/ LoopTake(t) \/ LoopReturn(t) \/ LoopSleep(t) \/ LoopExit(t) \/ WaitThrows(t)
           \/ RunCheck(t) \/ RunEnd(t)

-----------------------------------------------------------------------------
(***************************************************************************)
(* The client's side: GetChecker, Add, Wait and the destructor of the      *)
(* handle, ReturnQueueToPool.                                              *)
(***************************************************************************)
IsIdle(q) == cq[q].nTotal = cq[q].nIdle /\ cq[q].nTodo = 0

\* The end of GetChecker: StartCheckingSession throws when the queue is not idle,
\* and then the queue stays among the running ones.
TakeQueue(c, v) ==
    LET q == Head(mIdleQueues) IN
    /\ mIdleQueues # <<>>
    /\ mIdleQueues' = Tail(mIdleQueues)
    /\ mRunningCheckers' = Append(mRunningCheckers, [mChecker |-> q, mValue |-> v])
    /\ value' = [value EXCEPT ![c] = 0]
    /\ IF IsIdle(q)
         THEN /\ cq' = [cq EXCEPT ![q].fAllOk = "ok", ![q].canceled = shutdown # "no",
                                  ![q].failedChecks = FALSE]
              /\ vTempFailedChecks' = [t \in Thread |-> at[t] # q /\ vTempFailedChecks[t]]
              /\ pc' = [pc EXCEPT ![c] = "adding"]
              /\ at' = [at EXCEPT ![c] = q]
         ELSE /\ pc' = [pc EXCEPT ![c] = "none"]
              /\ UNCHANGED <<cq, at, vTempFailedChecks>>

\* The first of the running checkers with the least value: the oldest one.
Worst(i) == \A j \in DOMAIN mRunningCheckers :
               \/ mRunningCheckers[i].mValue < mRunningCheckers[j].mValue
               \/ mRunningCheckers[i].mValue = mRunningCheckers[j].mValue /\ i <= j

\* No queue is idle: the worst checker is terminated if it is worse than this
\* one.
GetCheckerWait(c, v) ==
    /\ pc[c] = "none" /\ shutdown # "destroyed" /\ mIdleQueues = <<>>
    /\ \E i \in DOMAIN mRunningCheckers :
          /\ Worst(i)
          /\ cq' = [cq EXCEPT ![mRunningCheckers[i].mChecker].canceled =
                                 @ \/ mRunningCheckers[i].mValue < v]
    /\ value' = [value EXCEPT ![c] = v]
    /\ pc' = [pc EXCEPT ![c] = "waiting"]
    /\ UNCHANGED <<mIdleQueues, mRunningCheckers, at, hand, fOk, vTempFailedChecks, scopeExited,
                   history, nodeVars>>

GetChecker(c, v) ==
    /\ pc[c] = "none" /\ shutdown # "destroyed"
    /\ TakeQueue(c, v)
    /\ UNCHANGED <<hand, fOk, scopeExited, history, nodeVars>>

\* A notified client finds a queue, or waits again.
GetCheckerResume(c) ==
    /\ pc[c] = "notified"
    /\ \/ TakeQueue(c, value[c])
       \/ /\ mIdleQueues = <<>>
          /\ pc' = [pc EXCEPT ![c] = "waiting"]
          /\ UNCHANGED <<poolVars, cq, at, vTempFailedChecks>>
    /\ UNCHANGED <<hand, fOk, scopeExited, history, nodeVars>>

\* condWorker: one worker is woken for one check, all of them for more.
Add(c) ==
    LET q == at[c]
        sleeping == {w \in Worker : at[w] = q /\ pc[w] = "asleep"} IN
    /\ pc[c] = "adding"
    /\ \E vChecks \in Batches, woken \in SUBSET sleeping :
          /\ added[q] + Len(vChecks) <= MaxChecks
          /\ IF Len(vChecks) > 1 \/ sleeping = {} THEN woken = sleeping
                                                  ELSE Cardinality(woken) = 1
          /\ cq' = [cq EXCEPT ![q].queue = @ \o vChecks, ![q].nTodo = @ + Len(vChecks)]
          /\ added' = [added EXCEPT ![q] = @ + Len(vChecks)]
          /\ pc' = [t \in Thread |-> IF t \in woken THEN "awake" ELSE pc[t]]
    /\ UNCHANGED <<poolVars, at, hand, fOk, vTempFailedChecks, scopeExited, passed, nodeVars>>

Wait(c) ==
    /\ pc[c] = "adding"
    /\ pc' = [pc EXCEPT ![c] = "first"]
    /\ UNCHANGED <<poolVars, cq, at, hand, fOk, vTempFailedChecks, scopeExited, history, nodeVars>>

\* ~CCheckQueueScopeGuard without a Wait, or after one that threw.
ScopeExit(c) ==
    /\ pc[c] \in {"adding", "unwind"}
    /\ cq' = [cq EXCEPT ![at[c]].canceled = TRUE]
    /\ scopeExited' = [scopeExited EXCEPT ![c] = TRUE]
    /\ pc' = [pc EXCEPT ![c] = "first"]
    /\ UNCHANGED <<poolVars, at, hand, fOk, vTempFailedChecks, history, nodeVars>>

\* Mutant of mIdleQueuesCV: nobody is told of the queue.
NoNotification == {pc}

\* notify_one: what pc may become.
mIdleQueuesCV ==
    LET waiting == {w \in Client : pc[w] = "waiting"} IN
    IF waiting = {} THEN {pc} ELSE {[pc EXCEPT ![w] = "notified"] : w \in waiting}

\* The assertion on IsIdle comes first.  Wait, unlike the destructor, takes the
\* failed checks before it returns the queue.
ReturnQueueToPool(c) ==
    LET q == at[c]
        runs == SelectSeq(mRunningCheckers, LAMBDA r : r.mChecker # q) IN
    /\ pc[c] = "return"
    /\ IF ~IsIdle(q)
         THEN /\ aborted' = TRUE
              /\ UNCHANGED <<mIdleQueues, mRunningCheckers, cq, pc, at, scopeExited, fOk, history>>
         ELSE /\ mIdleQueues' = Append(mIdleQueues, q)
              /\ mRunningCheckers' = runs
              /\ cq' = [cq EXCEPT ![q].failedChecks = @ /\ scopeExited[c]]
              /\ \E next \in mIdleQueuesCV : pc' = [next EXCEPT ![c] = "none"]
              /\ at' = [at EXCEPT ![c] = None]
              /\ scopeExited' = [scopeExited EXCEPT ![c] = FALSE]
              /\ fOk' = [fOk EXCEPT ![c] = "ok"]
              /\ added' = [added EXCEPT ![q] = 0] /\ passed' = [passed EXCEPT ![q] = 0]
              /\ UNCHANGED aborted
    /\ UNCHANGED <<value, hand, vTempFailedChecks, interrupted, shutdown>>

ClientStep(c) == \/ GetCheckerResume(c) \/ Add(c) \/ Wait(c) \/ ScopeExit(c)
                 \/ ReturnQueueToPool(c)

-----------------------------------------------------------------------------
(***************************************************************************)
(* Shutdown of the node: StartShutdown, Interrupt, the destructors of the  *)
(* pool and of its queues.                                                 *)
(***************************************************************************)
StartShutdown ==
    /\ shutdown = "no"
    /\ shutdown' = "started"
    /\ cq' = [q \in Queue |-> [cq[q] EXCEPT !.canceled = TRUE]]
    /\ UNCHANGED <<poolVars, pc, at, hand, fOk, vTempFailedChecks, scopeExited, history,
                   interrupted, aborted>>

\* threadGroup.interrupt_all reaches one thread after the other, each once.
Interrupt(t) ==
    /\ shutdown = "started"
    /\ t \in Worker \cup GroupClient /\ interrupted[t] = "no"
    /\ interrupted' = [interrupted EXCEPT ![t] = "pending"]
    /\ UNCHANGED <<poolVars, cq, pc, at, hand, fOk, vTempFailedChecks, scopeExited, history,
                   shutdown, aborted>>

\* ShutdownScriptCheckQueues comes after Interrupt and after the threads that
\* validate blocks have ended; the destructor of the pool waits until no checker
\* runs.  Then every queue is told to quit.
ShutdownScriptCheckQueues ==
    /\ shutdown = "started"
    /\ \A w \in Worker : interrupted[w] # "no"
    /\ \A c \in Client : pc[c] = "none"
    /\ mRunningCheckers = <<>>
    /\ shutdown' = "destroyed"
    /\ pc' = [t \in Thread |-> IF pc[t] = "asleep" THEN "awake" ELSE pc[t]]
    /\ UNCHANGED <<poolVars, cq, at, hand, fOk, vTempFailedChecks, scopeExited, history,
                   interrupted, aborted>>

Next ==
    /\ ~aborted
    /\ \/ \E t \in Thread : Loop(t) \/ SpuriousWakeup(t) \/ Interrupt(t)
       \/ \E c \in Client : ClientStep(c)
       \/ \E c \in Client, v \in ValueT : GetChecker(c, v) \/ GetCheckerWait(c, v)
       \/ StartShutdown
       \/ ShutdownScriptCheckQueues

Spec == Init /\ [][Next]_vars

\* The operating system runs every thread that can go on; scripts end.
FairSpec ==
    /\ Spec
    /\ \A t \in Thread : WF_vars(~aborted /\ Loop(t))
    /\ \A c \in Client : WF_vars(~aborted /\ ClientStep(c))

-----------------------------------------------------------------------------
(***************************************************************************)
(* Properties                                                              *)
(***************************************************************************)
Results == {"ok", "bad", "none"}

\* The counters of a queue stay within their ranges (nTodo is unsigned: it would
\* wrap below zero), and nIdle and nTotal count the threads that sleep in Loop
\* and that are in Loop.
TypeOK ==
    /\ ToSet(mIdleQueues) \subseteq Queue
    /\ \A q \in Queue :
          LET c == cq[q]
              inside == {t \in Thread : /\ at[t] = q
                                        /\ pc[t] \in {"run", "finish", "asleep", "awake",
                                                      "leave", "thrown"}}
          IN /\ ToSet(c.queue) \subseteq {"good", "bad"}
             /\ c.nTodo \in 0..MaxChecks
             /\ c.nTotal = Cardinality(inside)
             /\ c.nIdle = Cardinality({t \in inside : pc[t] \in {"asleep", "awake"}})
             /\ c.fAllOk \in Results /\ c.canceled \in BOOLEAN
             /\ c.failedChecks \in BOOLEAN
    /\ \A t \in Thread : fOk[t] \in Results /\ at[t] \in Queue \cup {None}

Runs(q) == \E i \in DOMAIN mRunningCheckers : mRunningCheckers[i].mChecker = q
Masters(q) == {c \in Client : at[c] = q}

\* No queue is idle without a notified client on its way to it: after
\* ReturnQueueToPool at least as many waiting clients are notified as there are
\* queues for them, whoever took a queue in between.
NoQueueMissed ==
    LET waiters == {c \in Client : pc[c] \in {"waiting", "notified"}}
        notified == {c \in waiters : pc[c] = "notified"}
    IN notified = waiters \/ Cardinality(notified) >= Len(mIdleQueues)

\* A queue is either idle, once, or run by one client.  The assertion of
\* ReturnQueueToPool fails, or StartCheckingSession throws and its queue is lost
\* for the pool, only when worker threads have been interrupted.
PoolSound ==
    /\ TypeOK
    /\ NoQueueMissed
    /\ IsInjective(mIdleQueues)
    /\ \A q \in Queue : Runs(q) = (q \notin ToSet(mIdleQueues))
    /\ \A q \in Queue : Cardinality(Masters(q)) <= 1 /\ (Masters(q) # {} => Runs(q))
    /\ (aborted \/ \E q \in Queue : Runs(q) /\ Masters(q) = {})
          => \E w \in Worker : interrupted[w] = "thrown"

\* What Wait returns is about the checks of this session: true only if each of
\* them has been executed and has passed, false only with one of them among the
\* failed checks the caller obtains, empty only if the session was canceled.  And
\* no thread still holds a check of a session that is over.
ResultRight ==
    /\ \A c \in Client : pc[c] = "return" /\ ~scopeExited[c] =>
          CASE fOk[c] = "ok"   -> passed[at[c]] = added[at[c]]
            [] fOk[c] = "bad"  -> cq[at[c]].failedChecks
            [] fOk[c] = "none" -> cq[at[c]].canceled
    /\ \A w \in Worker : (\E c \in Client : at[c] = at[w] /\ pc[c] = "return")
                          \/ at[w] \in ToSet(mIdleQueues)
                             => hand[w] = NoWork

\* A queue that was taken comes back to the pool: neither a lost notification of
\* the master nor checks that nobody counts down keep its client in Wait.
SessionsEnd == \A q \in Queue : Masters(q) # {} ~> (Masters(q) = {} \/ aborted)
=============================================================================
