----------------------------- MODULE WPUSMutex -----------------------------
(***************************************************************************)
(* The write-preferring upgradable reader-writer lock that guards the      *)
(* coins database (write_preferring_upgradable_mutex.h/.cpp).              *)
(*                                                                         *)
(* Every action is one critical section under mMutex, up to the point      *)
(* where the thread returns or blocks on the condition variable            *)
(* mTryTakeLock.  The one access outside mMutex, the early test of         *)
(* mWritePending in TryWriteLock, is an action of its own.                 *)
(***************************************************************************)
EXTENDS Integers, FiniteSets

CONSTANT Threads    \* the threads that lock and unlock, one handle each

ASSUME ThreadsAssumption == IsFiniteSet(Threads)

VARIABLES
  mLock,          \* -1: write lock held, 0: free, n > 0: n read locks held
  mWritePending,  \* number of write requests in progress
  mLockType,      \* the type of each thread's Lock handle
  pc,             \* where each thread is: between calls or inside one
  asleep          \* threads blocked in mTryTakeLock.wait

vars == <<mLock, mWritePending, mLockType, pc, asleep>>

Types == {"unlocked", "read", "write"}

\* "ready": between calls.  "readLock", "writeLock", "tryWait": inside the
\* wait of ReadLock, WriteLock, TryWriteLock.  "tryEnter": in TryWriteLock,
\* after the unlocked test and before mMutex is taken.  "refused": TryWriteLock
\* returned false; the caller has to give up its read lock.
Locations == {"ready", "readLock", "writeLock", "tryEnter", "tryWait", "refused"}

Init ==
  /\ mLock = 0
  /\ mWritePending = 0
  /\ mLockType = [t \in Threads |-> "unlocked"]
  /\ pc = [t \in Threads |-> "ready"]
  /\ asleep = {}

-----------------------------------------------------------------------------
\* Lock::ReleaseNL on mLock; the notify_all it ends with empties asleep.
Released(lock) == IF lock = -1 THEN 0 ELSE lock - 1

\* Mutant of ReadPredicate: readers pass a waiting writer.
ReadPredicateNoPreference == mLock >= 0

ReadPredicate == mWritePending = 0 /\ mLock >= 0

\* Mutant of WritePredicate: a writer only waits for other writers.
WritePredicateAmongReaders == mLock >= 0

WritePredicate == mLock = 0

\* ReadLock of an unlocked handle: the wait predicate, then the read handle.
ReadLockTake(t) ==
  /\ ReadPredicate
  /\ mLock' = mLock + 1
  /\ mLockType' = [mLockType EXCEPT ![t] = "read"]
  /\ pc' = [pc EXCEPT ![t] = "ready"]
  /\ UNCHANGED <<mWritePending, asleep>>

ReadLockBlock(t) ==
  /\ ~ReadPredicate
  /\ pc' = [pc EXCEPT ![t] = "readLock"]
  /\ asleep' = asleep \union {t}
  /\ UNCHANGED <<mLock, mWritePending, mLockType>>

ReadLock(t) ==
  /\ pc[t] = "ready" /\ mLockType[t] = "unlocked"
  /\ ReadLockTake(t) \/ ReadLockBlock(t)

ReadLockWoken(t) ==
  /\ pc[t] = "readLock" /\ t \notin asleep
  /\ ReadLockTake(t) \/ ReadLockBlock(t)

\* ReadLock of a write handle: the write lock becomes a read lock without
\* letting anybody in between; ReleaseNL wakes the waiters.
Downgrade(t) ==
  /\ pc[t] = "ready" /\ mLockType[t] = "write"
  /\ mLock' = Released(mLock) + 1
  /\ mLockType' = [mLockType EXCEPT ![t] = "read"]
  /\ asleep' = {}
  /\ UNCHANGED <<mWritePending, pc>>

\* WriteLock: the pending guard is held during the wait and dropped, still
\* under mMutex, once the write handle exists.
WriteLock(t) ==
  /\ pc[t] = "ready" /\ mLockType[t] = "unlocked"
  /\ \/ /\ WritePredicate
        /\ mLock' = -1
        /\ mLockType' = [mLockType EXCEPT ![t] = "write"]
        /\ UNCHANGED <<mWritePending, pc, asleep>>
     \/ /\ ~WritePredicate
        /\ mWritePending' = mWritePending + 1
        /\ pc' = [pc EXCEPT ![t] = "writeLock"]
        /\ asleep' = asleep \union {t}
        /\ UNCHANGED <<mLock, mLockType>>

WriteLockWoken(t) ==
  /\ pc[t] = "writeLock" /\ t \notin asleep
  /\ \/ /\ WritePredicate
        /\ mLock' = -1
        /\ mWritePending' = mWritePending - 1
        /\ mLockType' = [mLockType EXCEPT ![t] = "write"]
        /\ pc' = [pc EXCEPT ![t] = "ready"]
        /\ UNCHANGED asleep
     \/ /\ ~WritePredicate
        /\ asleep' = asleep \union {t}
        /\ UNCHANGED <<mLock, mWritePending, mLockType, pc>>

\* TryWriteLock, the test made before mMutex is taken.
TryWriteLock(t) ==
  /\ pc[t] = "ready" /\ mLockType[t] = "read"
  /\ pc' = [pc EXCEPT ![t] = IF mWritePending # 0 THEN "refused" ELSE "tryEnter"]
  /\ UNCHANGED <<mLock, mWritePending, mLockType, asleep>>

\* Mutant of TryWriteLockResult: the refused request stays counted.
TryWriteLockResultLeaksPending(t, pending) ==
  \/ /\ pending # 1
     /\ mWritePending' = pending
     /\ pc' = [pc EXCEPT ![t] = "refused"]
     /\ UNCHANGED <<mLock, mLockType, asleep>>
  \/ /\ pending = 1 /\ mLock = 1
     /\ mLock' = -1
     /\ mWritePending' = pending - 1
     /\ mLockType' = [mLockType EXCEPT ![t] = "write"]
     /\ pc' = [pc EXCEPT ![t] = "ready"]
     /\ asleep' = {}
  \/ /\ pending = 1 /\ mLock # 1
     /\ mWritePending' = pending
     /\ pc' = [pc EXCEPT ![t] = "tryWait"]
     /\ asleep' = asleep \union {t}
     /\ UNCHANGED <<mLock, mLockType>>

\* Mutant of TryWriteLockResult: nobody gives up for another write request.
TryWriteLockResultNeverRefused(t, pending) ==
  \/ /\ mLock = 1
     /\ mLock' = -1
     /\ mWritePending' = pending - 1
     /\ mLockType' = [mLockType EXCEPT ![t] = "write"]
     /\ pc' = [pc EXCEPT ![t] = "ready"]
     /\ asleep' = {}
  \/ /\ mLock # 1
     /\ mWritePending' = pending
     /\ pc' = [pc EXCEPT ![t] = "tryWait"]
     /\ asleep' = asleep \union {t}
     /\ UNCHANGED <<mLock, mLockType>>

\* The rest of TryWriteLock once canTakeWriteLock has been evaluated with
\* `pending' write requests counted, this one included.
TryWriteLockResult(t, pending) ==
  \/ /\ pending # 1                     \* somebody else wants to write: give up
     /\ mWritePending' = pending - 1
     /\ pc' = [pc EXCEPT ![t] = "refused"]
     /\ UNCHANGED <<mLock, mLockType, asleep>>
  \/ /\ pending = 1 /\ mLock = 1        \* only our own read lock is left
     /\ mLock' = -1
     /\ mWritePending' = pending - 1
     /\ mLockType' = [mLockType EXCEPT ![t] = "write"]
     /\ pc' = [pc EXCEPT ![t] = "ready"]
     /\ asleep' = {}
  \/ /\ pending = 1 /\ mLock # 1
     /\ mWritePending' = pending
     /\ pc' = [pc EXCEPT ![t] = "tryWait"]
     /\ asleep' = asleep \union {t}
     /\ UNCHANGED <<mLock, mLockType>>

TryWriteLockEnter(t) ==
  /\ pc[t] = "tryEnter"
  /\ TryWriteLockResult(t, mWritePending + 1)

TryWriteLockWoken(t) ==
  /\ pc[t] = "tryWait" /\ t \notin asleep
  /\ TryWriteLockResult(t, mWritePending)

\* Lock::Release, also run by the destructor of a handle.
Release(t) ==
  /\ pc[t] \in {"ready", "refused"} /\ mLockType[t] # "unlocked"
  /\ mLock' = Released(mLock)
  /\ mLockType' = [mLockType EXCEPT ![t] = "unlocked"]
  /\ pc' = [pc EXCEPT ![t] = "ready"]
  /\ asleep' = {}
  /\ UNCHANGED mWritePending

\* A condition variable may wake a waiter without a notification.
SpuriousWakeup(t) ==
  /\ t \in asleep
  /\ asleep' = asleep \ {t}
  /\ UNCHANGED <<mLock, mWritePending, mLockType, pc>>

Woken(t) == ReadLockWoken(t) \/ WriteLockWoken(t) \/ TryWriteLockWoken(t)

Next ==
  \E t \in Threads :
    \/ ReadLock(t) \/ ReadLockWoken(t) \/ Downgrade(t)
    \/ WriteLock(t) \/ WriteLockWoken(t)
    \/ TryWriteLock(t) \/ TryWriteLockEnter(t) \/ TryWriteLockWoken(t)
    \/ Release(t)
    \/ SpuriousWakeup(t)

Spec == Init /\ [][Next]_vars

\* A thread inside the lock keeps running, and whoever holds a lock gives it
\* back: handles are scoped objects, released by their destructors.
Fairness ==
  \A t \in Threads :
    /\ WF_vars(Woken(t))
    /\ WF_vars(TryWriteLockEnter(t))
    /\ WF_vars(Release(t) /\ pc[t] = "refused")
    /\ SF_vars(Release(t) /\ pc[t] = "ready")

FairSpec == Spec /\ Fairness

-----------------------------------------------------------------------------
\* A thread inside a call holds the kind of handle that call was given.
HandlesOK ==
  /\ mLockType \in [Threads -> Types]
  /\ pc \in [Threads -> Locations]
  /\ asleep \subseteq {t \in Threads : pc[t] \in {"readLock", "writeLock", "tryWait"}}
  /\ \A t \in Threads :
       /\ pc[t] \in {"readLock", "writeLock"} => mLockType[t] = "unlocked"
       /\ pc[t] \in {"tryEnter", "tryWait", "refused"} => mLockType[t] = "read"

\* Every variable has its type; the counters stay within the number of
\* threads, and mLock never falls below the -1 that marks a write lock.
TypeOK ==
  /\ mLock \in -1 .. Cardinality(Threads)
  /\ mWritePending \in 0 .. Cardinality(Threads)
  /\ HandlesOK

Readers == {t \in Threads : mLockType[t] = "read"}

Writers == {t \in Threads : mLockType[t] = "write"}

\* Threads whose PendingGuard is alive.
Requesters == {t \in Threads : pc[t] \in {"writeLock", "tryWait"}}

\* The class comment: "allows only a single write lock at the same time and
\* only when read locks are not held".  mLock is what the code decides by, the
\* handles are what the threads believe they hold.
MutualExclusion ==
  \A t, u \in Threads : t # u /\ mLockType[t] = "write" => mLockType[u] = "unlocked"

\* mLock and mWritePending count exactly what the handles and the guards say:
\* no increment is lost on any path through the waits, the early returns and
\* the write-to-read transition.
CountersAgree ==
  /\ mLock = IF Writers # {} THEN -1 ELSE Cardinality(Readers)
  /\ mWritePending = Cardinality(Requesters)

\* Two readers never both wait for an upgrade, each for the other's read lock
\* to go away: the second one to get mMutex is refused.
AtMostOneUpgrader ==
  \A t, u \in Threads : pc[t] = "tryWait" /\ pc[u] = "tryWait" => t = u

\* No wakeup is missed although mWritePending changes without a notification:
\* a thread that sleeps in mTryTakeLock.wait cannot take the lock now.
NoMissedWakeup ==
  \A t \in asleep :
    /\ pc[t] = "readLock" => ~ReadPredicate
    /\ pc[t] = "writeLock" => ~WritePredicate
    /\ pc[t] = "tryWait" => mLock # 1

\* The lock is safe: handles exclude each other, the counters are exact, upgraders
\* do not wait for each other and nobody sleeps through a chance to get the lock.
LockSafe == MutualExclusion /\ CountersAgree /\ AtMostOneUpgrader /\ NoMissedWakeup

\* Write preference: no thread obtains a new read lock while a write request
\* is waiting, whoever asked first.
WritePreference ==
  [][\A t \in Threads :
       mLockType[t] = "unlocked" /\ mLockType'[t] = "read" => Requesters = {}]_vars

\* The lock with its counters, waits and early returns implements the abstract
\* lock: in particular an upgrade that succeeds is one step from read to write.
RWLock == INSTANCE ReadWriteLock WITH held <- mLockType

\* WPUSMutex implements the abstract lock: every change of the handles is a
\* grant, a refusal or a release the abstract lock allows.
ImplementsReadWriteLock == RWLock!Spec

\* A pending write request leads to a write lock being held: readers, refused
\* upgraders and condition-variable traffic cannot keep writers out for ever.
SomeWriterGetsIn == mWritePending > 0 ~> mLock = -1

\* TryWriteLock returns, with or without the write lock; it never waits for a
\* writer that waits for it.
TryWriteLockReturns ==
  \A t \in Threads : pc[t] = "tryWait" ~> pc[t] \in {"ready", "refused"}

\* Nobody waits for ever: a write request is followed by a write lock, and an
\* upgrade that was asked for is granted or refused.
WritersProgress == SomeWriterGetsIn /\ TryWriteLockReturns
=============================================================================
