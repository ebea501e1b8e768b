-------------------------- MODULE WPUSMutexProofs --------------------------
(***************************************************************************)
(* Proofs about WPUSMutex for any finite set of threads: the safety        *)
(* invariants, by way of the inductive invariant IndInv, write preference, *)
(* and that the lock implements ReadWriteLock.                             *)
(***************************************************************************)
EXTENDS WPUSMutex, FiniteSetTheorems, TLAPS

\* What a set of threads counts when it gains or loses one of them.
LEMMA ThreadCounts ==
  ASSUME NEW S \in SUBSET Threads, NEW t \in Threads
  PROVE  /\ IsFiniteSet(S)
         /\ Cardinality(S) \in Nat
         /\ Cardinality(S) = 0 <=> S = {}
         /\ t \notin S => Cardinality(S \union {t}) = Cardinality(S) + 1
         /\ t \in S => Cardinality(S \ {t}) = Cardinality(S) - 1
         /\ t \in S /\ Cardinality(S) = 1 => S = {t}
<1>1. IsFiniteSet(S)
  BY ThreadsAssumption, FS_Subset
<1>2. Cardinality(S) \in Nat
  BY <1>1, FS_CardinalityType
<1>3. Cardinality(S) = 0 <=> S = {}
  BY <1>1, FS_EmptySet
<1>4. t \notin S => Cardinality(S \union {t}) = Cardinality(S) + 1
  BY <1>1, FS_AddElement
<1>5. t \in S => Cardinality(S \ {t}) = Cardinality(S) - 1
  BY <1>1, FS_RemoveElement
<1>6. ASSUME t \in S, Cardinality(S) = 1 PROVE S = {t}
  BY <1>1, <1>6, FS_Singleton
<1>. QED BY <1>1, <1>2, <1>3, <1>4, <1>5, <1>6

\* The inductive invariant: HandlesOK is TypeOK without the bounds on the
\* counters, which follow from CountersAgree.
IndInv ==
  /\ HandlesOK
  /\ CountersAgree
  /\ MutualExclusion
  /\ AtMostOneUpgrader
  /\ NoMissedWakeup

LEMMA IndInvTypeOK == ASSUME IndInv PROVE TypeOK
<1>1. Cardinality(Threads) \in Nat
  BY ThreadsAssumption, FS_CardinalityType
<1>2. /\ Cardinality(Readers) \in 0 .. Cardinality(Threads)
      /\ Cardinality(Requesters) \in 0 .. Cardinality(Threads)
  <2>1. Readers \in SUBSET Threads /\ Requesters \in SUBSET Threads
    BY DEF Readers, Requesters
  <2>2. IsFiniteSet(Readers) /\ IsFiniteSet(Requesters)
    BY <2>1, ThreadsAssumption, FS_Subset
  <2>. QED BY <2>1, <2>2, ThreadsAssumption, FS_Subset, FS_CardinalityType
<1>. QED BY <1>1, <1>2 DEF IndInv, CountersAgree, TypeOK

\* What the values of the counters say about the handles and the requests.
LEMMA CounterFacts ==
  ASSUME IndInv, NEW t \in Threads
  PROVE  /\ mLock \in Int /\ mWritePending \in Nat
         /\ mLock >= 0 => Writers = {} /\ mLock = Cardinality(Readers)
         /\ mLock = 0 => Readers = {}
         /\ mLock = 1 /\ t \in Readers => Readers = {t}
         /\ mWritePending = 0 => Requesters = {}
         /\ mWritePending = 1 /\ t \in Requesters => Requesters = {t}
         /\ t \in Requesters => mWritePending >= 1
         /\ t \in Readers => mLock >= 1
         /\ t \in Writers => mLock = -1 /\ Writers = {t} /\ Readers = {}
<1>1. Readers \in SUBSET Threads /\ Requesters \in SUBSET Threads /\ Writers \in SUBSET Threads
  BY DEF Readers, Requesters, Writers
<1>2. Cardinality(Threads) \in Nat
  BY ThreadsAssumption, FS_CardinalityType
<1>3. mLock \in Int /\ mWritePending \in Nat
  BY <1>2, IndInvTypeOK DEF TypeOK
<1>4. mLock >= 0 => Writers = {} /\ mLock = Cardinality(Readers)
  BY <1>1, ThreadCounts DEF IndInv, CountersAgree
<1>5. mLock = 0 => Readers = {}
  <2>1. Cardinality(Readers) = 0 => Readers = {}
    BY ZenonT(30), <1>1, ThreadCounts
  <2>. QED BY <1>3, <1>4, <2>1
<1>6. mLock = 1 /\ t \in Readers => Readers = {t}
  <2>1. t \in Readers /\ Cardinality(Readers) = 1 => Readers = {t}
    BY ZenonT(30), <1>1, ThreadCounts
  <2>. QED BY <1>3, <1>4, <2>1
<1>7. mWritePending = 0 => Requesters = {}
  BY ZenonT(30), <1>1, ThreadCounts DEF IndInv, CountersAgree
<1>8. mWritePending = 1 /\ t \in Requesters => Requesters = {t}
  BY ZenonT(30), <1>1, ThreadCounts DEF IndInv, CountersAgree
<1>9. t \in Requesters => mWritePending >= 1
  <2>1. t \in Requesters => Cardinality(Requesters) # 0
    BY ZenonT(30), <1>1, ThreadCounts
  <2>. QED BY <1>3, <2>1 DEF IndInv, CountersAgree
<1>10. t \in Readers => mLock >= 1
  <2>1. t \in Readers => Writers = {}
    BY DEF IndInv, MutualExclusion, Readers, Writers
  <2>2. t \in Readers => Cardinality(Readers) # 0
    BY ZenonT(30), <1>1, ThreadCounts
  <2>3. Cardinality(Readers) \in Nat
    BY ZenonT(30), <1>1, ThreadCounts
  <2>. QED BY <1>3, <2>1, <2>2, <2>3 DEF IndInv, CountersAgree
<1>11. t \in Writers => mLock = -1 /\ Writers = {t} /\ Readers = {}
  BY DEF IndInv, CountersAgree, MutualExclusion, Readers, Writers
<1>. QED BY <1>3, <1>4, <1>5, <1>6, <1>7, <1>8, <1>9, <1>10, <1>11

-----------------------------------------------------------------------------
LEMMA InitIndInv == Init => IndInv
<1>. SUFFICES ASSUME Init PROVE IndInv
  OBVIOUS
<1>1. Readers = {} /\ Writers = {} /\ Requesters = {}
  BY DEF Init, Readers, Writers, Requesters
<1>2. CountersAgree
  BY <1>1, FS_EmptySet DEF Init, CountersAgree
<1>3. HandlesOK
  BY DEF Init, HandlesOK, Types, Locations
<1>. QED BY <1>2, <1>3 DEF Init, IndInv, MutualExclusion, AtMostOneUpgrader, NoMissedWakeup

\* A read lock is granted, to a new request or to a woken one.
LEMMA ReadLockTakeKeeps ==
  ASSUME IndInv, NEW t \in Threads, ReadLockTake(t),
         mLockType[t] = "unlocked", pc[t] \in {"ready", "readLock"}, t \notin asleep
  PROVE  IndInv'
<1>. USE DEF ReadLockTake
<1>1. HandlesOK'
  BY DEF IndInv, HandlesOK, Types, Locations
<1>2. /\ Readers' = Readers \union {t} /\ t \notin Readers
      /\ Writers' = Writers /\ Requesters' = Requesters
  BY DEF IndInv, HandlesOK, Readers, Writers, Requesters
<1>3. Writers = {} /\ mLock = Cardinality(Readers) /\ mLock \in Int
  BY CounterFacts DEF ReadPredicate
<1>4. Cardinality(Readers \union {t}) = Cardinality(Readers) + 1
  BY <1>2, ThreadCounts DEF Readers
<1>5. CountersAgree'
  BY <1>2, <1>3, <1>4 DEF IndInv, CountersAgree
<1>6. MutualExclusion'
  BY <1>3 DEF IndInv, HandlesOK, MutualExclusion, Writers
<1>7. AtMostOneUpgrader'
  BY DEF IndInv, HandlesOK, AtMostOneUpgrader
<1>8. NoMissedWakeup'
  <2>1. Requesters = {}
    BY CounterFacts DEF ReadPredicate
  <2>. QED BY <1>3, <2>1 DEF IndInv, HandlesOK, NoMissedWakeup, Requesters, ReadPredicate, WritePredicate
<1>. QED
  BY <1>1, <1>5, <1>6, <1>7, <1>8 DEF IndInv
\* A read request goes to sleep, for the first time or again.
LEMMA ReadLockBlockKeeps ==
  ASSUME IndInv, NEW t \in Threads, ReadLockBlock(t),
         mLockType[t] = "unlocked", pc[t] \in {"ready", "readLock"}
  PROVE  IndInv'
<1>. USE DEF ReadLockBlock
<1>1. HandlesOK'
  BY DEF IndInv, HandlesOK, Types, Locations
<1>2. Readers' = Readers /\ Writers' = Writers /\ Requesters' = Requesters
  BY DEF IndInv, HandlesOK, Readers, Writers, Requesters
<1>3. CountersAgree'
  BY <1>2 DEF IndInv, CountersAgree
<1>4. MutualExclusion' /\ AtMostOneUpgrader'
  BY DEF IndInv, HandlesOK, MutualExclusion, AtMostOneUpgrader
<1>5. NoMissedWakeup'
  BY DEF IndInv, HandlesOK, NoMissedWakeup, ReadPredicate, WritePredicate
<1>. QED BY <1>1, <1>3, <1>4, <1>5 DEF IndInv

LEMMA DowngradeKeeps ==
  ASSUME IndInv, NEW t \in Threads, Downgrade(t)
  PROVE  IndInv'
<1>. USE DEF Downgrade
<1>1. HandlesOK'
  BY DEF IndInv, HandlesOK, Types, Locations
<1>2. mLock = -1 /\ Writers = {t} /\ Readers = {}
  BY CounterFacts DEF IndInv, HandlesOK, Writers
<1>3. Readers' = {t} /\ Writers' = {} /\ Requesters' = Requesters
  BY <1>2 DEF IndInv, HandlesOK, Readers, Writers, Requesters
<1>4. CountersAgree'
  <2>1. mLock' = 1
    BY <1>2 DEF Released
  <2>2. Cardinality({t}) = 1
    BY FS_Singleton
  <2>. QED BY <1>3, <2>1, <2>2 DEF IndInv, CountersAgree
<1>5. MutualExclusion'
  BY <1>3 DEF MutualExclusion, Writers
<1>6. AtMostOneUpgrader'
  BY DEF IndInv, AtMostOneUpgrader
<1>. QED BY <1>1, <1>4, <1>5, <1>6 DEF IndInv, NoMissedWakeup

LEMMA ReleaseKeeps ==
  ASSUME IndInv, NEW t \in Threads, Release(t)
  PROVE  IndInv'
<1>. USE DEF Release
<1>1. HandlesOK'
  BY DEF IndInv, HandlesOK, Types, Locations
<1>2. /\ Readers' = Readers \ {t} /\ Writers' = Writers \ {t}
      /\ Requesters' = Requesters /\ t \in Readers \union Writers
  BY DEF IndInv, HandlesOK, Types, Readers, Writers, Requesters
<1>3. mLock' = IF Writers' # {} THEN -1 ELSE Cardinality(Readers')
  <2>1. CASE t \in Writers
    <3>1. mLock = -1 /\ Readers' = {} /\ Writers' = {}
      BY <1>2, <2>1, CounterFacts
    <3>. QED BY <3>1, FS_EmptySet DEF Released
  <2>2. CASE t \in Readers
    <3>1. mLock >= 1 /\ mLock \in Int
      BY <2>2, CounterFacts
    <3>2. Writers = {} /\ mLock = Cardinality(Readers)
      BY <3>1, CounterFacts
    <3>3. Cardinality(Readers \ {t}) = Cardinality(Readers) - 1
      BY <2>2, ThreadCounts DEF Readers
    <3>. QED BY <1>2, <3>1, <3>2, <3>3 DEF Released
  <2>. QED BY <1>2, <2>1, <2>2
<1>4. CountersAgree'
  BY <1>2, <1>3 DEF IndInv, CountersAgree
<1>5. MutualExclusion' /\ AtMostOneUpgrader'
  BY DEF IndInv, HandlesOK, MutualExclusion, AtMostOneUpgrader
<1>. QED BY <1>1, <1>4, <1>5 DEF IndInv, NoMissedWakeup

\* A write request takes the free lock, at once or after a wait.
LEMMA WriteLockTakeKeeps ==
  ASSUME IndInv, NEW t \in Threads, WriteLock(t) \/ WriteLockWoken(t), mLock = 0
  PROVE  IndInv'
<1>. USE DEF WriteLock, WriteLockWoken, WritePredicate
<1>1. HandlesOK'
  BY DEF IndInv, HandlesOK, Types, Locations
<1>2. Readers = {} /\ Writers = {} /\ mWritePending \in Nat
  BY CounterFacts
<1>3. Readers' = {} /\ Writers' = {t} /\ mLock' = -1
  BY <1>2 DEF IndInv, HandlesOK, Readers, Writers
<1>4. mWritePending' = Cardinality(Requesters')
  <2>1. CASE WriteLock(t)
    <3>1. Requesters' = Requesters
      BY <2>1 DEF IndInv, HandlesOK, Requesters
    <3>. QED BY <2>1, <3>1 DEF IndInv, CountersAgree
  <2>2. CASE WriteLockWoken(t)
    <3>1. Requesters' = Requesters \ {t} /\ t \in Requesters
      BY <2>2 DEF IndInv, HandlesOK, Requesters
    <3>2. Cardinality(Requesters \ {t}) = Cardinality(Requesters) - 1
      BY <3>1, ThreadCounts DEF Requesters
    <3>. QED BY <2>2, <3>1, <3>2 DEF IndInv, CountersAgree
  <2>. QED BY <2>1, <2>2
<1>5. CountersAgree'
  BY <1>3, <1>4 DEF CountersAgree
<1>6. MutualExclusion'
  BY <1>1, <1>3 DEF HandlesOK, Types, MutualExclusion, Readers, Writers
<1>7. AtMostOneUpgrader'
  BY DEF IndInv, HandlesOK, AtMostOneUpgrader
<1>8. NoMissedWakeup'
  BY <1>3 DEF NoMissedWakeup, ReadPredicate
<1>. QED BY <1>1, <1>5, <1>6, <1>7, <1>8 DEF IndInv

\* A write request goes to sleep, for the first time or again.
LEMMA WriteLockBlockKeeps ==
  ASSUME IndInv, NEW t \in Threads, WriteLock(t) \/ WriteLockWoken(t), mLock # 0
  PROVE  IndInv'
<1>. USE DEF WriteLock, WriteLockWoken, WritePredicate
<1>1. HandlesOK'
  BY DEF IndInv, HandlesOK, Types, Locations
<1>2. Readers' = Readers /\ Writers' = Writers
  BY DEF Readers, Writers
<1>3. mWritePending' = Cardinality(Requesters')
  <2>1. CASE WriteLock(t)
    <3>1. Requesters' = Requesters \union {t} /\ t \notin Requesters
      BY <2>1 DEF IndInv, HandlesOK, Requesters
    <3>2. Cardinality(Requesters \union {t}) = Cardinality(Requesters) + 1
      BY <3>1, ThreadCounts DEF Requesters
    <3>. QED BY <2>1, <3>1, <3>2 DEF IndInv, CountersAgree
  <2>2. CASE WriteLockWoken(t)
    <3>1. Requesters' = Requesters
      BY <2>2 DEF Requesters
    <3>. QED BY <2>2, <3>1 DEF IndInv, CountersAgree
  <2>. QED BY <2>1, <2>2
<1>4. CountersAgree'
  BY <1>2, <1>3 DEF IndInv, CountersAgree
<1>5. MutualExclusion' /\ AtMostOneUpgrader'
  BY DEF IndInv, HandlesOK, MutualExclusion, AtMostOneUpgrader
<1>6. NoMissedWakeup'
  <2>1. mWritePending \in Nat
    BY CounterFacts
  <2>. QED BY <2>1 DEF IndInv, HandlesOK, NoMissedWakeup, ReadPredicate
<1>. QED BY <1>1, <1>4, <1>5, <1>6 DEF IndInv
\* TryWriteLock after mMutex is taken, in its three outcomes; the request has
\* been counted by the caller when it is woken, and is counted here otherwise.
LEMMA TryWriteLockResultKeeps ==
  ASSUME IndInv, NEW t \in Threads, TryWriteLockEnter(t) \/ TryWriteLockWoken(t)
  PROVE  IndInv'
<1>. DEFINE pending == IF pc[t] = "tryEnter" THEN mWritePending + 1 ELSE mWritePending
            Others == Requesters \ {t}
<1>1. /\ TryWriteLockResult(t, pending)
      /\ pc[t] \in {"tryEnter", "tryWait"} /\ t \notin asleep /\ mLockType[t] = "read"
  BY DEF TryWriteLockEnter, TryWriteLockWoken, IndInv, HandlesOK
<1>2. /\ t \in Readers /\ mLock >= 1 /\ mLock \in Int /\ Writers = {}
      /\ mLock = Cardinality(Readers) /\ mWritePending \in Nat
  BY <1>1, CounterFacts DEF Readers
<1>3. pending = Cardinality(Others) + 1 /\ pending \in Nat /\ pending >= 1
  <2>1. CASE pc[t] = "tryEnter"
    <3>1. Others = Requesters
      BY <2>1 DEF Requesters
    <3>. QED BY <1>2, <2>1, <3>1 DEF IndInv, CountersAgree
  <2>2. CASE pc[t] = "tryWait"
    <3>1. t \in Requesters
      BY <2>2 DEF Requesters
    <3>2. Cardinality(Others) = Cardinality(Requesters) - 1
      BY <3>1, ThreadCounts DEF Requesters
    <3>3. mWritePending >= 1
      BY <3>1, CounterFacts
    <3>. QED BY <1>2, <2>2, <3>2, <3>3 DEF IndInv, CountersAgree
  <2>. QED BY <1>1, <2>1, <2>2
<1>4. pending = 1 => Others = {}
  <2>1. Cardinality(Others) \in Nat /\ (Cardinality(Others) = 0 => Others = {})
    BY ZenonT(30), ThreadCounts DEF Requesters
  <2>. QED BY <1>3, <2>1
<1>. HIDE DEF pending
<1>5. CASE /\ pending # 1
           /\ mWritePending' = pending - 1
           /\ pc' = [pc EXCEPT ![t] = "refused"]
           /\ UNCHANGED <<mLock, mLockType, asleep>>
  <2>1. HandlesOK'
    BY <1>1, <1>5 DEF IndInv, HandlesOK, Types, Locations
  <2>2. Readers' = Readers /\ Writers' = Writers /\ Requesters' = Others
    BY <1>5 DEF IndInv, HandlesOK, Readers, Writers, Requesters
  <2>3. Cardinality(Others) \in Nat
    BY ZenonT(30), ThreadCounts DEF Requesters
  <2>4. CountersAgree'
    BY <1>3, <1>5, <2>2, <2>3 DEF IndInv, CountersAgree
  <2>5. MutualExclusion' /\ AtMostOneUpgrader'
    BY <1>5 DEF IndInv, HandlesOK, MutualExclusion, AtMostOneUpgrader
  <2>6. NoMissedWakeup'
    BY <1>1, <1>3, <1>5 DEF IndInv, HandlesOK, NoMissedWakeup, ReadPredicate, WritePredicate
  <2>. QED BY <2>1, <2>4, <2>5, <2>6 DEF IndInv
<1>6. CASE /\ pending = 1 /\ mLock = 1
           /\ mLock' = -1
           /\ mWritePending' = pending - 1
           /\ mLockType' = [mLockType EXCEPT ![t] = "write"]
           /\ pc' = [pc EXCEPT ![t] = "ready"]
           /\ asleep' = {}
  <2>1. HandlesOK'
    BY <1>1, <1>6 DEF IndInv, HandlesOK, Types, Locations
  <2>2. Readers = {t}
    BY <1>2, <1>6, CounterFacts
  <2>3. Readers' = {} /\ Writers' = {t}
    BY <1>2, <1>6, <2>2 DEF IndInv, HandlesOK, Readers, Writers
  <2>4. Requesters' = {}
    BY <1>4, <1>6 DEF IndInv, HandlesOK, Requesters
  <2>5. CountersAgree'
    BY <1>6, <2>3, <2>4, FS_EmptySet DEF CountersAgree
  <2>6. MutualExclusion'
    BY <2>1, <2>3 DEF HandlesOK, Types, MutualExclusion, Readers, Writers
  <2>7. AtMostOneUpgrader'
    BY <2>4 DEF AtMostOneUpgrader, Requesters
  <2>. QED BY <1>6, <2>1, <2>5, <2>6, <2>7 DEF IndInv, NoMissedWakeup
<1>7. CASE /\ pending = 1 /\ mLock # 1
           /\ mWritePending' = pending
           /\ pc' = [pc EXCEPT ![t] = "tryWait"]
           /\ asleep' = asleep \union {t}
           /\ UNCHANGED <<mLock, mLockType>>
  <2>1. HandlesOK'
    BY <1>1, <1>7 DEF IndInv, HandlesOK, Types, Locations
  <2>2. Readers' = Readers /\ Writers' = Writers /\ Requesters' = {t}
    BY <1>4, <1>7 DEF IndInv, HandlesOK, Readers, Writers, Requesters
  <2>3. CountersAgree'
    BY <1>7, <2>2, FS_Singleton DEF IndInv, CountersAgree
  <2>4. MutualExclusion'
    BY <1>7 DEF IndInv, MutualExclusion
  <2>5. AtMostOneUpgrader'
    BY <2>2 DEF AtMostOneUpgrader, Requesters
  <2>6. NoMissedWakeup'
    BY <1>2, <1>7 DEF IndInv, HandlesOK, NoMissedWakeup, ReadPredicate, WritePredicate
  <2>. QED BY <2>1, <2>3, <2>4, <2>5, <2>6 DEF IndInv
<1>. QED BY <1>1, <1>5, <1>6, <1>7 DEF TryWriteLockResult

\* The early test of TryWriteLock and a wakeup without cause touch no counter.
LEMMA LocalStepsKeep ==
  ASSUME IndInv, NEW t \in Threads, TryWriteLock(t) \/ SpuriousWakeup(t)
  PROVE  IndInv'
<1>. USE DEF TryWriteLock, SpuriousWakeup
<1>1. HandlesOK'
  BY DEF IndInv, HandlesOK, Types, Locations
<1>2. Readers' = Readers /\ Writers' = Writers /\ Requesters' = Requesters
  BY DEF IndInv, HandlesOK, Readers, Writers, Requesters
<1>3. CountersAgree'
  BY <1>2 DEF IndInv, CountersAgree
<1>4. MutualExclusion' /\ AtMostOneUpgrader'
  BY DEF IndInv, HandlesOK, MutualExclusion, AtMostOneUpgrader
<1>5. NoMissedWakeup'
  BY DEF IndInv, HandlesOK, NoMissedWakeup, ReadPredicate, WritePredicate
<1>. QED BY <1>1, <1>3, <1>4, <1>5 DEF IndInv
LEMMA NextIndInv == IndInv /\ [Next]_vars => IndInv'
<1>. SUFFICES ASSUME IndInv, [Next]_vars PROVE IndInv'
  OBVIOUS
<1>1. CASE UNCHANGED vars
  BY <1>1 DEF vars, IndInv, HandlesOK, CountersAgree, MutualExclusion, AtMostOneUpgrader,
              NoMissedWakeup, Readers, Writers, Requesters, ReadPredicate, WritePredicate
<1>2. ASSUME NEW t \in Threads, ReadLock(t) \/ ReadLockWoken(t) PROVE IndInv'
  <2>1. mLockType[t] = "unlocked" /\ pc[t] \in {"ready", "readLock"} /\ t \notin asleep
    BY <1>2 DEF ReadLock, ReadLockWoken, IndInv, HandlesOK
  <2>. QED
    BY <1>2, <2>1, ReadLockTakeKeeps, ReadLockBlockKeeps DEF ReadLock, ReadLockWoken
<1>3. ASSUME NEW t \in Threads, WriteLock(t) \/ WriteLockWoken(t) PROVE IndInv'
  BY <1>3, WriteLockTakeKeeps, WriteLockBlockKeeps
<1>4. ASSUME NEW t \in Threads, TryWriteLockEnter(t) \/ TryWriteLockWoken(t) PROVE IndInv'
  BY <1>4, TryWriteLockResultKeeps
<1>5. ASSUME NEW t \in Threads, TryWriteLock(t) \/ SpuriousWakeup(t) PROVE IndInv'
  BY <1>5, LocalStepsKeep
<1>6. ASSUME NEW t \in Threads, Downgrade(t) PROVE IndInv'
  BY <1>6, DowngradeKeeps
<1>7. ASSUME NEW t \in Threads, Release(t) PROVE IndInv'
  BY <1>7, ReleaseKeeps
<1>. QED BY <1>1, <1>2, <1>3, <1>4, <1>5, <1>6, <1>7 DEF Next

\* In every execution the variables keep their types; in particular mLock, the
\* int the code decides by, never leaves -1 .. number of threads.
THEOREM TypeCorrect == Spec => []TypeOK
<1>1. IndInv => TypeOK
  BY IndInvTypeOK
<1>. QED BY <1>1, InitIndInv, NextIndInv, PTL DEF Spec

\* In every execution a write handle excludes every other handle, mLock and
\* mWritePending count the handles and the requests, at most one reader waits
\* for an upgrade, and no sleeper has missed the wakeup it waits for.
THEOREM Safety ==
  Spec => []LockSafe
<1>1. IndInv => LockSafe
  BY DEF IndInv, LockSafe
<1>. QED BY <1>1, InitIndInv, NextIndInv, PTL DEF Spec

\* No step of the lock grants a new read lock while a write request waits.
THEOREM WritePreferenceHolds == Spec => WritePreference
<1>1. ASSUME IndInv, [Next]_vars, NEW t \in Threads,
             mLockType[t] = "unlocked", mLockType'[t] = "read"
      PROVE  Requesters = {}
  <2>1. PICK u \in Threads : ReadLock(u) \/ ReadLockWoken(u)
    BY <1>1 DEF Next, vars, IndInv, HandlesOK, Downgrade, WriteLock, WriteLockWoken, TryWriteLock,
                TryWriteLockEnter, TryWriteLockWoken, TryWriteLockResult, Release, SpuriousWakeup
  <2>2. ReadPredicate
    BY <1>1, <2>1 DEF ReadLock, ReadLockWoken, ReadLockTake, ReadLockBlock
  <2>. QED BY <1>1, <2>2, CounterFacts DEF ReadPredicate
<1>2. IndInv /\ [Next]_vars =>
        [\A t \in Threads :
           mLockType[t] = "unlocked" /\ mLockType'[t] = "read" => Requesters = {}]_vars
  BY <1>1
<1>. QED BY <1>2, InitIndInv, NextIndInv, PTL DEF Spec, WritePreference

\* Every step of the lock is a step of the abstract reader-writer lock on the
\* threads' handles, or leaves all handles as they are.
THEOREM Implements == Spec => ImplementsReadWriteLock
<1>1. Init => RWLock!Init
  BY DEF Init, RWLock!Init
<1>2. ASSUME IndInv, [Next]_vars PROVE [RWLock!Next]_mLockType
  <2>. SUFFICES ASSUME mLockType' # mLockType, NEW t \in Threads,
                       \/ ReadLock(t) \/ ReadLockWoken(t) \/ Downgrade(t)
                       \/ WriteLock(t) \/ WriteLockWoken(t)
                       \/ TryWriteLockEnter(t) \/ TryWriteLockWoken(t) \/ Release(t)
                PROVE  RWLock!Next
    BY <1>2 DEF Next, vars, TryWriteLock, SpuriousWakeup
  <2>1. CASE ReadLock(t) \/ ReadLockWoken(t)
    <3>1. mLockType[t] = "unlocked" /\ ReadLockTake(t)
      BY <1>2, <2>1 DEF ReadLock, ReadLockWoken, ReadLockBlock, IndInv, HandlesOK
    <3>2. Writers = {}
      BY <1>2, <3>1, CounterFacts DEF ReadLockTake, ReadPredicate
    <3>3. RWLock!AcquireRead(t)
      BY <3>1, <3>2 DEF ReadLockTake, RWLock!AcquireRead, Writers
    <3>. QED BY <3>3 DEF RWLock!Next
  <2>2. CASE WriteLock(t) \/ WriteLockWoken(t)
    <3>1. /\ mLockType[t] = "unlocked" /\ mLock = 0
          /\ mLockType' = [mLockType EXCEPT ![t] = "write"]
      BY <1>2, <2>2 DEF WriteLock, WriteLockWoken, WritePredicate, IndInv, HandlesOK
    <3>2. Readers = {} /\ Writers = {}
      BY <1>2, <3>1, CounterFacts
    <3>3. RWLock!AcquireWrite(t)
      BY <1>2, <3>1, <3>2 DEF RWLock!AcquireWrite, RWLock!NobodyElseHolds, Readers, Writers,
                              IndInv, HandlesOK, Types
    <3>. QED BY <3>3 DEF RWLock!Next
  <2>3. CASE TryWriteLockEnter(t) \/ TryWriteLockWoken(t)
    <3>1. /\ mLockType[t] = "read" /\ mLock = 1
          /\ mLockType' = [mLockType EXCEPT ![t] = "write"]
      BY <1>2, <2>3 DEF TryWriteLockEnter, TryWriteLockWoken, TryWriteLockResult, IndInv, HandlesOK
    <3>2. Readers = {t} /\ Writers = {}
      <4>1. t \in Readers
        BY <3>1 DEF Readers
      <4>. QED BY <1>2, <3>1, <4>1, CounterFacts
    <3>3. RWLock!Upgrade(t)
      BY <1>2, <3>1, <3>2 DEF RWLock!Upgrade, RWLock!NobodyElseHolds, Readers, Writers,
                              IndInv, HandlesOK, Types
    <3>. QED BY <3>3 DEF RWLock!Next
  <2>4. CASE Downgrade(t)
    BY ZenonT(30), <2>4 DEF Downgrade, RWLock!Downgrade, RWLock!Next
  <2>5. CASE Release(t)
    BY ZenonT(30), <2>5 DEF Release, RWLock!Release, RWLock!Next
  <2>. QED BY <2>1, <2>2, <2>3, <2>4, <2>5
<1>3. IndInv /\ [Next]_vars => [RWLock!Next]_mLockType
  BY <1>2
<1>. QED BY <1>1, <1>3, InitIndInv, NextIndInv, PTL DEF Spec, ImplementsReadWriteLock, RWLock!Spec
=============================================================================
