--------------------------- MODULE ReadWriteLock ---------------------------
(***************************************************************************)
(* What a user of WPUSMutex may rely on, as the class comment of           *)
(* write_preferring_upgradable_mutex.h promises it: shared readers, an     *)
(* exclusive writer, and an upgrade or downgrade that is one step, so that *)
(* nobody writes between the reads of the holder and its own write.        *)
(***************************************************************************)
CONSTANT Threads

VARIABLE held       \* what each thread holds: "unlocked", "read" or "write"

Init == held = [t \in Threads |-> "unlocked"]

NobodyElseHolds(t) == \A u \in Threads \ {t} : held[u] = "unlocked"

AcquireRead(t) ==
  /\ held[t] = "unlocked"
  /\ \A u \in Threads : held[u] # "write"
  /\ held' = [held EXCEPT ![t] = "read"]

AcquireWrite(t) ==
  /\ held[t] = "unlocked"
  /\ NobodyElseHolds(t)
  /\ held' = [held EXCEPT ![t] = "write"]

Upgrade(t) ==
  /\ held[t] = "read"
  /\ NobodyElseHolds(t)
  /\ held' = [held EXCEPT ![t] = "write"]

Downgrade(t) ==
  /\ held[t] = "write"
  /\ held' = [held EXCEPT ![t] = "read"]

Release(t) ==
  /\ held[t] # "unlocked"
  /\ held' = [held EXCEPT ![t] = "unlocked"]

Next ==
  \E t \in Threads :
    AcquireRead(t) \/ AcquireWrite(t) \/ Upgrade(t) \/ Downgrade(t) \/ Release(t)

Spec == Init /\ [][Next]_held
=============================================================================
