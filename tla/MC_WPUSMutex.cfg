\* Four threads; no symmetry, which liveness properties do not allow.
SPECIFICATION FairSpec
CONSTANT Threads = {t1, t2, t3, t4}
INVARIANTS
  LockSafe
PROPERTIES
  WritePreference
  ImplementsReadWriteLock
  WritersProgress
