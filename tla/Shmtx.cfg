SPECIFICATION FairSpec
CONSTANTS
  Procs = {p1, p2, p3}
  NoProc = NoProc
  Master = Master
  Semaphore = TRUE
  CrashLabels = {"lock", "register", "recheck", "deregister", "sleep", "critical", "wake", "post"}
  MaxCrash = 2
INVARIANTS
  TypeOK
  MutualExclusion
  LockIsOwned
  Credits
PROPERTIES
  ImplementsOwnedLock
  DeadOwnerFreed
  NoLostWakeup
