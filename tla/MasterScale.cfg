SPECIFICATION FairSpec
CONSTANTS
  MaxProcesses = 7
  MaxPid = 7
  MaxDynWorker = 4
  MaxSaved = 3
  ConfCounts = {1, 2}
  KvCounts = {0, 1, 2}
  NReload = 0
  NKeep = 0
  PrivilegedAgent = FALSE
  CrashNames = {"worker"}
  FatalExit = FALSE
  ChannelMayFail = FALSE
  KillDelay = 1
  MaxGen = 1
  MaxRefused = 0
  MaxCrash = 1
  MaxSet = 2
  MaxForkFail = 0
  MayStop = {}
INVARIANTS
  TypeOK
  Supervised
  ShrinkAccounted
  EnoughWorkers
  OldGenerationLeaves
  PidsPublished
PROPERTIES
  ShrinkEnds
CHECK_DEADLOCK FALSE
