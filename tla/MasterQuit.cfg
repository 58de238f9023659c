SPECIFICATION FairSpec
CONSTANTS
  MaxProcesses = 4
  MaxPid = 7
  MaxDynWorker = 4
  MaxSaved = 501
  ConfCounts = {2}
  KvCounts = {2}
  NReload = 1
  NKeep = 0
  PrivilegedAgent = FALSE
  CrashNames = {"worker", "helper"}
  FatalExit = TRUE
  ChannelMayFail = TRUE
  KillDelay = 1
  MaxGen = 1
  MaxRefused = 1
  MaxCrash = 1
  MaxSet = 0
  MaxForkFail = 0
  MayStop = {"QUIT"}
INVARIANTS
  OneInstance
PROPERTIES
  QuitEnds
CHECK_DEADLOCK FALSE
