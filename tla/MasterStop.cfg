SPECIFICATION MasterFairSpec
CONSTANTS
  MaxProcesses = 5
  MaxPid = 5
  MaxDynWorker = 4
  MaxSaved = 501
  ConfCounts = {1}
  KvCounts = {1, 2}
  NReload = 0
  NKeep = 0
  PrivilegedAgent = TRUE
  CrashNames = {"worker"}
  FatalExit = FALSE
  ChannelMayFail = FALSE
  KillDelay = 1
  MaxGen = 0
  MaxRefused = 0
  MaxCrash = 1
  MaxSet = 1
  MaxForkFail = 1
  MayStop = {"QUIT", "TERM"}
INVARIANTS
  SupervisionInv
  OnlyShrunkOutlive
PROPERTIES
  TerminateEnds
CHECK_DEADLOCK FALSE
