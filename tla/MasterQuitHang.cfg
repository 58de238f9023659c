SPECIFICATION FairSpec
CONSTANTS
  MaxProcesses = 6
  MaxPid = 6
  MaxDynWorker = 4
  MaxSaved = 501
  ConfCounts = {1}
  KvCounts = {1}
  NReload = 0
  NKeep = 1
  PrivilegedAgent = FALSE
  CrashNames = {"worker"}
  FatalExit = FALSE
  ChannelMayFail = FALSE
  KillDelay = 1
  MaxGen = 1
  MaxRefused = 0
  MaxCrash = 0
  MaxSet = 0
  MaxForkFail = 0
  MayStop = {"QUIT"}
PROPERTIES
  QuitEnds
CHECK_DEADLOCK FALSE
