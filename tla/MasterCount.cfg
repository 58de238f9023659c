SPECIFICATION Spec
CONSTANTS
  MaxProcesses = 6
  MaxPid = 6
  MaxDynWorker = 2
  MaxSaved = 501
  ConfCounts = {1}
  KvCounts = {1, 2}
  NReload = 0
  NKeep = 0
  PrivilegedAgent = FALSE
  CrashNames = {"worker"}
  FatalExit = FALSE
  ChannelMayFail = FALSE
  KillDelay = 1
  MaxGen = 1
  MaxRefused = 0
  MaxCrash = 0
  MaxSet = 1
  MaxForkFail = 0
  MayStop = {}
PROPERTIES
  ValidCountKept
CHECK_DEADLOCK FALSE
