SPECIFICATION Spec
CONSTANTS
  MaxProcesses = 8
  MaxPid = 8
  MaxDynWorker = 4
  MaxSaved = 501
  ConfCounts = {1}
  KvCounts = {1}
  NReload = 1
  NKeep = 1
  PrivilegedAgent = FALSE
  CrashNames = {"worker"}
  FatalExit = FALSE
  ChannelMayFail = FALSE
  KillDelay = 1
  MaxGen = 1
  MaxRefused = 0
  MaxCrash = 0
  MaxSet = 0
  MaxForkFail = 0
  MayStop = {}
INVARIANTS
  HelperHasDirective
CHECK_DEADLOCK FALSE
