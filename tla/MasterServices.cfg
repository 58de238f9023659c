SPECIFICATION FairSpec
CONSTANTS
  MaxProcesses = 9
  MaxPid = 10
  MaxDynWorker = 4
  MaxSaved = 501
  ConfCounts = {1}
  KvCounts = {1}
  NReload = 1
  NKeep = 1
  PrivilegedAgent = TRUE
  CrashNames = {"agent", "helper"}
  FatalExit = FALSE
  ChannelMayFail = FALSE
  KillDelay = 1
  MaxGen = 2
  MaxRefused = 0
  MaxCrash = 1
  MaxSet = 0
  MaxForkFail = 0
  MayStop = {}
INVARIANTS
  OldGenerationLeaves
  OneInstance
PROPERTIES
  ReloadEnds
  AgentReplaced
CHECK_DEADLOCK FALSE
