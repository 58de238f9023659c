SPECIFICATION FairSpec
CONSTANTS
  N = 3
  Clusters <- Equal
  BootTimes <- Clocks
  MaxSend = 1
  Reloading = {}
  Restarting = {}
  MaxReload = 0
  MaxTrouble = 0
PROPERTY
  MasterAgreed
