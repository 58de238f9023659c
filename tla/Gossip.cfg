SPECIFICATION FairSpec
CONSTANTS
  N = 3
  Clusters <- TwoOrThree
  BootTimes <- Clocks
  MaxSend = 1
  Reloading = {1}
  Restarting = {2}
  MaxReload = 1
  MaxTrouble = 1
INVARIANTS
  TypeOK
PROPERTIES
  RecordKeepsUp
  MembersSettle
  MasterAgreed
