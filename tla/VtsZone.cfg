SPECIFICATION FairSpec
CONSTANTS
  Procs = {p1, p2, p3}
  Nodes = {n1, n2}
  Keys = {a, b}
  NoKey = NoKey
  NoNode = NoNode
  Zone = Zone
  NCpu = 2
  Locks <- ZoneLocks
  Free <- FreeWords
  MaxCalls = 3
  MaxControl = 1
  MaxDead = 1
INVARIANTS
  TypeOK
  Exclusion
  WordCounts
  OneNodePerKey
  Counted
PROPERTIES
  TreeFrozen
  Served
CHECK_DEADLOCK FALSE
