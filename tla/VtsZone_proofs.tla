--------------------------- MODULE VtsZone_proofs ---------------------------
(***************************************************************************)
(* Proofs about the zone of the traffic statistics, for any number of      *)
(* workers, keys, nodes, slots and deaths: its locks are used as they are  *)
(* meant to be, so they exclude and count; a key has one node; and the     *)
(* tree is frozen once a holder of its lock has died.                      *)
(*                                                                         *)
(* What a worker holds follows from where it is (Holds); a worker that is  *)
(* about to insert a key knows that the tree has none (Missing), because   *)
(* nobody else can write while it holds the write lock.                    *)
(***************************************************************************)
EXTENDS VtsZone, Rwlock_proofs, InductionLemmas

(* What a worker may hold of the zone at a label.                          *)
ZoneMode(label) ==
  IF label \in {"idle", "upgrade", "reread", "redeem", "return"} THEN {"none"}
  ELSE IF label \in {"release", "map", "lock", "write", "yield", "reset"} THEN {"read"}
  ELSE IF label \in {"insert", "downgrade", "delete", "settle"} THEN {"write"}
  ELSE {"read", "write"}

Holds ==
  \A p \in Procs :
    /\ hold[Zone][p] \in ZoneMode(pc[p])
    /\ pc[p] \in {"downgrade", "reread", "map", "lock", "write"} => found[p] \in Nodes
    /\ pc[p] \in {"lock", "write"} => slot[p] \in Slots
    /\ \A l \in SlotLocks : hold[l][p] # "none" => pc[p] = "write" /\ l = MySlot(p)
    /\ pc[p] = "write" => hold[MySlot(p)][p] = "write"

Missing == \A p \in Procs : pc[p] = "insert" => \A n \in tree : key[n] # arg[p]

LocksInv == RwTypeOK /\ Exclusion /\ WordCounts
ZoneInv == TypeOK /\ LocksInv /\ Holds

-----------------------------------------------------------------------------
(* Next, action by action.                                                 *)
LEMMA NextCases ==
  ASSUME Next
  PROVE  \E p \in Procs :
           \/ AddNode(p) \/ Delete(p) \/ Reset(p) \/ Die(p)
           \/ UnlockZone(p) \/ RdLockZone(p) \/ Upgrade(p) \/ Insert(p) \/ MapNode(p)
           \/ ReadCount(p) \/ WriteCount(p) \/ Return(p)
           \/ Redeem(p) \/ DeleteNode(p) \/ ResetNode(p)
  BY DEF Next, Step

LEMMA SlotsOfNode ==
  /\ Zone \in Locks /\ SlotLocks \subseteq Locks
  /\ \A n \in Nodes : {n} \X Slots \subseteq SlotLocks
  BY VtsZoneConstants DEF SlotLocks

(* A lookup returns a node, and finds what is in the tree.                 *)
LEMMA LookupFinds ==
  ASSUME TypeOK, NEW k
  PROVE  /\ Lookup(k) \in Nodes \union {NoNode}
         /\ Lookup(k) = NoNode => \A n \in tree : key[n] # k
<1>1. CASE \E n \in tree : key[n] = k
  <2>1. Lookup(k) \in tree
    BY <1>1 DEF Lookup
  <2> QED BY <2>1, VtsZoneConstants DEF TypeOK
<1>2. CASE ~\E n \in tree : key[n] = k
  BY <1>2 DEF Lookup
<1> QED BY <1>1, <1>2

LEMMA FindNodeFinds ==
  ASSUME TypeOK, NEW p \in Procs, NEW k
  PROVE  /\ FindNode(p, k) \in Nodes \union {NoNode}
         /\ FindNode(p, k) = NoNode => \A n \in tree : key[n] # k
  BY LookupFinds DEF FindNode, TypeOK

(* Whoever writes the zone has it to itself: nobody is in a slot.          *)
LEMMA WriterAlone ==
  ASSUME ZoneInv, NEW p \in Procs, hold[Zone][p] = "write"
  PROVE  /\ \A q \in Procs \ {p} : hold[Zone][q] = "none"
         /\ \A l \in SlotLocks, q \in Procs : hold[l][q] = "none"
<1>1. \A q \in Procs \ {p} : hold[Zone][q] = "none"
  BY SlotsOfNode DEF ZoneInv, LocksInv, Exclusion
<1>2. \A q \in Procs : pc[q] # "write"
  BY <1>1 DEF ZoneInv, Holds, ZoneMode
<1> QED BY <1>1, <1>2, SlotsOfNode DEF ZoneInv, Holds

(* So the words that a new node zeroes were free, and no lock is wiped.    *)
LEMMA ZeroedFree ==
  ASSUME ZoneInv, NEW p \in Procs, hold[Zone][p] = "write", NEW n \in Nodes
  PROVE  Zeroed(n) = word
<1>1. \A l \in {n} \X Slots : word[l] = Free[l]
  <2> SUFFICES ASSUME NEW l \in {n} \X Slots PROVE word[l] = Free[l]
      OBVIOUS
  <2>1. l \in Locks /\ \A q \in Procs : hold[l][q] = "none"
    BY SlotsOfNode, WriterAlone
  <2>2. Cardinality(Readers(l)) = 0 /\ ~Written(l)
    BY <2>1, NoReader DEF Written, ZoneInv, LocksInv
  <2>3. word[l] = Free[l] + 0
    BY <2>1, <2>2 DEF ZoneInv, LocksInv, WordCounts
  <2> QED BY <2>1, <2>3, RwlockConstants
<1> QED BY <1>1 DEF Zeroed, ZoneInv, TypeOK, RwTypeOK

-----------------------------------------------------------------------------
(* Every step uses the locks as it should, or not at all.                  *)
LEMMA UsesLocks ==
  ASSUME ZoneInv, [Next]_vars
  PROVE  [RwNext]_rwVars
<1>1. CASE UNCHANGED vars
  BY <1>1 DEF vars
<1>2. ASSUME NEW p \in Procs,
             \/ AddNode(p) \/ Delete(p) \/ Reset(p) \/ UnlockZone(p) \/ RdLockZone(p)
             \/ Upgrade(p) \/ Redeem(p) \/ Return(p)
      PROVE  RdLock(p, Zone) \/ WrLock(p, Zone) \/ Unlock(p, Zone)
  BY <1>2 DEF AddNode, Delete, Reset, Call, UnlockZone, RdLockZone, Upgrade, Redeem, Return
<1>3. ASSUME NEW p \in Procs, ReadCount(p) \/ WriteCount(p)
      PROVE  MySlot(p) \in Locks /\ (WrLock(p, MySlot(p)) \/ Unlock(p, MySlot(p)))
  <2>1. found[p] \in Nodes /\ slot[p] \in Slots
    BY <1>3 DEF ReadCount, WriteCount, At, ZoneInv, Holds
  <2> QED BY <1>3, <2>1, SlotsOfNode DEF ReadCount, WriteCount, MySlot, SlotLocks
<1>4. ASSUME NEW p \in Procs, Insert(p) PROVE UNCHANGED rwVars
  <2>1. hold[Zone][p] = "write"
    BY <1>4 DEF Insert, At, ZoneInv, Holds, ZoneMode
  <2> QED BY <1>4, <2>1, ZeroedFree DEF Insert, rwVars
<1>5. ASSUME NEW p \in Procs, Die(p) \/ MapNode(p) \/ DeleteNode(p) \/ ResetNode(p)
      PROVE  UNCHANGED rwVars
  BY <1>5 DEF Die, MapNode, DeleteNode, ResetNode
<1> QED BY <1>1, <1>2, <1>3, <1>4, <1>5, NextCases, SlotsOfNode DEF RwNext

LEMMA LocksNext ==
  ASSUME ZoneInv, [Next]_vars
  PROVE  LocksInv'
  BY UsesLocks, RwTypeNext, ExclusionNext, CountsNext DEF ZoneInv, LocksInv

LEMMA TypeNext ==
  ASSUME ZoneInv, [Next]_vars
  PROVE  TypeOK'
<1> USE VtsZoneConstants DEF Labels, Goto
<1>0. TypeOK /\ RwTypeOK'
  BY LocksNext DEF ZoneInv, LocksInv
<1>1. CASE UNCHANGED vars
  BY <1>0, <1>1 DEF TypeOK, vars, rwVars, shared, own, mine, history
<1>2. ASSUME NEW p \in Procs, AddNode(p) \/ Delete(p) \/ Reset(p) PROVE TypeOK'
  <2>1. PICK k \in Keys, n \in Nodes \union {NoNode},
             label \in {"release", "map", "yield", "reset"} : Call(p, k, n, label)
    BY <1>0, <1>2, FindNodeFinds, LookupFinds DEF AddNode, Delete, Reset
  <2>2. control' \in Nat
    BY <1>0, <1>2 DEF AddNode, Delete, Reset, Control, TypeOK
  <2> QED BY <1>0, <2>1, <2>2 DEF Call, TypeOK, shared, own
<1>3. ASSUME NEW p \in Procs, UnlockZone(p) \/ RdLockZone(p) \/ Redeem(p) PROVE TypeOK'
  <2>1. PICK from \in Labels, to \in Labels : Move(p, from, to)
    BY <1>3 DEF UnlockZone, RdLockZone, Redeem
  <2> QED BY <1>0, <2>1 DEF Move, TypeOK, shared, own, mine, history
<1>4. ASSUME NEW p \in Procs, Upgrade(p) PROVE TypeOK'
  <2>1. FindNode(p, arg[p]) \in Nodes \union {NoNode}
    BY <1>0, FindNodeFinds
  <2> QED BY <1>0, <1>4, <2>1 DEF Upgrade, TypeOK, shared, own, history
<1>5. ASSUME NEW p \in Procs, Insert(p) PROVE TypeOK'
  <2>1. CASE Nodes \subseteq tree /\ Goto(p, "out") /\ UNCHANGED <<rwVars, shared, found>>
    BY <1>0, <1>5, <2>1 DEF Insert, TypeOK, shared, own, history
  <2>2. ASSUME NEW n \in Nodes, tree' = tree \union {n}, key' = [key EXCEPT ![n] = arg[p]],
               count' = [count EXCEPT ![n] = [s \in Slots |-> 0]],
               found' = [found EXCEPT ![p] = n], Goto(p, "downgrade")
        PROVE  TypeOK'
    BY <1>0, <1>5, <2>2 DEF Insert, TypeOK, own, history
  <2> QED BY <1>5, <2>1, <2>2 DEF Insert
<1>6. ASSUME NEW p \in Procs, MapNode(p) PROVE TypeOK'
  <2>1. want % NCpu \in Slots
    BY <1>0 DEF TypeOK, Slots
  <2> QED BY <1>0, <1>6, <2>1 DEF MapNode, TypeOK, shared, mine, history
<1>7. ASSUME NEW p \in Procs, ReadCount(p) PROVE TypeOK'
  <2>1. count[found[p]][slot[p]] \in Nat
    BY <1>0, <1>7 DEF ReadCount, At, ZoneInv, Holds, TypeOK
  <2> QED BY <1>0, <1>7, <2>1 DEF ReadCount, TypeOK, shared, own, history
<1>8. ASSUME NEW p \in Procs, WriteCount(p) PROVE TypeOK'
  <2>1. found[p] \in Nodes /\ slot[p] \in Slots /\ read[p] + 1 \in Nat
    BY <1>0, <1>8 DEF WriteCount, At, ZoneInv, Holds, TypeOK
  <2>2. count' \in [Nodes -> [Slots -> Nat]]
    BY <1>0, <1>8, <2>1 DEF WriteCount, TypeOK
  <2>3. done' \in [Keys -> Nat]
    <3>1. done \in [Keys -> Nat] /\ done' = [done EXCEPT ![arg[p]] = @ + 1]
      BY <1>0, <1>8 DEF WriteCount, TypeOK
    <3>2. done' = [k \in Keys |-> IF k = arg[p] THEN done[k] + 1 ELSE done[k]]
      BY <3>1, Zenon
    <3>3. \A k \in Keys : done[k] + 1 \in Nat /\ done[k] \in Nat
      BY <3>1
    <3> QED BY <3>2, <3>3
  <2> QED BY <1>0, <1>8, <2>1, <2>2, <2>3 DEF WriteCount, TypeOK, history
<1>9. ASSUME NEW p \in Procs, Return(p) PROVE TypeOK'
  BY <1>0, <1>9 DEF Return, TypeOK, shared, own, history
<1>10. ASSUME NEW p \in Procs, Die(p) PROVE TypeOK'
  BY <1>0, <1>10 DEF Die, TypeOK, shared, own, mine
<1>11. ASSUME NEW p \in Procs, DeleteNode(p) PROVE TypeOK'
  BY <1>0, <1>11 DEF DeleteNode, TypeOK, own, mine, history
<1>12. ASSUME NEW p \in Procs, ResetNode(p) PROVE TypeOK'
  BY <1>0, <1>12 DEF ResetNode, TypeOK, own, mine, history
<1> QED BY <1>1, <1>2, <1>3, <1>4, <1>5, <1>6, <1>7, <1>8, <1>9, <1>10, <1>11, <1>12, NextCases

-----------------------------------------------------------------------------
(* What a worker holds follows from where it is.                           *)
LEMMA HoldsNext ==
  ASSUME ZoneInv, [Next]_vars
  PROVE  Holds'
<1> DEFINE HoldsOf(p) ==
      /\ hold[Zone][p] \in ZoneMode(pc[p])
      /\ pc[p] \in {"downgrade", "reread", "map", "lock", "write"} => found[p] \in Nodes
      /\ pc[p] \in {"lock", "write"} => slot[p] \in Slots
      /\ \A l \in SlotLocks : hold[l][p] # "none" => pc[p] = "write" /\ l = MySlot(p)
      /\ pc[p] = "write" => hold[MySlot(p)][p] = "write"
<1> USE SlotsOfNode DEF ZoneMode, Goto, At
<1>0. TypeOK /\ RwTypeOK /\ \A p \in Procs : HoldsOf(p)
  BY DEF ZoneInv, LocksInv, Holds
<1>1. CASE UNCHANGED vars
  BY <1>0, <1>1 DEF vars, rwVars, own, mine, Holds, MySlot
<1>2. ASSUME NEW p \in Procs, HoldsOf(p)',
             \A q \in Procs \ {p} :
               /\ pc'[q] = pc[q] /\ found'[q] = found[q] /\ slot'[q] = slot[q]
               /\ \A l \in Locks : hold'[l][q] = hold[l][q]
      PROVE  Holds'
  <2>1. ASSUME NEW q \in Procs, q # p PROVE HoldsOf(q)'
    BY <1>0, <1>2, <2>1 DEF MySlot
  <2> QED BY <1>2, <2>1 DEF Holds
<1>3. ASSUME NEW p \in Procs, NEW l \in Locks, NEW value, NEW mode, Grant(p, l, value, mode)
      PROVE  /\ hold'[l][p] = mode
             /\ \A m \in Locks, q \in Procs : m # l \/ q # p => hold'[m][q] = hold[m][q]
  BY <1>0, <1>3 DEF Grant, RwTypeOK
<1>4. ASSUME NEW p \in Procs, AddNode(p) \/ Delete(p) \/ Reset(p) PROVE Holds'
  <2>1. PICK k \in Keys, n \in Nodes \union {NoNode},
             label \in {"release", "map", "yield", "reset"} :
               Call(p, k, n, label) /\ (label = "map" => n \in Nodes)
    BY <1>0, <1>4, FindNodeFinds, LookupFinds DEF AddNode, Delete, Reset
  <2>2. /\ hold'[Zone][p] = "read" /\ pc'[p] = label /\ found'[p] = n
        /\ \A m \in Locks, q \in Procs : m # Zone \/ q # p => hold'[m][q] = hold[m][q]
    BY <1>0, <1>3, <2>1 DEF Call, RdLock, TypeOK
  <2>3. HoldsOf(p)'
    BY <1>0, <2>1, <2>2, VtsZoneConstants DEF Call
  <2>4. \A q \in Procs \ {p} :
          pc'[q] = pc[q] /\ found'[q] = found[q] /\ slot'[q] = slot[q]
    BY <1>0, <2>1 DEF Call, TypeOK, own
  <2> QED BY <1>2, <2>2, <2>3, <2>4
<1>5. ASSUME NEW p \in Procs, UnlockZone(p) \/ RdLockZone(p) \/ Redeem(p) PROVE Holds'
  <2>1. PICK from, to, mode, value :
          /\ from \in Labels /\ to \in Labels /\ mode \in Modes
          /\ Move(p, from, to) /\ Grant(p, Zone, value, mode) /\ mode \in ZoneMode(to)
          /\ from # "write" /\ to \notin {"lock", "write", "downgrade"}
          /\ to \in {"reread", "map"} => from \in {"downgrade", "reread"}
    BY <1>5 DEF UnlockZone, RdLockZone, Redeem, Labels, Modes, Unlock, RdLock, WrLock, Move
  <2>2. /\ hold'[Zone][p] = mode /\ pc[p] = from /\ pc'[p] = to /\ found' = found
        /\ \A m \in Locks, q \in Procs : m # Zone \/ q # p => hold'[m][q] = hold[m][q]
    BY <1>0, <1>3, <2>1 DEF Move, TypeOK, mine
  <2>3. HoldsOf(p)'
    BY <1>0, <2>1, <2>2, VtsZoneConstants
  <2>4. \A q \in Procs \ {p} :
          pc'[q] = pc[q] /\ found'[q] = found[q] /\ slot'[q] = slot[q]
    BY <1>0, <2>1 DEF Move, TypeOK, own, mine
  <2> QED BY <1>2, <2>2, <2>3, <2>4
<1>6. ASSUME NEW p \in Procs, Upgrade(p) PROVE Holds'
  <2>1. /\ hold'[Zone][p] = "write" /\ pc[p] = "upgrade"
        /\ pc'[p] \in {"insert", "downgrade"}
        /\ pc'[p] = "downgrade" => found'[p] \in Nodes
        /\ \A m \in Locks, q \in Procs : m # Zone \/ q # p => hold'[m][q] = hold[m][q]
    BY <1>0, <1>3, <1>6, FindNodeFinds DEF Upgrade, WrLock, TypeOK
  <2>2. HoldsOf(p)'
    BY <1>0, <2>1, VtsZoneConstants
  <2>3. \A q \in Procs \ {p} :
          pc'[q] = pc[q] /\ found'[q] = found[q] /\ slot'[q] = slot[q]
    BY <1>0, <1>6 DEF Upgrade, TypeOK, own
  <2> QED BY <1>2, <2>1, <2>2, <2>3
<1>7. ASSUME NEW p \in Procs, Insert(p) PROVE Holds'
  <2>1. UNCHANGED <<hold, slot>> /\ pc[p] = "insert"
    BY <1>7 DEF Insert, rwVars, own
  <2>2. /\ pc'[p] \in {"downgrade", "out"} /\ (pc'[p] = "downgrade" => found'[p] \in Nodes)
        /\ \A q \in Procs \ {p} : pc'[q] = pc[q] /\ found'[q] = found[q]
    BY <1>0, <1>7 DEF Insert, TypeOK
  <2>3. HoldsOf(p)'
    BY <1>0, <2>1, <2>2
  <2> QED BY <1>2, <2>1, <2>2, <2>3
<1>8. ASSUME NEW p \in Procs, MapNode(p) PROVE Holds'
  <2>1. want % NCpu \in Slots
    BY <1>0, VtsZoneConstants DEF TypeOK, Slots
  <2>2. /\ UNCHANGED <<hold, found>> /\ pc[p] = "map" /\ pc'[p] = "lock" /\ slot'[p] \in Slots
        /\ \A q \in Procs \ {p} : pc'[q] = pc[q] /\ slot'[q] = slot[q]
    BY <1>0, <1>8, <2>1 DEF MapNode, TypeOK, rwVars, mine
  <2>3. HoldsOf(p)'
    BY <1>0, <2>2
  <2> QED BY <1>2, <2>2, <2>3
<1>9. ASSUME NEW p \in Procs, ReadCount(p) \/ WriteCount(p) PROVE Holds'
  <2>1. found[p] \in Nodes /\ slot[p] \in Slots /\ MySlot(p) \in SlotLocks
    BY <1>0, <1>9 DEF ReadCount, WriteCount, SlotLocks, MySlot
  <2>2. /\ UNCHANGED <<found, slot>> /\ MySlot(p)' = MySlot(p)
        /\ \/ pc[p] = "lock" /\ pc'[p] = "write" /\ hold'[MySlot(p)][p] = "write"
           \/ pc[p] = "write" /\ pc'[p] = "out" /\ hold'[MySlot(p)][p] = "none"
        /\ \A m \in Locks, q \in Procs : m # MySlot(p) \/ q # p => hold'[m][q] = hold[m][q]
        /\ \A q \in Procs \ {p} : pc'[q] = pc[q]
    BY <1>0, <1>3, <1>9, <2>1 DEF ReadCount, WriteCount, WrLock, Unlock, TypeOK, own, MySlot
  <2>3. HoldsOf(p)'
    BY <1>0, <2>1, <2>2, VtsZoneConstants
  <2> QED BY <1>2, <2>2, <2>3
<1>10. ASSUME NEW p \in Procs, Return(p) PROVE Holds'
  <2>1. /\ hold'[Zone][p] = "none" /\ pc[p] = "out" /\ pc'[p] = "idle"
        /\ \A m \in Locks, q \in Procs : m # Zone \/ q # p => hold'[m][q] = hold[m][q]
        /\ \A q \in Procs \ {p} : pc'[q] = pc[q] /\ found'[q] = found[q] /\ slot'[q] = slot[q]
    BY <1>0, <1>3, <1>10 DEF Return, Unlock, TypeOK, own
  <2>2. HoldsOf(p)'
    BY <1>0, <2>1, VtsZoneConstants
  <2> QED BY <1>2, <2>1, <2>2
<1>11. ASSUME NEW p \in Procs, Die(p) \/ DeleteNode(p) \/ ResetNode(p) PROVE Holds'
  <2>1. /\ UNCHANGED <<hold, found, slot>>
        /\ \/ pc' = pc
           \/ pc[p] = "delete" /\ pc'[p] = "settle"
           \/ pc[p] = "reset" /\ pc'[p] = "out"
        /\ \A q \in Procs \ {p} : pc'[q] = pc[q]
    BY <1>0, <1>11 DEF Die, DeleteNode, ResetNode, TypeOK, rwVars, own, mine
  <2>2. HoldsOf(p)'
    BY <1>0, <2>1 DEF MySlot
  <2> QED BY <1>2, <2>1, <2>2
<1> QED BY <1>1, <1>4, <1>5, <1>6, <1>7, <1>8, <1>9, <1>10, <1>11, NextCases

LEMMA ZoneInitial == Init => ZoneInv
<1> SUFFICES ASSUME Init PROVE ZoneInv
    OBVIOUS
<1>1. LocksInv
  BY RwInitial DEF Init, LocksInv
<1>2. TypeOK
  BY <1>1, VtsZoneConstants DEF Init, LocksInv, TypeOK, Labels
<1>3. Holds
  BY SlotsOfNode DEF Init, RwInit, Holds, ZoneMode
<1> QED BY <1>1, <1>2, <1>3 DEF ZoneInv

(* Types, locks and places, for any number of workers.                     *)
THEOREM ZoneInvHolds == Spec => []ZoneInv
<1>1. ZoneInv /\ [Next]_vars => ZoneInv'
  BY TypeNext, LocksNext, HoldsNext DEF ZoneInv
<1> QED BY <1>1, ZoneInitial, PTL DEF Spec
(* The zone is one use of the locks among others.                          *)
THEOREM ZoneImplementsLocks == Spec => RwSpec
<1>1. Init => RwInit
  BY DEF Init
<1>2. ZoneInv /\ [Next]_vars => [RwNext]_rwVars
  BY UsesLocks
<1> QED BY <1>1, <1>2, ZoneInvHolds, PTL DEF Spec, RwSpec

(* The variables of the zone keep their types.                             *)
THEOREM ZoneTypes == Spec => []TypeOK
BY ZoneInvHolds, PTL DEF ZoneInv

(* Nobody is in the zone, or in a slot of a node, beside one who writes    *)
(* there, whoever dies and whatever memory is allocated again.             *)
THEOREM ZoneExclusion == Spec => []Exclusion
BY ZoneInvHolds, PTL DEF ZoneInv, LocksInv

(* The words count the holders, also where the zeroing of a new node       *)
(* writes them without any lock of the slots.                              *)
THEOREM ZoneCounts == Spec => []WordCounts
BY ZoneInvHolds, PTL DEF ZoneInv, LocksInv

-----------------------------------------------------------------------------
(* Who inserts or deletes, and that nobody else changes the tree.          *)
LEMMA TreeChanges ==
  ASSUME ZoneInv, [Next]_vars, ~UNCHANGED <<tree, key>>
  PROVE  \E p \in Procs :
           /\ p \notin dead /\ hold[Zone][p] = "write"
           /\ Insert(p) \/ DeleteNode(p)
<1>1. ~UNCHANGED vars
  BY DEF vars, shared
<1>2. PICK p \in Procs : Insert(p) \/ DeleteNode(p)
  BY <1>1, NextCases DEF AddNode, Delete, Reset, Call, Die, UnlockZone, RdLockZone,
     Move, Upgrade, MapNode, ReadCount, WriteCount, Return, Redeem, ResetNode, shared
<1>3. p \notin dead /\ hold[Zone][p] = "write"
  BY <1>2 DEF Insert, DeleteNode, At, ZoneInv, Holds, ZoneMode
<1> QED BY <1>2, <1>3

(* Once a worker has died that held the lock of the zone, the tree stays   *)
(* as it is.                                                               *)
THEOREM Frozen == Spec => TreeFrozen
<1>1. ZoneInv /\ [Next]_vars
      => [(\E p \in dead : hold[Zone][p] # "none") => UNCHANGED tree]_vars
  <2> SUFFICES ASSUME ZoneInv, [Next]_vars, NEW q \in dead, hold[Zone][q] # "none",
                      tree' # tree
               PROVE  FALSE
      OBVIOUS
  <2>1. PICK p \in Procs : p \notin dead /\ hold[Zone][p] = "write"
    BY TreeChanges
  <2>2. q \in Procs /\ q # p
    BY <2>1 DEF ZoneInv, TypeOK
  <2> QED BY <2>1, <2>2, WriterAlone
<1> QED BY <1>1, ZoneInvHolds, PTL DEF Spec, TreeFrozen

(* A worker that is about to insert has looked since it got the write      *)
(* lock, so a key never gets a second node.                                *)
LEMMA OneNodeNext ==
  ASSUME ZoneInv, OneNodePerKey, Missing, [Next]_vars
  PROVE  OneNodePerKey' /\ Missing'
<1> USE DEF OneNodePerKey, Missing, Goto, At
<1>0. TypeOK
  BY DEF ZoneInv
<1>1. CASE UNCHANGED <<tree, key>>
  <2>1. ASSUME NEW p \in Procs, pc'[p] = "insert", NEW n \in tree PROVE key[n] # arg'[p]
    <3>1. CASE pc[p] = "insert" /\ arg'[p] = arg[p]
      BY <3>1
    <3>2. CASE Upgrade(p)
      <4>1. FindNode(p, arg[p]) = NoNode /\ arg' = arg
        BY <1>0, <2>1, <3>2 DEF Upgrade, TypeOK
      <4> QED BY <1>0, <4>1, FindNodeFinds
    <3>3. (pc[p] = "insert" /\ arg'[p] = arg[p]) \/ Upgrade(p)
      <4>1. CASE UNCHANGED vars
        BY <2>1, <4>1 DEF vars, mine
      <4>2. ASSUME NEW q \in Procs, AddNode(q) \/ Delete(q) \/ Reset(q)
            PROVE  pc[p] = "insert" /\ arg'[p] = arg[p]
        <5>1. PICK k \in Keys, m \in Nodes \union {NoNode},
                   label \in {"release", "map", "yield", "reset"} : Call(q, k, m, label)
          BY <1>0, <4>2, FindNodeFinds, LookupFinds DEF AddNode, Delete, Reset
        <5> QED BY <1>0, <2>1, <5>1 DEF Call, TypeOK
      <4>3. ASSUME NEW q \in Procs,
                   \/ Die(q) \/ UnlockZone(q) \/ RdLockZone(q) \/ Redeem(q) \/ Return(q)
            PROVE  pc[p] = "insert" /\ arg'[p] = arg[p]
        BY <1>0, <2>1, <4>3
           DEF Die, UnlockZone, RdLockZone, Redeem, Return, Move, TypeOK, mine
      <4>4. ASSUME NEW q \in Procs,
                   \/ Insert(q) \/ MapNode(q) \/ ReadCount(q) \/ WriteCount(q)
                   \/ DeleteNode(q) \/ ResetNode(q)
            PROVE  pc[p] = "insert" /\ arg'[p] = arg[p]
        BY <1>0, <2>1, <4>4
           DEF Insert, MapNode, ReadCount, WriteCount, DeleteNode, ResetNode, TypeOK, mine
      <4>5. ASSUME NEW q \in Procs, Upgrade(q)
            PROVE  (pc[p] = "insert" /\ arg'[p] = arg[p]) \/ Upgrade(p)
        BY <1>0, <2>1, <4>5 DEF Upgrade, TypeOK
      <4> QED BY <4>1, <4>2, <4>3, <4>4, <4>5, NextCases
    <3> QED BY <3>1, <3>2, <3>3
  <2> QED BY <1>1, <2>1
<1>2. CASE ~UNCHANGED <<tree, key>>
  <2>1. PICK p \in Procs : /\ hold[Zone][p] = "write"
                           /\ Insert(p) \/ DeleteNode(p)
    BY <1>2, TreeChanges
  <2>2. \A q \in Procs \ {p} : pc[q] # "insert"
    BY <2>1, WriterAlone DEF ZoneInv, Holds, ZoneMode
  <2>3. \A q \in Procs : pc'[q] # "insert"
    BY <1>0, <2>1, <2>2 DEF Insert, DeleteNode, TypeOK
  <2>4. CASE DeleteNode(p)
    BY <2>3, <2>4 DEF DeleteNode
  <2>5. CASE Insert(p)
    <3>1. PICK n \in Nodes \ tree : /\ tree' = tree \union {n}
                                     /\ key' = [key EXCEPT ![n] = arg[p]]
      BY <1>2, <2>5 DEF Insert, shared
    <3>2. \A m \in tree : key[m] # arg[p] /\ key'[m] = key[m]
      BY <1>0, <2>5, <3>1 DEF Insert, TypeOK
    <3>3. key'[n] = arg[p]
      BY <1>0, <3>1 DEF TypeOK
    <3> QED BY <2>3, <3>1, <3>2, <3>3
  <2> QED BY <2>1, <2>4, <2>5
<1> QED BY <1>1, <1>2

(* A key has one node.                                                     *)
THEOREM OneNode == Spec => []OneNodePerKey
<1>1. Init => OneNodePerKey /\ Missing
  BY DEF Init, OneNodePerKey, Missing
<1>2. ZoneInv /\ (OneNodePerKey /\ Missing) /\ [Next]_vars => (OneNodePerKey /\ Missing)'
  BY OneNodeNext
<1> QED BY <1>1, <1>2, ZoneInvHolds, PTL DEF Spec

-----------------------------------------------------------------------------
(* The sum of the counters at some places.                                 *)
At2(counters, places) == [ns \in places |-> counters[ns[1]][ns[2]]]

LEMMA SumOverSum ==
  ASSUME NEW c, NEW P, IsFiniteSet(P), \A ns \in P : c[ns[1]][ns[2]] \in Nat
  PROVE  SumOver(c, P) = Sum(At2(c, P), P)
<1> DEFINE f == At2(c, P)
           Def(v) == [s \in SUBSET P |->
                        IF s = {} THEN 0
                        ELSE c[Pick(s)[1]][Pick(s)[2]] + v[s \ {Pick(s)}]]
           iter == CHOOSE v : v = Def(v)
<1>1. SumOver(c, P) = iter[P]
  BY DEF SumOver, MapThenSumSet, MapThenFoldSet, Pick
<1>2. f \in [P -> Nat] /\ \A ns \in P : f[ns] = c[ns[1]][ns[2]]
  BY DEF At2
<1> HIDE DEF f
<1>3. \A s \in SUBSET P : s # {} => /\ c[Pick(s)[1]][Pick(s)[2]] = f[Pick(s)]
                                    /\ Rest(s) \in SUBSET P
  BY <1>2, RestIsLess
<1>4. PICK v : Sums(v, f, P)
  BY <1>2, SumsExist
<1>5. v = Def(v)
  <2>1. \A s \in SUBSET P : v[s] = Def(v)[s]
    BY <1>3, <1>4 DEF Sums, Rest
  <2>2. v = [s \in SUBSET P |-> v[s]]
    BY <1>4 DEF Sums
  <2> QED BY <2>1, <2>2
<1>6. iter = Def(iter)
  BY <1>5
<1> HIDE DEF iter
<1>7. PICK w : w = iter
  OBVIOUS
<1>8. w = Def(w)
  BY <1>6, <1>7
<1>9. /\ w = [s \in SUBSET P |-> w[s]] /\ w[{}] = 0
      /\ \A s \in SUBSET P : s # {} => w[s] = f[Pick(s)] + w[Rest(s)]
  <2>1. \A s \in SUBSET P : w[s] = Def(w)[s]
    BY <1>8
  <2>2. w = [s \in SUBSET P |-> w[s]]
    BY <1>8
  <2>3. w[{}] = 0
    BY <2>1
  <2> HIDE DEF Def
  <2>4. ASSUME NEW s \in SUBSET P, s # {} PROVE w[s] = f[Pick(s)] + w[Rest(s)]
    BY <1>3, <2>1, <2>4 DEF Rest, Def
  <2> QED BY <2>2, <2>3, <2>4
<1>10. Sums(w, f, P)
  BY <1>2, <1>9, SumsOf
<1>11. Sum(f, P) = w[P]
  BY <1>2, <1>10, SumIs
<1> QED BY <1>1, <1>7, <1>11 DEF f

(* A key has at most one node, so there are finitely many of its places.   *)
LEMMA PlacesFinite ==
  ASSUME NEW M, \A m, n \in M : m = n
  PROVE  IsFiniteSet(M \X Slots)
<1>1. IsFiniteSet(Slots)
  BY VtsZoneConstants, FS_Interval DEF Slots
<1>2. IsFiniteSet(M)
  <2>1. CASE M = {}
    BY <2>1, FS_EmptySet
  <2>2. CASE M # {}
    <3>1. PICK m \in M : M = {m}
      BY <2>2
    <3> QED BY <3>1, FS_Singleton
  <2> QED BY <2>1, <2>2
<1> QED BY <1>1, <1>2, FS_Product

-----------------------------------------------------------------------------
(* As long as nothing is deleted or reset, a worker that has a node has    *)
(* the node of its key, and what it has read of a counter is still there.  *)
Deleting == {"yield", "redeem", "delete", "settle", "return", "reset"}
PlacedOf(p) ==
  /\ pc[p] \notin Deleting
  /\ cached[p] # NoNode => cached[p] \in tree
  /\ pc[p] \in {"downgrade", "reread", "map", "lock", "write"} =>
       found[p] \in tree /\ key[found[p]] = arg[p]
  /\ pc[p] = "write" => read[p] = count[found[p]][slot[p]]
Placed == control = 0 => \A p \in Procs : PlacedOf(p)

LEMMA FindNodePlaced ==
  ASSUME NEW p \in Procs, PlacedOf(p), NEW k, FindNode(p, k) # NoNode
  PROVE  FindNode(p, k) \in tree /\ key[FindNode(p, k)] = k
BY DEF FindNode, Lookup, PlacedOf

(* Two workers never write the same counter.                               *)
LEMMA WritersApart ==
  ASSUME ZoneInv, NEW p \in Procs, NEW q \in Procs, pc[p] = "write", pc[q] = "write",
         MySlot(p) = MySlot(q)
  PROVE  p = q
<1>1. MySlot(p) \in Locks
  BY SlotsOfNode DEF ZoneInv, Holds, MySlot, SlotLocks
<1>2. hold[MySlot(p)][p] = "write" /\ hold[MySlot(p)][q] = "write"
  BY DEF ZoneInv, Holds
<1> QED BY <1>1, <1>2 DEF ZoneInv, LocksInv, Exclusion

LEMMA PlacedNext ==
  ASSUME ZoneInv, Placed, [Next]_vars
  PROVE  Placed'
<1> SUFFICES ASSUME control' = 0, control' # control \/ \A p \in Procs : PlacedOf(p)
             PROVE  \A p \in Procs : PlacedOf(p)'
  BY DEF Placed
<1> USE DEF At, Goto, Deleting
<1>0. TypeOK
  BY DEF ZoneInv
<1>1. CASE UNCHANGED vars
  BY <1>1 DEF vars, shared, own, mine, history, PlacedOf
<1>2. ASSUME NEW p \in Procs, Delete(p) \/ Reset(p) PROVE FALSE
  BY <1>0, <1>2 DEF Delete, Reset, Control, TypeOK
<1>3. ASSUME NEW p \in Procs, ~Delete(p), ~Reset(p), control' = control,
             PlacedOf(p)', tree \subseteq tree', \A n \in tree : key'[n] = key[n],
             \A q \in Procs \ {p} :
               /\ pc'[q] = pc[q] /\ found'[q] = found[q] /\ slot'[q] = slot[q]
               /\ arg'[q] = arg[q] /\ read'[q] = read[q] /\ cached'[q] = cached[q]
               /\ pc[q] = "write" =>
                    count'[found[q]][slot[q]] = count[found[q]][slot[q]]
      PROVE  \A q \in Procs : PlacedOf(q)'
  <2>1. ASSUME NEW q \in Procs, q # p PROVE PlacedOf(q)'
    <3>1. PlacedOf(q)
      BY <1>3
    <3> QED BY <1>3, <2>1, <3>1 DEF PlacedOf
  <2> QED BY <1>3, <2>1
<1>4. ASSUME NEW p \in Procs, AddNode(p) PROVE \A q \in Procs : PlacedOf(q)'
  <2>1. control' = control /\ ~Delete(p) /\ ~Reset(p) /\ PlacedOf(p)
    BY <1>2, <1>4 DEF AddNode
  <2>2. PICK k \in Keys, n \in Nodes \union {NoNode} :
          n = FindNode(p, k) /\ Call(p, k, n, IF n = NoNode THEN "release" ELSE "map")
    BY <1>0, <1>4, FindNodeFinds DEF AddNode
  <2>3. n # NoNode => n \in tree /\ key[n] = k
    BY <2>1, <2>2, FindNodePlaced
  <2>4. PlacedOf(p)'
    BY <1>0, <2>1, <2>2, <2>3 DEF Call, TypeOK, PlacedOf, shared, own
  <2>5. UNCHANGED <<tree, key, count, slot, cached, read>>
        /\ \A q \in Procs \ {p} : pc'[q] = pc[q] /\ found'[q] = found[q] /\ arg'[q] = arg[q]
    BY <1>0, <2>2 DEF Call, TypeOK, shared, own
  <2> QED BY <1>3, <2>1, <2>4, <2>5
<1>5. ASSUME NEW p \in Procs, UnlockZone(p) \/ RdLockZone(p) \/ Redeem(p)
      PROVE  \A q \in Procs : PlacedOf(q)'
  <2>1. PICK from \in Labels, to \in Labels :
          /\ Move(p, from, to)
          /\ <<from, to>> \in {<<"release", "upgrade">>, <<"downgrade", "reread">>,
                               <<"yield", "redeem">>, <<"settle", "return">>,
                               <<"reread", "map">>, <<"return", "out">>,
                               <<"redeem", "delete">>}
    BY <1>5 DEF UnlockZone, RdLockZone, Redeem, Labels
  <2>2. UNCHANGED <<tree, key, count, slot, cached, read, arg, found, control>>
        /\ \A q \in Procs \ {p} : pc'[q] = pc[q]
    BY <1>0, <2>1 DEF Move, TypeOK, shared, own, mine, history
  <2>3. PlacedOf(p) /\ pc[p] = from /\ pc'[p] = to
    BY <1>0, <2>1, <2>2 DEF Move, TypeOK
  <2>4. PlacedOf(p)'
    BY <2>1, <2>2, <2>3 DEF PlacedOf
  <2>5. ~Delete(p) /\ ~Reset(p)
    BY <1>2
  <2> QED BY <1>3, <2>2, <2>4, <2>5
<1>6. ASSUME NEW p \in Procs, Upgrade(p) PROVE \A q \in Procs : PlacedOf(q)'
  <2>1. UNCHANGED <<tree, key, count, slot, cached, read, arg, control>>
        /\ \A q \in Procs \ {p} : pc'[q] = pc[q] /\ found'[q] = found[q]
    BY <1>0, <1>6 DEF Upgrade, TypeOK, shared, own, history
  <2>2. PICK n : n = FindNode(p, arg[p])
    OBVIOUS
  <2>3. pc'[p] = (IF n = NoNode THEN "insert" ELSE "downgrade") /\ found'[p] = n
    BY <1>0, <1>6, <2>2 DEF Upgrade, TypeOK
  <2>4. PlacedOf(p) /\ (n # NoNode => n \in tree /\ key[n] = arg[p])
    BY <2>1, <2>2, FindNodePlaced
  <2>5. PlacedOf(p)'
    BY <2>1, <2>3, <2>4 DEF PlacedOf
  <2>6. ~Delete(p) /\ ~Reset(p)
    BY <1>2
  <2> QED BY <1>3, <2>1, <2>5, <2>6
<1>7. ASSUME NEW p \in Procs, Insert(p) PROVE \A q \in Procs : PlacedOf(q)'
  <2>1. UNCHANGED <<slot, cached, read, arg, control>> /\ pc[p] = "insert"
        /\ \A q \in Procs \ {p} : pc'[q] = pc[q] /\ found'[q] = found[q]
    BY <1>0, <1>7 DEF Insert, TypeOK, own, history
  <2>2. PlacedOf(p) /\ ~Delete(p) /\ ~Reset(p)
    BY <1>2, <2>1
  <2>3. CASE UNCHANGED shared /\ pc'[p] = "out"
    <3>1. PlacedOf(p)'
      BY <2>1, <2>2, <2>3 DEF PlacedOf, shared
    <3> QED BY <1>3, <2>1, <2>2, <2>3, <3>1 DEF shared
  <2>4. ASSUME NEW n \in Nodes \ tree, tree' = tree \union {n},
               key' = [key EXCEPT ![n] = arg[p]],
               count' = [count EXCEPT ![n] = [s \in Slots |-> 0]],
               found'[p] = n, pc'[p] = "downgrade"
        PROVE  \A q \in Procs : PlacedOf(q)'
    <3>1. /\ \A m \in tree : key'[m] = key[m] /\ count'[m] = count[m]
          /\ key'[n] = arg[p]
      BY <1>0, <2>4 DEF TypeOK
    <3>2. PlacedOf(p)'
      BY <2>1, <2>2, <2>4, <3>1 DEF PlacedOf
    <3>3. ASSUME NEW q \in Procs \ {p}, pc[q] = "write"
          PROVE  count'[found[q]][slot[q]] = count[found[q]][slot[q]]
      <4>1. PlacedOf(q)
        BY <2>1
      <4>2. found[q] \in tree
        BY <3>3, <4>1 DEF PlacedOf
      <4> QED BY <3>1, <4>2
    <3> QED BY <1>3, <2>1, <2>2, <2>4, <3>1, <3>2, <3>3
  <2>5. \/ UNCHANGED shared /\ pc'[p] = "out"
        \/ \E n \in Nodes \ tree :
             /\ tree' = tree \union {n} /\ key' = [key EXCEPT ![n] = arg[p]]
             /\ count' = [count EXCEPT ![n] = [s \in Slots |-> 0]]
             /\ found'[p] = n /\ pc'[p] = "downgrade"
    BY <1>0, <1>7 DEF Insert, TypeOK
  <2> QED BY <2>3, <2>4, <2>5
<1>8. ASSUME NEW p \in Procs, MapNode(p) PROVE \A q \in Procs : PlacedOf(q)'
  <2>1. UNCHANGED <<tree, key, count, cached, read, arg, found, control>>
        /\ pc[p] = "map" /\ pc'[p] = "lock"
        /\ \A q \in Procs \ {p} : pc'[q] = pc[q] /\ slot'[q] = slot[q]
    BY <1>0, <1>8 DEF MapNode, TypeOK, shared, mine, history
  <2>2. PlacedOf(p) /\ ~Delete(p) /\ ~Reset(p)
    BY <1>2, <2>1
  <2>3. PlacedOf(p)'
    BY <2>1, <2>2 DEF PlacedOf
  <2> QED BY <1>3, <2>1, <2>2, <2>3
<1>9. ASSUME NEW p \in Procs, ReadCount(p) PROVE \A q \in Procs : PlacedOf(q)'
  <2>1. UNCHANGED <<tree, key, count, cached, slot, arg, found, control>>
        /\ pc[p] = "lock" /\ pc'[p] = "write"
        /\ read'[p] = count[found[p]][slot[p]]
        /\ \A q \in Procs \ {p} : pc'[q] = pc[q] /\ read'[q] = read[q]
    BY <1>0, <1>9 DEF ReadCount, TypeOK, shared, own, history
  <2>2. PlacedOf(p) /\ ~Delete(p) /\ ~Reset(p)
    BY <1>2, <2>1
  <2>3. PlacedOf(p)'
    BY <2>1, <2>2 DEF PlacedOf
  <2> QED BY <1>3, <2>1, <2>2, <2>3
<1>10. ASSUME NEW p \in Procs, WriteCount(p) PROVE \A q \in Procs : PlacedOf(q)'
  <2>1. UNCHANGED <<tree, key, slot, arg, found, control>>
        /\ pc[p] = "write" /\ pc'[p] = "out" /\ cached'[p] = found[p]
        /\ count' = [count EXCEPT ![found[p]][slot[p]] = read[p] + 1]
        /\ \A q \in Procs \ {p} :
             pc'[q] = pc[q] /\ read'[q] = read[q] /\ cached'[q] = cached[q]
    BY <1>0, <1>10 DEF WriteCount, TypeOK, history
  <2>2. PlacedOf(p) /\ ~Delete(p) /\ ~Reset(p)
    BY <1>2, <2>1
  <2>3. PlacedOf(p)'
    BY <2>1, <2>2 DEF PlacedOf
  <2>4. ASSUME NEW q \in Procs \ {p}, pc[q] = "write"
        PROVE  count'[found[q]][slot[q]] = count[found[q]][slot[q]]
    <3>1. found[q] # found[p] \/ slot[q] # slot[p]
      BY <2>1, <2>4, WritersApart DEF MySlot
    <3>2. found[q] \in Nodes /\ slot[q] \in Slots /\ found[p] \in Nodes /\ slot[p] \in Slots
      BY <2>1, <2>4 DEF ZoneInv, Holds
    <3> QED BY <1>0, <2>1, <3>1, <3>2 DEF TypeOK
  <2> QED BY <1>3, <2>1, <2>2, <2>3, <2>4
<1>11. ASSUME NEW p \in Procs, Return(p) PROVE \A q \in Procs : PlacedOf(q)'
  <2>1. UNCHANGED <<tree, key, count, slot, cached, read, control>> /\ pc'[p] = "idle"
        /\ \A q \in Procs \ {p} : pc'[q] = pc[q] /\ found'[q] = found[q] /\ arg'[q] = arg[q]
    BY <1>0, <1>11 DEF Return, TypeOK, shared, own, history
  <2>2. PlacedOf(p) /\ ~Delete(p) /\ ~Reset(p)
    BY <1>2, <2>1
  <2>3. PlacedOf(p)'
    BY <2>1, <2>2 DEF PlacedOf
  <2> QED BY <1>3, <2>1, <2>2, <2>3
<1>12. ASSUME NEW p \in Procs, Die(p) PROVE \A q \in Procs : PlacedOf(q)'
  BY <1>12 DEF Die, shared, own, mine, PlacedOf
<1>13. ASSUME NEW p \in Procs, DeleteNode(p) \/ ResetNode(p) PROVE FALSE
  <2>1. control' = control /\ pc[p] \in {"delete", "reset"}
    BY <1>13 DEF DeleteNode, ResetNode, history
  <2> QED BY <2>1 DEF PlacedOf
<1> QED BY <1>1, <1>2, <1>4, <1>5, <1>6, <1>7, <1>8, <1>9, <1>10, <1>11, <1>12, <1>13, NextCases

-----------------------------------------------------------------------------
(* The sum over the node of a key, and how a step changes it.              *)
LEMMA SumOfNode ==
  ASSUME NEW c, NEW M, \A m, n \in M : m = n, \A m \in M, s \in Slots : c[m][s] \in Nat
  PROVE  /\ IsFiniteSet(M \X Slots) /\ At2(c, M \X Slots) \in [M \X Slots -> Nat]
         /\ SumOver(c, M \X Slots) = Sum(At2(c, M \X Slots), M \X Slots)
<1>1. \A ns \in M \X Slots : c[ns[1]][ns[2]] \in Nat
  OBVIOUS
<1>2. IsFiniteSet(M \X Slots)
  BY PlacesFinite
<1>3. At2(c, M \X Slots) \in [M \X Slots -> Nat]
  BY <1>1 DEF At2
<1> QED BY <1>1, <1>2, <1>3, SumOverSum

Tables == [Nodes -> [Slots -> Nat]]

LEMMA SumUnchanged ==
  ASSUME NEW c \in Tables, NEW d \in Tables, NEW M \in SUBSET Nodes,
         \A m, n \in M : m = n, \A m \in M, s \in Slots : d[m][s] = c[m][s]
  PROVE  SumOver(d, M \X Slots) = SumOver(c, M \X Slots)
<1>1. At2(d, M \X Slots) = At2(c, M \X Slots)
  BY DEF At2
<1>2. SumOver(c, M \X Slots) = Sum(At2(c, M \X Slots), M \X Slots)
  <2>1. \A m \in M, s \in Slots : c[m][s] \in Nat
    BY DEF Tables
  <2> QED BY <2>1, SumOfNode
<1>3. SumOver(d, M \X Slots) = Sum(At2(d, M \X Slots), M \X Slots)
  <2>1. \A m \in M, s \in Slots : d[m][s] \in Nat
    BY DEF Tables
  <2> QED BY <2>1, SumOfNode
<1> QED BY <1>1, <1>2, <1>3

LEMMA SumOneMore ==
  ASSUME NEW c \in Tables, NEW d \in Tables, NEW M \in SUBSET Nodes,
         \A m, n \in M : m = n, NEW node \in M, NEW place \in Slots,
         d[node][place] = c[node][place] + 1,
         \A m \in M, s \in Slots : m # node \/ s # place => d[m][s] = c[m][s]
  PROVE  SumOver(d, M \X Slots) = SumOver(c, M \X Slots) + 1
<1>1. PICK P : P = M \X Slots
  OBVIOUS
<1>2. PICK f : f = At2(c, P)
  OBVIOUS
<1>3. PICK g : g = At2(d, P)
  OBVIOUS
<1>4. PICK y \in P : y = <<node, place>>
  BY <1>1
<1>5. ASSUME NEW x \in P PROVE g[x] = IF x = y THEN f[x] + 1 ELSE f[x]
  <2>1. x[1] \in M /\ x[2] \in Slots /\ x = <<x[1], x[2]>>
    BY <1>1
  <2>2. g[x] = d[x[1]][x[2]] /\ f[x] = c[x[1]][x[2]]
    BY <1>2, <1>3 DEF At2
  <2>3. x = y <=> x[1] = node /\ x[2] = place
    BY <1>4, <2>1
  <2> QED BY <2>1, <2>2, <2>3
<1>6. \A m \in M, s \in Slots : c[m][s] \in Nat /\ d[m][s] \in Nat
  BY DEF Tables
<1>7. /\ IsFiniteSet(P) /\ f \in [P -> Nat] /\ g \in [P -> Nat]
      /\ SumOver(c, P) = Sum(f, P) /\ SumOver(d, P) = Sum(g, P)
  BY <1>1, <1>2, <1>3, <1>6, SumOfNode
<1> QED BY <1>1, <1>5, <1>7, SumMore

LEMMA SumOfZeros ==
  ASSUME NEW c, NEW M, \A m, n \in M : m = n, \A m \in M, s \in Slots : c[m][s] = 0
  PROVE  SumOver(c, M \X Slots) = 0
<1>1. PICK P : P = M \X Slots
  OBVIOUS
<1>2. PICK f : f = At2(c, P)
  OBVIOUS
<1>3. \A m \in M, s \in Slots : c[m][s] \in Nat
  OBVIOUS
<1>4. IsFiniteSet(P) /\ f \in [P -> Nat] /\ SumOver(c, P) = Sum(f, P)
  BY <1>1, <1>2, <1>3, SumOfNode
<1>5. \A x \in P : f[x] = 0
  BY <1>1, <1>2 DEF At2
<1>6. Sum(f, P) = 0
  BY <1>4, <1>5, SumZero
<1> QED BY <1>1, <1>4, <1>6

NodesOf(k) == {n \in tree : key[n] = k}

LEMMA CountedNext ==
  ASSUME ZoneInv, OneNodePerKey, Missing, Placed, Counted, [Next]_vars
  PROVE  Counted'
<1> SUFFICES ASSUME control' = 0, NEW k \in Keys PROVE Total(k)' = done'[k]
  BY DEF Counted
<1> USE DEF At, Goto
<1>0. TypeOK
  BY DEF ZoneInv
<1>1. PICK M : M = NodesOf(k)
  OBVIOUS
<1>2. /\ M \subseteq tree /\ M \in SUBSET Nodes /\ \A m, n \in M : m = n
      /\ \A m \in M : key[m] = k
  BY <1>0, <1>1 DEF NodesOf, OneNodePerKey, TypeOK
<1>11. count \in Tables /\ count' \in Tables
  BY TypeNext DEF ZoneInv, TypeOK, Tables
<1>3. control' = control => control = 0 /\ SumOver(count, M \X Slots) = done[k]
  BY <1>1 DEF Counted, Total, NodesOf
<1>4. CASE UNCHANGED <<tree, key, count, done>> /\ control' = control
  BY <1>1, <1>3, <1>4 DEF Total, NodesOf
<1>5. ASSUME NEW p \in Procs, Insert(p), ~UNCHANGED shared PROVE Total(k)' = done'[k]
  <2>1. PICK n \in Nodes \ tree : /\ tree' = tree \union {n}
                                   /\ key' = [key EXCEPT ![n] = arg[p]]
                                   /\ count' = [count EXCEPT ![n] = [s \in Slots |-> 0]]
    BY <1>5 DEF Insert
  <2>2. /\ \A m \in tree : key'[m] = key[m] /\ count'[m] = count[m]
        /\ key'[n] = arg[p] /\ \A s \in Slots : count'[n][s] = 0
    BY <1>0, <2>1 DEF TypeOK
  <2>3. control' = control /\ done' = done /\ pc[p] = "insert"
    BY <1>5 DEF Insert, history
  <2>4. CASE k = arg[p]
    <3>1. M = {}
      BY <1>1, <2>3, <2>4 DEF Missing, NodesOf
    <3>2. NodesOf(k)' = {n}
      BY <2>1, <2>2, <2>4, <2>3 DEF Missing, NodesOf
    <3>3. SumOver(count', {n} \X Slots) = 0
      <4>1. PICK c : c = count'
        OBVIOUS
      <4>2. PICK N : N = {n}
        OBVIOUS
      <4>3. (\A a, b \in N : a = b) /\ \A m \in N, s \in Slots : c[m][s] = 0
        BY <2>2, <4>1, <4>2
      <4>4. SumOver(c, N \X Slots) = 0
        BY <4>3, SumOfZeros
      <4> QED BY <4>1, <4>2, <4>4
    <3>4. SumOver(count, M \X Slots) = 0
      BY <3>1, SumOfZeros
    <3> QED BY <1>3, <2>3, <3>2, <3>3, <3>4 DEF Total, NodesOf
  <2>5. CASE k # arg[p]
    <3>1. NodesOf(k)' = M
      BY <1>1, <2>1, <2>2, <2>5 DEF NodesOf
    <3>2. \A m \in M, s \in Slots : count'[m][s] = count[m][s]
      BY <1>2, <2>2
    <3>3. SumOver(count', M \X Slots) = SumOver(count, M \X Slots)
      <4>1. PICK c : c = count'
        OBVIOUS
      <4>2. PICK b : b = count
        OBVIOUS
      <4>3. \A m, l \in M : m = l
        BY <1>2
      <4>4. c \in Tables /\ b \in Tables /\ \A m \in M, s \in Slots : c[m][s] = b[m][s]
        BY <1>11, <3>2, <4>1, <4>2
      <4>5. SumOver(c, M \X Slots) = SumOver(b, M \X Slots)
        BY <1>2, <4>3, <4>4, SumUnchanged
      <4> QED BY <4>1, <4>2, <4>5
    <3> QED BY <1>3, <2>3, <3>1, <3>3 DEF Total, NodesOf
  <2> QED BY <2>4, <2>5
<1>6. ASSUME NEW p \in Procs, WriteCount(p) PROVE Total(k)' = done'[k]
  <2>1. /\ UNCHANGED <<tree, key, control>> /\ pc[p] = "write"
        /\ count' = [count EXCEPT ![found[p]][slot[p]] = read[p] + 1]
        /\ done' = [done EXCEPT ![arg[p]] = @ + 1]
    BY <1>6 DEF WriteCount, history
  <2>2. /\ found[p] \in tree /\ key[found[p]] = arg[p]
        /\ read[p] = count[found[p]][slot[p]]
    BY <1>3, <2>1 DEF Placed, PlacedOf
  <2>3. found[p] \in Nodes /\ slot[p] \in Slots
    BY <2>1 DEF ZoneInv, Holds
  <2>4. \A m \in Nodes, s \in Slots :
          count'[m][s] = IF m = found[p] /\ s = slot[p] THEN count[m][s] + 1 ELSE count[m][s]
    BY <1>0, <2>1, <2>2, <2>3 DEF TypeOK
  <2>5. M \subseteq Nodes /\ NodesOf(k)' = M
    BY <1>0, <1>1, <1>2, <2>1 DEF TypeOK, NodesOf
  <2>6. done \in [Keys -> Nat]
    BY <1>0 DEF TypeOK
  <2>7. CASE k = arg[p]
    <3>1. found[p] \in M
      BY <1>1, <2>2, <2>7 DEF NodesOf
    <3>2. SumOver(count', M \X Slots) = SumOver(count, M \X Slots) + 1
      <4>1. PICK c : c = count'
        OBVIOUS
      <4>2. PICK b : b = count
        OBVIOUS
      <4>3. PICK x, y : x = found[p] /\ y = slot[p]
        OBVIOUS
      <4>4. \A m \in M, s \in Slots : m # x \/ s # y => c[m][s] = b[m][s]
        BY <1>2, <2>4, <2>5, <4>1, <4>2, <4>3
      <4>5. /\ x \in M /\ y \in Slots /\ c \in Tables /\ b \in Tables
            /\ c[x][y] = b[x][y] + 1
        BY <1>11, <2>3, <2>4, <3>1, <4>1, <4>2, <4>3
      <4>6. \A m, l \in M : m = l
        BY <1>2
      <4>7. SumOver(c, M \X Slots) = SumOver(b, M \X Slots) + 1
        BY <1>2, <4>4, <4>5, <4>6, SumOneMore
      <4> QED BY <4>1, <4>2, <4>7
    <3>3. done'[k] = done[k] + 1
      BY <2>1, <2>6, <2>7
    <3> QED BY <1>3, <2>1, <2>5, <3>2, <3>3 DEF Total, NodesOf
  <2>8. CASE k # arg[p]
    <3>1. found[p] \notin M
      BY <1>2, <2>2, <2>8
    <3>2. \A m \in M, s \in Slots : count'[m][s] = count[m][s]
      BY <2>4, <2>5, <3>1
    <3>3. SumOver(count', M \X Slots) = SumOver(count, M \X Slots)
      <4>1. PICK c : c = count'
        OBVIOUS
      <4>2. PICK b : b = count
        OBVIOUS
      <4>3. \A m, l \in M : m = l
        BY <1>2
      <4>4. c \in Tables /\ b \in Tables /\ \A m \in M, s \in Slots : c[m][s] = b[m][s]
        BY <1>11, <3>2, <4>1, <4>2
      <4>5. SumOver(c, M \X Slots) = SumOver(b, M \X Slots)
        BY <1>2, <4>3, <4>4, SumUnchanged
      <4> QED BY <4>1, <4>2, <4>5
    <3>4. done'[k] = done[k]
      BY <2>1, <2>6, <2>8
    <3> QED BY <1>3, <2>1, <2>5, <3>3, <3>4 DEF Total, NodesOf
  <2> QED BY <2>7, <2>8
<1>7. CASE UNCHANGED vars
  BY <1>4, <1>7 DEF vars, shared, history
<1>8. ASSUME NEW p \in Procs, Delete(p) \/ Reset(p) PROVE FALSE
  BY <1>0, <1>8 DEF Delete, Reset, Control, TypeOK
<1>9. ASSUME NEW p \in Procs, DeleteNode(p) \/ ResetNode(p) PROVE FALSE
  <2>1. control' = control /\ pc[p] \in {"delete", "reset"}
    BY <1>9 DEF DeleteNode, ResetNode, history
  <2> QED BY <1>3, <2>1 DEF Placed, PlacedOf, Deleting
<1>10. ASSUME NEW p \in Procs,
              \/ AddNode(p) \/ Die(p) \/ UnlockZone(p) \/ RdLockZone(p) \/ Upgrade(p)
              \/ Insert(p) /\ UNCHANGED shared
              \/ MapNode(p) \/ ReadCount(p) \/ Return(p) \/ Redeem(p)
       PROVE  UNCHANGED <<tree, key, count, done>> /\ control' = control
  BY <1>10 DEF AddNode, Die, UnlockZone, RdLockZone, Upgrade, Insert, MapNode, ReadCount,
     Return, Redeem, Call, Move, shared, history
<1> QED BY <1>4, <1>5, <1>6, <1>7, <1>8, <1>9, <1>10, NextCases

(* No request is lost or counted twice: as long as nothing is deleted or   *)
(* reset, the counters of a key's node, of all slots, add up to its calls. *)
THEOREM CountedHolds == Spec => []Counted
<1>1. Init => OneNodePerKey /\ Missing /\ Placed /\ Counted
  <2>1. Init => OneNodePerKey /\ Missing /\ Placed
    BY DEF Init, OneNodePerKey, Missing, Placed, PlacedOf, Deleting
  <2>2. ASSUME Init PROVE Counted
    <3>1. ASSUME NEW k \in Keys PROVE Total(k) = 0
      <4>1. {n \in tree : key[n] = k} = {}
        BY <2>2 DEF Init
      <4>2. SumOver(count, {} \X Slots) = 0
        BY SumOfZeros
      <4> QED BY <4>1, <4>2 DEF Total
    <3> QED BY <2>2, <3>1 DEF Init, Counted
  <2> QED BY <2>1, <2>2
<1>2. ZoneInv /\ (OneNodePerKey /\ Missing /\ Placed /\ Counted) /\ [Next]_vars
      => (OneNodePerKey /\ Missing /\ Placed /\ Counted)'
  BY OneNodeNext, PlacedNext, CountedNext
<1> QED BY <1>1, <1>2, ZoneInvHolds, PTL DEF Spec

=============================================================================
