------------------------------- MODULE VtsZone -------------------------------
(***************************************************************************)
(* The shared zone of the traffic statistics: a tree with a node for every *)
(* key, which all workers look up, fill and count in.                      *)
(*                                                                         *)
(* The tree is read under the read lock of the zone and changed under its  *)
(* write lock; to get from one to the other a worker gives the lock up in  *)
(* between (njt_shrwlock_rd2wrlock(), njt_shrwlock_wr2rdlock()).  A node   *)
(* has njt_ncpu slots of counters, each with a lock of its own that is     *)
(* taken under the read lock of the zone; a worker always uses the same.   *)
(*                                                                         *)
(* What is read under a lock is read in the step that takes it, and what   *)
(* is written last in the step that gives it up: nothing else can change   *)
(* in between.  The memory of a node that has been deleted keeps its       *)
(* contents until it is allocated again; keys stand for their hashes.  One *)
(* of the types of node is modelled, in one location, and no LRU deletion, *)
(* which is off by default (filter_max_node).                              *)
(***************************************************************************)
EXTENDS Rwlock, FiniteSetsExt

CONSTANTS
  Zone,       \* the lock of the zone
  Nodes,      \* the places for a node in the zone
  NoNode,     \* NULL
  Keys,       \* what is counted
  NoKey,      \* no key
  NCpu,       \* njt_ncpu
  MaxCalls,   \* bound: calls
  MaxControl, \* bound: calls of the control interface
  MaxDead     \* bound: workers that die

Slots == 0 .. NCpu - 1
SlotLocks == Nodes \X Slots

ASSUME VtsZoneConstants ==
  /\ Locks = {Zone} \union SlotLocks /\ Zone \notin SlotLocks
  /\ NoNode \notin Nodes /\ NoKey \notin Keys /\ NCpu \in Nat \ {0}
  /\ {MaxCalls, MaxControl, MaxDead} \subseteq Nat

VARIABLES
  tree,     \* ctx->rbtree: the nodes that are linked
  key,      \* the key in the memory of each node
  count,    \* the counters of each slot of each node
  want,     \* shpool->rwlock.want: workers that have a slot
  slot,     \* njt_cpu_id of each worker, or -1
  cached,   \* vtscf->node_caches[type] of each worker
  pc, arg, found, read,   \* where a worker is: its key, its node, its copy
  dead,     \* workers that died
  calls, control,         \* calls so far, and those that delete or reset
  done      \* times each key has been counted: not in the code

shared == <<tree, key, count>>
own == <<want, slot, cached>>
mine == <<arg, found, read>>
history == <<dead, calls, control>>
vars == <<rwVars, shared, own, pc, mine, history, done>>

(* Labels of shm_add_node(), of the deletion and of the reset.             *)
Labels == {"idle", "release", "upgrade", "insert", "downgrade", "reread", "map",
           "lock", "write", "out"}
          \union {"yield", "redeem", "delete", "settle", "return", "reset"}

Init ==
  /\ RwInit
  /\ tree = {} /\ key = [n \in Nodes |-> NoKey]
  /\ count = [n \in Nodes |-> [s \in Slots |-> 0]]
  /\ want = 0 /\ slot = [p \in Procs |-> -1]
  /\ cached = [p \in Procs |-> NoNode] /\ pc = [p \in Procs |-> "idle"]
  /\ arg = [p \in Procs |-> NoKey]
  /\ found = [p \in Procs |-> NoNode] /\ read = [p \in Procs |-> 0]
  /\ dead = {} /\ calls = 0 /\ control = 0
  /\ done = [k \in Keys |-> 0]

At(p, label) == pc[p] = label /\ p \notin dead
Goto(p, label) == pc' = [pc EXCEPT ![p] = label]

(* njt_http_vhost_traffic_status_node_lookup() and _find_node(), which     *)
(* prefers the node it found last.                                         *)
Lookup(k) ==
  IF \E n \in tree : key[n] = k THEN CHOOSE n \in tree : key[n] = k ELSE NoNode
FindNode(p, k) ==
  IF cached[p] # NoNode /\ key[cached[p]] = k THEN cached[p] ELSE Lookup(k)

-----------------------------------------------------------------------------
(* Every call begins with the read lock and the node of its key.           *)
Call(p, k, node, label) ==
  /\ At(p, "idle") /\ calls < MaxCalls /\ calls' = calls + 1
  /\ RdLock(p, Zone) /\ Goto(p, label)
  /\ arg' = [arg EXCEPT ![p] = k] /\ found' = [found EXCEPT ![p] = node]
  /\ UNCHANGED <<shared, own, read, dead, done>>

(* It ends with the unlocking; what it knew is forgotten.                  *)
Return(p) ==
  /\ At(p, "out") /\ Unlock(p, Zone) /\ Goto(p, "idle")
  /\ arg' = [arg EXCEPT ![p] = NoKey] /\ found' = [found EXCEPT ![p] = NoNode]
  /\ UNCHANGED <<shared, own, read, history, done>>

(* The zone is unlocked, or locked, on the way: the halves of rd2wrlock    *)
(* and of wr2rdlock.                                                       *)
Move(p, from, to) ==
  /\ At(p, from) /\ Goto(p, to)
  /\ UNCHANGED <<shared, own, mine, history, done>>
UnlockBefore(p) ==          \* mutant: what was locked for writing stays so
  \/ Unlock(p, Zone) /\ (Move(p, "release", "upgrade") \/ Move(p, "yield", "redeem"))
  \/ UNCHANGED rwVars /\ (Move(p, "downgrade", "reread") \/ Move(p, "settle", "return"))
UnlockZone(p) ==
  /\ Unlock(p, Zone)
  /\ \/ Move(p, "release", "upgrade") \/ Move(p, "downgrade", "reread")
     \/ Move(p, "yield", "redeem") \/ Move(p, "settle", "return")
RdLockZone(p) ==
  /\ RdLock(p, Zone)
  /\ Move(p, "reread", "map") \/ Move(p, "return", "out")

(* njt_http_vhost_traffic_status_shm_add_node(), for every request.        *)
AddNode(p) ==
  /\ \E k \in Keys : LET n == FindNode(p, k) IN
       Call(p, k, n, IF n = NoNode THEN "release" ELSE "map")
  /\ UNCHANGED control

UpgradeBlindly(p) ==        \* mutant: the node is still missing, surely
  Move(p, "upgrade", "insert") /\ WrLock(p, Zone)
Upgrade(p) ==               \* ... and it is looked up again
  /\ At(p, "upgrade") /\ WrLock(p, Zone)
  /\ LET n == FindNode(p, arg[p]) IN
       /\ found' = [found EXCEPT ![p] = n]
       /\ Goto(p, IF n = NoNode THEN "insert" ELSE "downgrade")
  /\ UNCHANGED <<shared, own, arg, read, history, done>>

(* njt_slab_calloc_locked() finds a place, or there is none and the call   *)
(* ends there.  The locks of the slots are zeroed with the node.           *)
Zeroed(n) == [l \in Locks |-> IF l \in {n} \X Slots THEN Free[l] ELSE word[l]]
Insert(p) ==
  /\ At(p, "insert")
  /\ \/ \E n \in Nodes \ tree :
          /\ word' = Zeroed(n) /\ UNCHANGED hold
          /\ tree' = tree \union {n} /\ key' = [key EXCEPT ![n] = arg[p]]
          /\ count' = [count EXCEPT ![n] = [s \in Slots |-> 0]]
          /\ found' = [found EXCEPT ![p] = n]
          /\ Goto(p, "downgrade")
     \/ Nodes \subseteq tree /\ Goto(p, "out") /\ UNCHANGED <<rwVars, shared, found>>
  /\ UNCHANGED <<own, arg, read, history, done>>

(* njt_http_vhost_traffic_status_map_node().                               *)
MapNode(p) ==
  /\ At(p, "map") /\ Goto(p, "lock")
  /\ \/ slot[p] # -1 /\ UNCHANGED <<want, slot>>
     \/ /\ slot[p] = -1
        /\ slot' = [slot EXCEPT ![p] = want % NCpu] /\ want' = want + 1
  /\ UNCHANGED <<rwVars, shared, cached, mine, history, done>>

(* njt_http_vhost_traffic_status_node_set(), _node_init_update(): a        *)
(* counter is read and then written, under the lock of the slot.           *)
MySlot(p) == <<found[p], slot[p]>>
ReadCountShared(p) ==       \* mutant: the slot is locked for reading
  /\ At(p, "lock") /\ RdLock(p, MySlot(p)) /\ Goto(p, "write")
  /\ read' = [read EXCEPT ![p] = count[found[p]][slot[p]]]
  /\ UNCHANGED <<shared, own, arg, found, history, done>>
ReadCount(p) ==
  /\ At(p, "lock") /\ WrLock(p, MySlot(p)) /\ Goto(p, "write")
  /\ read' = [read EXCEPT ![p] = count[found[p]][slot[p]]]
  /\ UNCHANGED <<shared, own, arg, found, history, done>>
WriteCount(p) ==
  /\ At(p, "write") /\ Unlock(p, MySlot(p)) /\ Goto(p, "out")
  /\ count' = [count EXCEPT ![found[p]][slot[p]] = read[p] + 1]
  /\ read' = [read EXCEPT ![p] = 0]
  /\ cached' = [cached EXCEPT ![p] = found[p]]
  /\ done' = [done EXCEPT ![arg[p]] = @ + 1]
  /\ UNCHANGED <<tree, key, want, slot, arg, found, history>>

-----------------------------------------------------------------------------
Control == control < MaxControl /\ control' = control + 1

(* njt_http_vhost_traffic_status_node_delete_zone(): looked up under the   *)
(* read lock, deleted under the write lock, without another look.          *)
Delete(p) == Control /\ \E k \in Keys : Call(p, k, Lookup(k), "yield")
Redeem(p) == Move(p, "redeem", "delete") /\ WrLock(p, Zone)
DeleteNode(p) ==
  /\ At(p, "delete") /\ Goto(p, "settle")
  /\ tree' = tree \ {found[p]}
  /\ UNCHANGED <<rwVars, key, count, own, mine, history, done>>

(* njt_http_vhost_traffic_status_node_reset_zone(): all slots are zeroed   *)
(* under the read lock, and not under theirs.                              *)
Reset(p) == Control /\ \E k \in Keys : Call(p, k, Lookup(k), "reset")
ResetNode(p) ==
  /\ At(p, "reset") /\ Goto(p, "out")
  /\ count' = [n \in Nodes |-> IF n = found[p] THEN [s \in Slots |-> 0] ELSE count[n]]
  /\ UNCHANGED <<rwVars, tree, key, own, mine, history, done>>

(* A worker dies, and another one takes its place.  The master looks for   *)
(* its pid in the word, which is never a pid: the lock stays as it is.     *)
Die(p) ==
  /\ p \notin dead /\ pc[p] # "idle" /\ Cardinality(dead) < MaxDead
  /\ dead' = dead \union {p}
  /\ UNCHANGED <<rwVars, shared, own, pc, mine, calls, control, done>>

Step(p) ==
  \/ UnlockZone(p) \/ RdLockZone(p) \/ Upgrade(p) \/ Insert(p) \/ MapNode(p)
  \/ ReadCount(p) \/ WriteCount(p) \/ Return(p)
  \/ Redeem(p) \/ DeleteNode(p) \/ ResetNode(p)

Next == \E p \in Procs : AddNode(p) \/ Delete(p) \/ Reset(p) \/ Step(p) \/ Die(p)

Spec == Init /\ [][Next]_vars

(* A worker that has begun goes on, and does not lose the word to others   *)
(* for ever.                                                               *)
FairSpec == Spec /\ \A p \in Procs : WF_vars(Step(p))

-----------------------------------------------------------------------------
(* Nodes, counters and workers have their types.                           *)
TypeOK ==
  /\ RwTypeOK
  /\ tree \subseteq Nodes /\ key \in [Nodes -> Keys \union {NoKey}]
  /\ count \in [Nodes -> [Slots -> Nat]]
  /\ want \in Nat /\ slot \in [Procs -> Slots \union {-1}]
  /\ cached \in [Procs -> Nodes \union {NoNode}] /\ pc \in [Procs -> Labels]
  /\ arg \in [Procs -> Keys \union {NoKey}] /\ found \in [Procs -> Nodes \union {NoNode}]
  /\ read \in [Procs -> Nat] /\ dead \subseteq Procs
  /\ calls \in Nat /\ control \in Nat /\ done \in [Keys -> Nat]

(* A key has one node, although every worker that misses it gives its read *)
(* lock up before it may insert it.                                        *)
OneNodePerKey == \A m, n \in tree : key[m] = key[n] => m = n

(* No request is counted twice, in the wrong node or not at all, by        *)
(* however many workers a slot is shared, until something is deleted or    *)
(* reset: then a worker may count in a node that is gone, or write back    *)
(* what it had read before the reset.                                      *)
SumOver(counters, places) == MapThenSumSet(LAMBDA ns : counters[ns[1]][ns[2]], places)
Total(k) == SumOver(count, {n \in tree : key[n] = k} \X Slots)
Counted ==
  control = 0 => \A k \in Keys : Total(k) = done[k]

(* Once a worker has died that held the lock of the zone, the tree is      *)
(* frozen: nobody changes it under a reader that may be at it still, or    *)
(* goes on with what a writer has left half done.                          *)
TreeFrozen ==
  [][(\E p \in dead : hold[Zone][p] # "none") => UNCHANGED tree]_vars

(* Every call comes to its end, although two that have to change the tree  *)
(* wait for each other's read locks, until somebody dies.                  *)
Served == \A p \in Procs : pc[p] # "idle" ~> (pc[p] = "idle" \/ dead # {})
=============================================================================
