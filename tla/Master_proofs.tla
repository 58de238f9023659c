--------------------------- MODULE Master_proofs ---------------------------
(***************************************************************************)
(* What Master.tla promises for every number of slots, pids, workers,      *)
(* helpers, crashes, failed forks and reloads: its variables keep their    *)
(* types, and the master never loses a child.                              *)
(***************************************************************************)
EXTENDS Master, FiniteSetTheorems, SequenceTheorems, TLAPS

-----------------------------------------------------------------------------
(* Type correctness.                                                       *)

(* A batch of worker requests is a sequence of requests.                   *)
LEMMA WorkerRequestsType ==
  ASSUME NEW n \in Nat, NEW just \in BOOLEAN
  PROVE  WorkerRequests(n, just) \in Seq(Requests)
BY DEF WorkerRequests, Request, Requests, Names

(* So is a batch of helper requests.                                       *)
LEMMA HelperRequestsType ==
  ASSUME NEW n \in Nat, NEW reload \in BOOLEAN
  PROVE  HelperRequests(n, reload) \in Seq(Requests)
BY DEF HelperRequests, Request, Requests, Names

(* And the request, if any, for the privileged agent.                      *)
LEMMA AgentRequestsType == AgentRequests \in Seq(Requests)
BY MasterConstants DEF AgentRequests, Request, Requests, Names

(* The start-up state is well typed.                                       *)
LEMMA InitType == Init => TypeOK
<1> SUFFICES ASSUME Init PROVE TypeOK
  OBVIOUS
<1> USE MasterConstants DEF Init
<1>1. processes \in [Slots -> Slot] /\ os \in [Pids -> Process]
  BY DEF FreeSlot, NoProcess, Slot, Process, Slots, Pids, NoPid, NoData, Names, States
<1>2. todo \in Seq(Requests)
  <2> DEFINE w == WorkerRequests(ccf, FALSE)
             k == HelperRequests(NKeep, FALSE)
             r == HelperRequests(NReload, TRUE)
  <2>1. w \in Seq(Requests)
    BY WorkerRequestsType
  <2>2. k \in Seq(Requests) /\ r \in Seq(Requests)
    BY HelperRequestsType
  <2>3. todo = w \o k \o r \o AgentRequests
    OBVIOUS
  <2> HIDE DEF w, k, r
  <2>4. w \o k \in Seq(Requests)
    BY <2>1, <2>2, ConcatProperties, Zenon
  <2>5. w \o k \o r \in Seq(Requests)
    BY <2>2, <2>4, ConcatProperties, Zenon
  <2> QED
    BY <2>3, <2>5, AgentRequestsType, ConcatProperties, Zenon
<1>3. /\ last \in 0..MaxProcesses /\ shrink \subseteq Pids /\ shrinkFinish \in Nat
  OBVIOUS
<1>4. CountType
  BY DEF CountType, Budgets
<1>5. ControlType
  BY DEF ControlType, Labels
<1> QED
  BY <1>1, <1>2, <1>3, <1>4, <1>5 DEF TypeOK, TableType

(* What the helpers of the actions do to the types, once for all actions.  *)

(* The slots and processes that njt_spawn_process() writes are well typed. *)
LEMMA SlotTypes ==
  /\ FreeSlot \in Slot /\ NoProcess \in Process
  /\ \A p \in Pids, r \in Requests : gen \in Nat => Spawned(p, r) \in Slot
  /\ \A n \in Names, g \in Nat : [st |-> "run", name |-> n, gen |-> g] \in Process
<1>1. FreeSlot \in Slot /\ NoProcess \in Process
  BY DEF FreeSlot, NoProcess, Slot, Process, NoPid, NoData, Names, States
<1>2. ASSUME NEW p \in Pids, NEW r \in Requests, gen \in Nat
      PROVE  Spawned(p, r) \in Slot
  BY <1>2 DEF Spawned, Slot, Requests, NoData
<1>3. \A n \in Names, g \in Nat : [st |-> "run", name |-> n, gen |-> g] \in Process
  BY DEF Process, States
<1> QED
  BY <1>1, <1>2, <1>3

(* What njt_save_pids_to_kv() saves is a set of pids.                      *)
LEMMA SavedPidsType == TypeOK => SavedPids \subseteq Pids
BY DEF TypeOK, TableType, SavedPids, WorkerSlots, Held, Slot, NoPid

(* A failed fork costs at most one unit of its bound.                      *)
LEMMA ForkFailsType ==
  TypeOK /\ ForkFails => budget' \in Budgets
BY DEF TypeOK, CountType, ForkFails, Budgets

(* Spending a unit of a bound leaves a budget.                             *)
LEMMA BudgetType ==
  TypeOK =>
    /\ budget.crash > 0 => [budget EXCEPT !.crash = @ - 1] \in Budgets
    /\ budget.set > 0 => [budget EXCEPT !.set = @ - 1] \in Budgets
    /\ budget.refuse > 0 => [budget EXCEPT !.refuse = @ - 1] \in Budgets
<1>1. TypeOK => budget \in Budgets
  BY DEF TypeOK, CountType
<1>2. ASSUME budget \in Budgets, budget.crash > 0
      PROVE  [budget EXCEPT !.crash = @ - 1] \in Budgets
  BY <1>2 DEF Budgets
<1>3. ASSUME budget \in Budgets, budget.set > 0
      PROVE  [budget EXCEPT !.set = @ - 1] \in Budgets
  BY <1>3 DEF Budgets
<1>4. ASSUME budget \in Budgets, budget.refuse > 0
      PROVE  [budget EXCEPT !.refuse = @ - 1] \in Budgets
  BY <1>4 DEF Budgets
<1> QED
  BY <1>1, <1>2, <1>3, <1>4

(* A Shrink frees worker slots and leaves njt_last_process in range.       *)
LEMMA ShrinkType ==
  ASSUME TypeOK, NEW V \in SUBSET WorkerSlots,
         NEW l \in 0..MaxProcesses, last' = l, Shrink(V)
  PROVE  TableType'
<1> USE DEF TypeOK, TableType, Shrink, Remove
<1>1. processes' \in [Slots -> Slot]
  BY SlotTypes
<1>2. shrink' \subseteq Pids
  BY DEF WorkerSlots, Held, Slot, NoPid
<1>3. os' \in [Pids -> Process]
  BY DEF Process, States, Asked
<1> QED
  BY <1>1, <1>2, <1>3

(* njt_update_worker_processes(), in all three cases, keeps the types.     *)
LEMMA UpdateWorkersType ==
  ASSUME TypeOK, NEW c \in Nat \ {0}, NEW next \in Labels, NEW skip \in Labels,
         UpdateWorkers(c, next, skip)
  PROVE  /\ TableType' /\ todo' \in Seq(Requests) /\ ccf' \in Nat \ {0}
         /\ pc' \in Labels /\ ret' \in Labels
<1>1. ccf' \in Nat \ {0} /\ pc' \in Labels /\ ret' \in Labels
  BY DEF UpdateWorkers, TypeOK, CountType, Labels
<1>2. CASE UNCHANGED <<table, shrinkVars, os>> /\ todo' = <<>>
  BY <1>1, <1>2 DEF TypeOK, TableType, table, shrinkVars
<1>3. CASE /\ c > ccf /\ UNCHANGED <<table, shrinkVars, os>>
           /\ todo' = WorkerRequests(c - ccf, FALSE)
  <2>1. c - ccf \in Nat
    BY <1>3 DEF TypeOK, CountType
  <2>2. todo' \in Seq(Requests)
    BY <1>3, <2>1, WorkerRequestsType
  <2> QED
    BY <1>1, <1>3, <2>2 DEF TypeOK, TableType, table, shrinkVars
<1>4. CASE /\ todo' = <<>>
           /\ \E l \in 0..MaxProcesses : last' = l /\ Shrink(Victims(ccf - c))
  <2>1. Victims(ccf - c) \subseteq WorkerSlots
    BY DEF Victims
  <2>2. TableType'
    BY <1>4, <2>1, ShrinkType
  <2> QED
    BY <1>1, <1>4, <2>2
<1> QED
  BY <1>2, <1>3, <1>4 DEF UpdateWorkers

(* So does njt_check_and_update_worker_count().                            *)
LEMMA CheckCountType ==
  ASSUME TypeOK, NEW next \in Labels, NEW skip \in Labels, CheckCount(next, skip)
  PROVE  /\ TableType' /\ todo' \in Seq(Requests) /\ ccf' \in Nat \ {0}
         /\ kv' \in Nat /\ pc' \in Labels /\ ret' \in Labels
<1>1. CASE kv > 0 /\ UpdateWorkers(kv, next, skip) /\ UNCHANGED kv
  <2>1. kv \in Nat \ {0}
    BY <1>1 DEF TypeOK, CountType
  <2> QED
    BY <1>1, <2>1, UpdateWorkersType
<1>2. CASE /\ kv' = ccf /\ ret' = next /\ pc' = skip /\ todo' = <<>>
           /\ UNCHANGED <<table, shrinkVars, os, ccf>>
  BY <1>2 DEF TypeOK, TableType, CountType, table, shrinkVars
<1> QED
  BY <1>1, <1>2 DEF CheckCount

(* Telling processes to go changes their flags and their state only.       *)
LEMMA TellType ==
  ASSUME TypeOK, NEW T \in SUBSET Slots, NEW st \in [States -> States], Tell(T, st)
  PROVE  processes' \in [Slots -> Slot] /\ os' \in [Pids -> Process]
<1> USE DEF TypeOK, TableType
<1>1. \A s \in Slots : Marked(s) \in Slot
  BY DEF Marked, Gone, Slot
<1>2. \A s \in Slots : [processes[s] EXCEPT !.just = FALSE] \in Slot
  BY DEF Slot
<1>3. processes' \in [Slots -> Slot]
  BY <1>1, <1>2 DEF Tell
<1>4. os' \in [Pids -> Process]
  BY DEF Tell, Signalled, Process
<1> QED
  BY <1>3, <1>4

(* The two ways a signal changes a process stay within the process states. *)
LEMMA SignalTypes ==
  Quitting \in [States -> States] /\ Killed \in [States -> States]
BY DEF Quitting, Killed, Asked, States

(* njt_signal_worker_processes() keeps the types, whatever the signal.     *)
LEMMA SignalWorkersType ==
  ASSUME TypeOK, NEW sig \in {"QUIT", "TERM", "KILL"}, SignalWorkers(sig)
  PROVE  /\ processes' \in [Slots -> Slot] /\ os' \in [Pids -> Process]
         /\ flags' \subseteq Signals /\ pend' \subseteq Signals
<1> DEFINE T == {s \in Slots : /\ Held(s) /\ ~processes[s].just
                               /\ sig = "QUIT" => ~processes[s].exiting}
<1>1. Tell(T, IF sig = "KILL" THEN Killed ELSE Quitting)
  BY DEF SignalWorkers
<1>2. processes' \in [Slots -> Slot] /\ os' \in [Pids -> Process]
  BY <1>1, TellType, SignalTypes
<1>3. flags' \subseteq Signals /\ pend' \subseteq Signals
  BY DEF SignalWorkers, ReapIfGone, Signals, TypeOK, ControlType
<1> QED
  BY <1>2, <1>3

(* Every step keeps the types.                                             *)
LEMMA NextType == TypeOK /\ [Next]_vars => TypeOK'
<1> SUFFICES ASSUME TypeOK, [Next]_vars PROVE TypeOK'
  OBVIOUS
<1> USE MasterConstants
<1>1. CASE Spawn
  <2>0. Head(todo) \in Requests /\ Tail(todo) \in Seq(Requests)
    BY <1>1, HeadTailProperties DEF TypeOK, Spawn
  <2>1. TableType'
    <3>1. ASSUME NEW s \in Slots, NEW p \in Pids, FirstFreeSlot(s),
                 SpawnInto(s, p, Head(todo))
          PROVE  /\ processes' \in [Slots -> Slot] /\ last' \in 0..MaxProcesses
                 /\ os' \in [Pids -> Process]
      <4>1. Spawned(p, Head(todo)) \in Slot
        BY <2>0, SlotTypes DEF TypeOK, CountType
      <4>2. [st |-> "run", name |-> Head(todo).name, gen |-> gen] \in Process
        BY <2>0, SlotTypes DEF TypeOK, CountType, Requests
      <4> QED
        BY <3>1, <4>1, <4>2 DEF TypeOK, TableType, SpawnInto, FirstFreeSlot, Slots
    <3>2. CASE UNCHANGED <<table, os>>
      BY <1>1, <3>2 DEF TypeOK, TableType, Spawn, table, shrinkVars
    <3> QED
      BY <1>1, <3>1, <3>2 DEF TypeOK, TableType, Spawn, shrinkVars
  <2>2. CountType'
    BY <1>1, ForkFailsType DEF TypeOK, CountType, TableType, Spawn, table, shrinkVars, stopVars, masterVars, NextSlot
  <2>3. ControlType'
    BY <1>1 DEF TypeOK, ControlType, Spawn, table, shrinkVars, stopVars, masterVars, NextSlot, Labels, Signals, StopSignals
  <2>4. todo' \in Seq(Requests)
    BY <1>1, <2>0 DEF TypeOK, Spawn, table, shrinkVars, stopVars, masterVars, NextSlot
  <2> QED
    BY <2>1, <2>2, <2>3, <2>4 DEF TypeOK
<1>2. CASE SpawnDone
  <2>1. TableType'
    BY <1>2 DEF TypeOK, TableType, SpawnDone, table, shrinkVars, stopVars, masterVars, NextSlot, EndBatch
  <2>2. CountType'
    BY <1>2, SavedPidsType DEF TypeOK, CountType, TableType, SpawnDone, table, shrinkVars, stopVars, masterVars, NextSlot, EndBatch
  <2>3. ControlType'
    BY <1>2 DEF TypeOK, ControlType, SpawnDone, table, shrinkVars, stopVars, masterVars, NextSlot, EndBatch
  <2>4. todo' \in Seq(Requests)
    BY <1>2 DEF TypeOK, SpawnDone, table, shrinkVars, stopVars, masterVars, NextSlot, EndBatch
  <2> QED
    BY <2>1, <2>2, <2>3, <2>4 DEF TypeOK
<1>3. CASE Boot
  <2>0. /\ TableType' /\ todo' \in Seq(Requests) /\ ccf' \in Nat \ {0}
        /\ kv' \in Nat /\ pc' \in Labels /\ ret' \in Labels
    BY <1>3, CheckCountType DEF Boot, Labels
  <2>1. TableType'
    BY <1>3, <2>0 DEF TypeOK, TableType, Boot, table, shrinkVars, stopVars, masterVars, NextSlot
  <2>2. CountType'
    BY <1>3, <2>0 DEF TypeOK, CountType, TableType, Boot, table, shrinkVars, stopVars, masterVars, NextSlot
  <2>3. ControlType'
    BY <1>3, <2>0 DEF TypeOK, ControlType, Boot, table, shrinkVars, stopVars, masterVars, NextSlot
  <2>4. todo' \in Seq(Requests)
    BY <1>3, <2>0 DEF TypeOK, Boot, table, shrinkVars, stopVars, masterVars, NextSlot
  <2> QED
    BY <2>1, <2>2, <2>3, <2>4 DEF TypeOK
<1>4. CASE Top
  <2>1. TableType'
    BY <1>4 DEF TypeOK, TableType, Top, table, shrinkVars, stopVars, masterVars, NextSlot
  <2>2. CountType'
    BY <1>4 DEF TypeOK, CountType, TableType, Top, table, shrinkVars, stopVars, masterVars, NextSlot, NextDelay
  <2>3. ControlType'
    BY <1>4 DEF TypeOK, ControlType, Top, table, shrinkVars, stopVars, masterVars, NextSlot, Labels, Signals, StopSignals
  <2>4. todo' \in Seq(Requests)
    BY <1>4 DEF TypeOK, Top, table, shrinkVars, stopVars, masterVars, NextSlot
  <2> QED
    BY <2>1, <2>2, <2>3, <2>4 DEF TypeOK
<1>5. CASE Wake
  <2>0. Cardinality({p \in Dead : p \in shrink /\ ~InTable(p)}) \in Nat
    <3>1. IsFiniteSet(Pids)
      BY MasterConstants, FS_Interval DEF Pids
    <3> QED
      BY <3>1, FS_Subset, FS_CardinalityType DEF Dead
  <2>1. TableType'
    <3>1. CASE UNCHANGED <<processes, shrinkFinish, agentExited, os>>
      BY <1>5, <3>1 DEF TypeOK, TableType, Wake
    <3>2. CASE GetStatus
      <4>1. \A s \in Slots : [processes[s] EXCEPT
              !.exited = TRUE,
              !.respawn = @ /\ os[processes[s].pid].st # "fatal"] \in Slot
        BY DEF TypeOK, TableType, Slot
      <4>2. processes' \in [Slots -> Slot]
        BY <3>2, <4>1 DEF GetStatus, GetStatusOf, TypeOK, TableType
      <4>3. os' \in [Pids -> Process]
        BY <3>2, SlotTypes DEF GetStatus, GetStatusOf, TypeOK, TableType
      <4>4. shrinkFinish' \in Nat
        <5>1. shrinkFinish' = shrinkFinish
                 + Cardinality({p \in Dead : p \in shrink /\ ~InTable(p)})
          BY <3>2, Zenon DEF GetStatus, GetStatusOf
        <5> QED
          BY <5>1, <2>0 DEF TypeOK, TableType
      <4> QED
        BY <1>5, <4>2, <4>3, <4>4 DEF Wake, TypeOK, TableType
    <3> QED
      BY <1>5, <3>1, <3>2 DEF Wake
  <2>2. CountType'
    BY <1>5 DEF TypeOK, CountType, TableType, Wake, table, shrinkVars, stopVars, masterVars, NextSlot
  <2>3. ControlType'
    BY <1>5 DEF TypeOK, ControlType, Wake, table, shrinkVars, stopVars, masterVars, NextSlot, GetStatus, GetStatusOf, Labels, Signals, StopSignals
  <2>4. todo' \in Seq(Requests)
    BY <1>5 DEF TypeOK, Wake, table, shrinkVars, stopVars, masterVars, NextSlot
  <2> QED
    BY <2>1, <2>2, <2>3, <2>4 DEF TypeOK
<1>6. CASE ReapEmpty
  <2>1. TableType'
    BY <1>6 DEF TypeOK, TableType, ReapEmpty, table, shrinkVars, stopVars, masterVars, NextSlot
  <2>2. CountType'
    BY <1>6 DEF TypeOK, CountType, TableType, ReapEmpty, table, shrinkVars, stopVars, masterVars, NextSlot, Reaping
  <2>3. ControlType'
    BY <1>6 DEF TypeOK, ControlType, ReapEmpty, table, shrinkVars, stopVars, masterVars, NextSlot, Labels, Signals, StopSignals
  <2>4. todo' \in Seq(Requests)
    BY <1>6 DEF TypeOK, ReapEmpty, table, shrinkVars, stopVars, masterVars, NextSlot
  <2> QED
    BY <2>1, <2>2, <2>3, <2>4 DEF TypeOK
<1>7. CASE ReapLive
  <2>1. TableType'
    BY <1>7 DEF TypeOK, TableType, ReapLive, table, shrinkVars, stopVars, masterVars, NextSlot
  <2>2. CountType'
    BY <1>7 DEF TypeOK, CountType, TableType, ReapLive, table, shrinkVars, stopVars, masterVars, NextSlot, Reaping
  <2>3. ControlType'
    BY <1>7 DEF TypeOK, ControlType, ReapLive, table, shrinkVars, stopVars, masterVars, NextSlot, Labels, Signals, StopSignals
  <2>4. todo' \in Seq(Requests)
    BY <1>7 DEF TypeOK, ReapLive, table, shrinkVars, stopVars, masterVars, NextSlot
  <2> QED
    BY <2>1, <2>2, <2>3, <2>4 DEF TypeOK
<1>8. CASE ReapRespawn
  <2>0. idx <= last
    BY <1>8 DEF ReapRespawn, Reaping
  <2>1. TableType'
    <3>1. ASSUME NEW p \in Pids,
                 processes' = [processes EXCEPT ![idx].pid = p, ![idx].exited = FALSE],
                 os' = [os EXCEPT ![p] = [st |-> "run", name |-> processes[idx].name,
                                          gen |-> gen]]
          PROVE  processes' \in [Slots -> Slot] /\ os' \in [Pids -> Process]
      <4>1. idx \in Slots
        BY <2>0 DEF Slots, TypeOK, TableType, CountType
      <4>2. processes' \in [Slots -> Slot]
        <5>1. [processes[idx] EXCEPT !.pid = p, !.exited = FALSE] \in Slot
          BY <4>1 DEF TypeOK, TableType, Slot
        <5>2. processes' = [processes EXCEPT
                ![idx] = [processes[idx] EXCEPT !.pid = p, !.exited = FALSE]]
          BY <3>1, <4>1 DEF TypeOK, TableType, Slot
        <5> QED
          BY <5>1, <5>2 DEF TypeOK, TableType
      <4>3. os' \in [Pids -> Process]
        BY <3>1, <4>1, SlotTypes DEF TypeOK, TableType, CountType, Slot
      <4> QED
        BY <4>2, <4>3
    <3>2. CASE UNCHANGED <<processes, os>>
      BY <1>8, <3>2 DEF ReapRespawn, NextSlot, shrinkVars, TypeOK, TableType
    <3> QED
      BY <1>8, <3>1, <3>2 DEF ReapRespawn, NextSlot, shrinkVars, TypeOK, TableType
  <2>2. CountType'
    <3>1. budget' \in Budgets
      BY <1>8, ForkFailsType DEF ReapRespawn, TypeOK, CountType
    <3> QED
      <4>1. idx' = idx + 1 /\ UNCHANGED <<gen, ccf, kv, pidsKv, delay, sigio>>
        BY <1>8 DEF ReapRespawn, NextSlot, stopVars
      <4> QED
        BY <2>0, <3>1, <4>1 DEF TypeOK, CountType, TableType
  <2>3. ControlType'
    BY <1>8 DEF TypeOK, ControlType, ReapRespawn, table, shrinkVars, stopVars, masterVars, NextSlot, Labels, Signals, StopSignals
  <2>4. todo' \in Seq(Requests)
    BY <1>8 DEF TypeOK, ReapRespawn, table, shrinkVars, stopVars, masterVars, NextSlot
  <2> QED
    BY <2>1, <2>2, <2>3, <2>4 DEF TypeOK
<1>9. CASE ReapCrash
  <2>1. TableType'
    BY <1>9 DEF TypeOK, TableType, ReapCrash, table, shrinkVars, stopVars, masterVars, NextSlot
  <2>2. CountType'
    BY <1>9 DEF TypeOK, CountType, TableType, ReapCrash, table, shrinkVars, stopVars, masterVars, NextSlot, Reaping
  <2>3. ControlType'
    BY <1>9 DEF TypeOK, ControlType, ReapCrash, table, shrinkVars, stopVars, masterVars, NextSlot, Labels, Signals, StopSignals
  <2>4. todo' \in Seq(Requests)
    BY <1>9 DEF TypeOK, ReapCrash, table, shrinkVars, stopVars, masterVars, NextSlot
  <2> QED
    BY <2>1, <2>2, <2>3, <2>4 DEF TypeOK
<1>10. CASE ReapRelease
  <2>1. TableType'
    BY <1>10, SlotTypes DEF TypeOK, TableType, ReapRelease, table, shrinkVars, stopVars, masterVars, NextSlot, Reaping, Slots, CountType
  <2>2. CountType'
    BY <1>10 DEF TypeOK, CountType, TableType, ReapRelease, table, shrinkVars, stopVars, masterVars, NextSlot, Reaping
  <2>3. ControlType'
    BY <1>10 DEF TypeOK, ControlType, ReapRelease, table, shrinkVars, stopVars, masterVars, NextSlot, Labels, Signals, StopSignals
  <2>4. todo' \in Seq(Requests)
    BY <1>10 DEF TypeOK, ReapRelease, table, shrinkVars, stopVars, masterVars, NextSlot
  <2> QED
    BY <2>1, <2>2, <2>3, <2>4 DEF TypeOK
<1>11. CASE ReapEnd
  <2>0. \A s \in Slots, d \in {gen, NoData} :
          [processes[s] EXCEPT !.data = d] \in Slot
    BY DEF TypeOK, TableType, CountType, Slot
  <2>1. TableType'
    BY <1>11, <2>0 DEF TypeOK, TableType, ReapEnd, table, shrinkVars, stopVars, masterVars, NextSlot, RestartLater, RestartNow, StartHelpers
  <2>2. CountType'
    BY <1>11 DEF TypeOK, CountType, TableType, ReapEnd, table, shrinkVars, stopVars, masterVars, NextSlot
  <2>3. ControlType'
    BY <1>11 DEF TypeOK, ControlType, ReapEnd, table, shrinkVars, stopVars, masterVars, NextSlot, RestartLater, RestartNow, StartHelpers, Labels
  <2>4. todo' \in Seq(Requests)
    <3>1. CASE todo' = <<>>
      BY <3>1
    <3>2. CASE todo' = HelperRequests(NReload, TRUE)
      BY <3>2, HelperRequestsType
    <3> QED
      BY <1>11, <3>1, <3>2 DEF ReapEnd, RestartLater, RestartNow, StartHelpers
  <2> QED
    BY <2>1, <2>2, <2>3, <2>4 DEF TypeOK
<1>12. CASE Exit
  <2>1. TableType'
    BY <1>12 DEF TypeOK, TableType, Exit, table, shrinkVars, stopVars, masterVars, NextSlot
  <2>2. CountType'
    BY <1>12 DEF TypeOK, CountType, TableType, Exit, table, shrinkVars, stopVars, masterVars, NextSlot
  <2>3. ControlType'
    BY <1>12 DEF TypeOK, ControlType, Exit, table, shrinkVars, stopVars, masterVars, NextSlot, Labels, Signals, StopSignals
  <2>4. todo' \in Seq(Requests)
    BY <1>12 DEF TypeOK, Exit, table, shrinkVars, stopVars, masterVars, NextSlot
  <2> QED
    BY <2>1, <2>2, <2>3, <2>4 DEF TypeOK
<1>13. CASE Terminate
  <2>0. PICK sig \in {"QUIT", "TERM", "KILL"} :
          SignalWorkers(sig) \/ UNCHANGED <<processes, os, flags, pend>>
    BY <1>13 DEF Terminate
  <2>1. TableType'
    BY <1>13, <2>0, SignalWorkersType DEF TypeOK, TableType, Terminate, table, shrinkVars, stopVars, masterVars, NextSlot, SignalWorkers
  <2>2. CountType'
    BY <1>13 DEF TypeOK, CountType, TableType, Terminate, table, shrinkVars, stopVars, masterVars, NextSlot, SignalWorkers
  <2>3. ControlType'
    BY <1>13, <2>0, SignalWorkersType DEF TypeOK, ControlType, Terminate, table, shrinkVars, stopVars, masterVars, NextSlot, Labels
  <2>4. todo' \in Seq(Requests)
    BY <1>13 DEF TypeOK, Terminate, table, shrinkVars, stopVars, masterVars, NextSlot
  <2> QED
    BY <2>1, <2>2, <2>3, <2>4 DEF TypeOK
<1>14. CASE Quit
  <2>0. PICK sig \in {"QUIT", "TERM", "KILL"} :
          SignalWorkers(sig) \/ UNCHANGED <<processes, os, flags, pend>>
    BY <1>14 DEF Quit
  <2>1. TableType'
    BY <1>14, <2>0, SignalWorkersType DEF TypeOK, TableType, Quit, table, shrinkVars, stopVars, masterVars, NextSlot, SignalWorkers
  <2>2. CountType'
    BY <1>14 DEF TypeOK, CountType, TableType, Quit, table, shrinkVars, stopVars, masterVars, NextSlot, SignalWorkers
  <2>3. ControlType'
    BY <1>14, <2>0, SignalWorkersType DEF TypeOK, ControlType, Quit, table, shrinkVars, stopVars, masterVars, NextSlot, Labels
  <2>4. todo' \in Seq(Requests)
    BY <1>14 DEF TypeOK, Quit, table, shrinkVars, stopVars, masterVars, NextSlot
  <2> QED
    BY <2>1, <2>2, <2>3, <2>4 DEF TypeOK
<1>15. CASE Reconfigure
  <2>1. TableType'
    BY <1>15 DEF TypeOK, TableType, Reconfigure, table, shrinkVars, stopVars, masterVars, NextSlot
  <2>2. CountType'
    <3>1. budget' \in Budgets
      BY <1>15, BudgetType DEF Reconfigure, TypeOK, CountType
    <3>2. gen' \in Nat /\ ccf' \in Nat \ {0}
      <4>1. CASE UNCHANGED <<gen, ccf>>
        BY <4>1 DEF TypeOK, CountType
      <4>2. CASE gen' = gen + 1 /\ ccf' \in ConfCounts
        BY <4>2 DEF TypeOK, CountType
      <4> QED
        BY <1>15, <4>1, <4>2 DEF Reconfigure
    <3> QED
      BY <1>15, <3>1, <3>2 DEF Reconfigure, stopVars, TypeOK, CountType
  <2>3. ControlType'
    BY <1>15 DEF TypeOK, ControlType, Reconfigure, table, shrinkVars, stopVars, masterVars, NextSlot, Labels
  <2>4. todo' \in Seq(Requests)
    BY <1>15 DEF TypeOK, Reconfigure, table, shrinkVars, stopVars, masterVars, NextSlot
  <2> QED
    BY <2>1, <2>2, <2>3, <2>4 DEF TypeOK
<1>16. CASE Recount
  <2>0. /\ TableType' /\ todo' \in Seq(Requests) /\ ccf' \in Nat \ {0}
        /\ kv' \in Nat /\ pc' \in Labels /\ ret' \in Labels
    BY <1>16, CheckCountType DEF Recount, Labels
  <2>1. TableType'
    BY <1>16, <2>0 DEF TypeOK, TableType, Recount, table, shrinkVars, stopVars, masterVars, NextSlot
  <2>2. CountType'
    BY <1>16, <2>0 DEF TypeOK, CountType, TableType, Recount, table, shrinkVars, stopVars, masterVars, NextSlot
  <2>3. ControlType'
    BY <1>16, <2>0 DEF TypeOK, ControlType, Recount, table, shrinkVars, stopVars, masterVars, NextSlot
  <2>4. todo' \in Seq(Requests)
    BY <1>16, <2>0 DEF TypeOK, Recount, table, shrinkVars, stopVars, masterVars, NextSlot
  <2> QED
    BY <2>1, <2>2, <2>3, <2>4 DEF TypeOK
<1>17. CASE StartNew
  <2>1. TableType'
    BY <1>17 DEF TypeOK, TableType, StartNew, table, shrinkVars, stopVars, masterVars, NextSlot
  <2>2. CountType'
    BY <1>17 DEF TypeOK, CountType, TableType, StartNew, table, shrinkVars, stopVars, masterVars, NextSlot
  <2>3. ControlType'
    BY <1>17 DEF TypeOK, ControlType, StartNew, table, shrinkVars, stopVars, masterVars, NextSlot, Labels
  <2>4. todo' \in Seq(Requests)
    BY <1>17, WorkerRequestsType DEF TypeOK, StartNew, table, shrinkVars, stopVars, masterVars, NextSlot, CountType
  <2> QED
    BY <2>1, <2>2, <2>3, <2>4 DEF TypeOK
<1>18. CASE RestartCmd
  <2>0. PICK T \in SUBSET Slots :
          Tell(T, Quitting) /\ flags' = flags \union ReapIfGone(T)
    BY <1>18 DEF RestartCmd
  <2>1. TableType'
    BY <1>18, <2>0, TellType, SignalTypes DEF TypeOK, TableType, RestartCmd, table, shrinkVars, stopVars, masterVars, NextSlot
  <2>2. CountType'
    BY <1>18, SavedPidsType DEF TypeOK, CountType, TableType, RestartCmd, table, shrinkVars, stopVars, masterVars, NextSlot
  <2>3. ControlType'
    BY <1>18, <2>0 DEF TypeOK, ControlType, RestartCmd, table, shrinkVars, stopVars, masterVars, NextSlot, ReapIfGone, Labels, Signals
  <2>4. todo' \in Seq(Requests)
    BY <1>18 DEF TypeOK, RestartCmd, table, shrinkVars, stopVars, masterVars, NextSlot
  <2> QED
    BY <2>1, <2>2, <2>3, <2>4 DEF TypeOK
<1>19. CASE NoReload
  <2>1. TableType'
    BY <1>19 DEF TypeOK, TableType, NoReload, table, shrinkVars, stopVars, masterVars, NextSlot
  <2>2. CountType'
    BY <1>19 DEF TypeOK, CountType, TableType, NoReload, table, shrinkVars, stopVars, masterVars, NextSlot
  <2>3. ControlType'
    BY <1>19 DEF TypeOK, ControlType, NoReload, table, shrinkVars, stopVars, masterVars, NextSlot, Labels, Signals, StopSignals
  <2>4. todo' \in Seq(Requests)
    BY <1>19 DEF TypeOK, NoReload, table, shrinkVars, stopVars, masterVars, NextSlot
  <2> QED
    BY <2>1, <2>2, <2>3, <2>4 DEF TypeOK
<1>20. CASE RuntimeCount
  <2>0. /\ TableType' /\ todo' \in Seq(Requests) /\ ccf' \in Nat \ {0}
        /\ pc' \in Labels /\ ret' \in Labels
    <3>1. CASE kv > 0 /\ UpdateWorkers(kv, "agent", "agent")
      BY <3>1, UpdateWorkersType DEF TypeOK, CountType, Labels
    <3>2. CASE pc' = "agent" /\ UNCHANGED <<table, shrinkVars, os, ccf, todo, ret>>
      BY <3>2 DEF TypeOK, TableType, CountType, ControlType, table, shrinkVars, Labels
    <3> QED
      BY <1>20, <3>1, <3>2 DEF RuntimeCount
  <2>1. TableType'
    BY <1>20, <2>0 DEF TypeOK, TableType, RuntimeCount, table, shrinkVars, stopVars, masterVars, NextSlot
  <2>2. CountType'
    BY <1>20, <2>0 DEF TypeOK, CountType, TableType, RuntimeCount, table, shrinkVars, stopVars, masterVars, NextSlot
  <2>3. ControlType'
    BY <1>20, <2>0 DEF TypeOK, ControlType, RuntimeCount, table, shrinkVars, stopVars, masterVars, NextSlot
  <2>4. todo' \in Seq(Requests)
    BY <1>20, <2>0 DEF TypeOK, RuntimeCount, table, shrinkVars, stopVars, masterVars, NextSlot
  <2> QED
    BY <2>1, <2>2, <2>3, <2>4 DEF TypeOK
<1>21. CASE RestartAgent
  <2>1. TableType'
    BY <1>21 DEF TypeOK, TableType, RestartAgent, table, shrinkVars, stopVars, masterVars, NextSlot
  <2>2. CountType'
    BY <1>21 DEF TypeOK, CountType, TableType, RestartAgent, table, shrinkVars, stopVars, masterVars, NextSlot
  <2>3. ControlType'
    BY <1>21 DEF TypeOK, ControlType, RestartAgent, table, shrinkVars, stopVars, masterVars, NextSlot, Labels, Signals, StopSignals
  <2>4. todo' \in Seq(Requests)
    BY <1>21, AgentRequestsType DEF TypeOK, RestartAgent, table, shrinkVars, stopVars, masterVars, NextSlot
  <2> QED
    BY <2>1, <2>2, <2>3, <2>4 DEF TypeOK
<1>22. ASSUME NEW p \in Pids, ChildExit(p) PROVE TypeOK'
  <2>1. TableType'
    BY <1>22 DEF TypeOK, TableType, ChildExit, table, shrinkVars, stopVars, masterVars, NextSlot, Process, States
  <2>2. CountType'
    BY <1>22 DEF TypeOK, CountType, TableType, ChildExit, table, shrinkVars, stopVars, masterVars, NextSlot
  <2>3. ControlType'
    BY <1>22 DEF TypeOK, ControlType, ChildExit, table, shrinkVars, stopVars, masterVars, NextSlot, Labels, Signals, StopSignals
  <2>4. todo' \in Seq(Requests)
    BY <1>22 DEF TypeOK, ChildExit, table, shrinkVars, stopVars, masterVars, NextSlot
  <2> QED
    BY <2>1, <2>2, <2>3, <2>4 DEF TypeOK
<1>23. ASSUME NEW p \in Pids, ChildCrash(p) PROVE TypeOK'
  <2>1. TableType'
    <3>1. PICK st \in {"dead", "fatal"} : os' = [os EXCEPT ![p].st = st]
      BY <1>23 DEF ChildCrash
    <3>2. os' \in [Pids -> Process]
      BY <3>1 DEF TypeOK, TableType, Process, States
    <3> QED
      BY <1>23, <3>2 DEF TypeOK, TableType, ChildCrash, masterVars, table, shrinkVars
  <2>2. CountType'
    BY <1>23, BudgetType DEF TypeOK, CountType, TableType, ChildCrash, table, shrinkVars, stopVars, masterVars, NextSlot
  <2>3. ControlType'
    BY <1>23 DEF TypeOK, ControlType, ChildCrash, table, shrinkVars, stopVars, masterVars, NextSlot, Labels, Signals, StopSignals
  <2>4. todo' \in Seq(Requests)
    BY <1>23 DEF TypeOK, ChildCrash, table, shrinkVars, stopVars, masterVars, NextSlot
  <2> QED
    BY <2>1, <2>2, <2>3, <2>4 DEF TypeOK
<1>24. ASSUME Alarm PROVE TypeOK'
  <2>1. TableType'
    BY <1>24 DEF TypeOK, TableType, Alarm, table, shrinkVars, stopVars, masterVars, NextSlot, Process, States
  <2>2. CountType'
    BY <1>24 DEF TypeOK, CountType, TableType, Alarm, table, shrinkVars, stopVars, masterVars, NextSlot
  <2>3. ControlType'
    BY <1>24 DEF TypeOK, ControlType, Alarm, table, shrinkVars, stopVars, masterVars, NextSlot, Labels, Signals, StopSignals
  <2>4. todo' \in Seq(Requests)
    BY <1>24 DEF TypeOK, Alarm, table, shrinkVars, stopVars, masterVars, NextSlot
  <2> QED
    BY <2>1, <2>2, <2>3, <2>4 DEF TypeOK
<1>25. ASSUME NEW c \in KvCounts, SetCount(c) PROVE TypeOK'
  <2>1. TableType'
    BY <1>25 DEF TypeOK, TableType, SetCount, table, shrinkVars, stopVars, masterVars, NextSlot, Process, States
  <2>2. CountType'
    BY <1>25, BudgetType DEF TypeOK, CountType, TableType, SetCount, table, shrinkVars, stopVars, masterVars, NextSlot
  <2>3. ControlType'
    BY <1>25 DEF TypeOK, ControlType, SetCount, table, shrinkVars, stopVars, masterVars, NextSlot, Labels, Signals, StopSignals
  <2>4. todo' \in Seq(Requests)
    BY <1>25 DEF TypeOK, SetCount, table, shrinkVars, stopVars, masterVars, NextSlot
  <2> QED
    BY <2>1, <2>2, <2>3, <2>4 DEF TypeOK
<1>26. ASSUME Reload PROVE TypeOK'
  <2>1. TableType'
    BY <1>26 DEF TypeOK, TableType, Reload, table, shrinkVars, stopVars, masterVars, NextSlot, Process, States
  <2>2. CountType'
    BY <1>26 DEF TypeOK, CountType, TableType, Reload, table, shrinkVars, stopVars, masterVars, NextSlot
  <2>3. ControlType'
    BY <1>26 DEF TypeOK, ControlType, Reload, table, shrinkVars, stopVars, masterVars, NextSlot, Labels, Signals, StopSignals
  <2>4. todo' \in Seq(Requests)
    BY <1>26 DEF TypeOK, Reload, table, shrinkVars, stopVars, masterVars, NextSlot
  <2> QED
    BY <2>1, <2>2, <2>3, <2>4 DEF TypeOK
<1>27. ASSUME NEW sig \in MayStop, Stop(sig) PROVE TypeOK'
  <2>1. TableType'
    BY <1>27 DEF TypeOK, TableType, Stop, table, shrinkVars, stopVars, masterVars, NextSlot, Process, States
  <2>2. CountType'
    BY <1>27 DEF TypeOK, CountType, TableType, Stop, table, shrinkVars, stopVars, masterVars, NextSlot
  <2>3. ControlType'
    BY <1>27 DEF TypeOK, ControlType, Stop, table, shrinkVars, stopVars, masterVars, NextSlot, Labels, Signals, StopSignals
  <2>4. todo' \in Seq(Requests)
    BY <1>27 DEF TypeOK, Stop, table, shrinkVars, stopVars, masterVars, NextSlot
  <2> QED
    BY <2>1, <2>2, <2>3, <2>4 DEF TypeOK
<1>28. CASE UNCHANGED vars
  BY <1>28 DEF vars, table, shrinkVars, stopVars, TypeOK, TableType, CountType, ControlType
<1> QED
  BY <1>1, <1>2, <1>3, <1>4, <1>5, <1>6, <1>7, <1>8, <1>9, <1>10, <1>11, <1>12, <1>13, <1>14, <1>15, <1>16, <1>17, <1>18, <1>19, <1>20, <1>21, <1>22, <1>23, <1>24, <1>25, <1>26, <1>27, <1>28 DEF Next, MasterStep, Environment

(* The type invariant of Master.tla.                                       *)
THEOREM TypeCorrect == Spec => []TypeOK
BY InitType, NextType, PTL DEF Spec

-----------------------------------------------------------------------------
(* No child is lost.  SupervisionInv is inductive relative to TypeOK.      *)

(* The shrunk pids and those of them that are gone can be counted.         *)
LEMMA PidsFinite ==
  /\ IsFiniteSet(Pids)
  /\ \A S \in SUBSET Pids : IsFiniteSet(S) /\ Cardinality(S) \in Nat
<1>1. IsFiniteSet(Pids)
  BY MasterConstants, FS_Interval DEF Pids
<1> QED
  BY <1>1, FS_Subset, FS_CardinalityType

(* A step that moves no pid between the slots, the shrunk workers and the  *)
(* kernel keeps every child supervised.                                    *)
LEMMA SamePidsSupervised ==
  ASSUME TypeOK, SupervisionInv,
         UNCHANGED <<last, shrink, shrinkFinish>>,
         \A s \in Slots : processes'[s].pid = processes[s].pid,
         \A p \in Pids : os'[p].st = "none" <=> os[p].st = "none",
         \A s \in Slots : Held(s) /\ processes'[s].exited =>
           processes[s].exited \/ os[processes[s].pid].st = "none"
  PROVE  SupervisionInv'
<1>1. \A s \in Slots : Held(s)' <=> Held(s)
  BY DEF Held
<1>2. \A s \in Slots : Held(s) => processes[s].pid \in Pids
  BY DEF TypeOK, TableType, Slot, Held
<1>3. Supervised'
  BY <1>1 DEF SupervisionInv, Supervised, InTable
<1>4. ExitedGone'
  BY <1>1, <1>2 DEF SupervisionInv, ExitedGone
<1>5. ShrunkGone' = ShrunkGone
  BY DEF ShrunkGone, TypeOK, TableType
<1> QED
  BY <1>3, <1>4, <1>5 DEF SupervisionInv, NotOvercounted

(* A new pid in a slot that is free, or whose process is gone.             *)
LEMMA NewPidSupervised ==
  ASSUME TypeOK, SupervisionInv,
         NEW s \in Slots, NEW p \in Pids, NewPid(p),
         NEW e \in Slot, e.pid = p, ~e.exited,
         NEW r \in Process, r.st = "run",
         ~Held(s) \/ processes[s].exited,
         \/ s <= last /\ last' = last
         \/ s = last + 1 /\ last' = s,
         processes' = [processes EXCEPT ![s] = e],
         os' = [os EXCEPT ![p] = r],
         UNCHANGED <<shrink, shrinkFinish>>
  PROVE  SupervisionInv'
<1> USE DEF TypeOK, TableType
<1>1. /\ os[p].st = "none" /\ p \notin shrink
      /\ \A t \in Slots : Held(t) => processes[t].pid # p
  BY DEF NewPid, UnusedPid, InTable
<1>2. Held(s)' /\ processes'[s].pid = p /\ ~processes'[s].exited
  BY DEF Held, Pids, NoPid, Slots
<1>3. \A t \in Slots \ {s} : /\ processes'[t] = processes[t]
                             /\ Held(t)' <=> Held(t)
  BY DEF Held, Slots
<1>4. \A t \in Slots : Held(t) => processes[t].pid \in Pids
  BY DEF Slot, Held
<1>5. \A q \in Pids \ {p} : os'[q] = os[q]
  OBVIOUS
<1>6. os'[p].st # "none"
  OBVIOUS
<1>7. Supervised'
  <2>1. ASSUME NEW q \in Pids, os'[q].st # "none"
        PROVE  InTable(q)' \/ q \in shrink'
    <3>1. CASE q = p
      BY <3>1, <1>2 DEF InTable
    <3>2. CASE q # p /\ InTable(q)
      <4>1. PICK t \in Slots : Held(t) /\ processes[t].pid = q
        BY <3>2 DEF InTable
      <4>2. t # s
        BY <2>1, <3>2, <4>1, <1>5 DEF SupervisionInv, ExitedGone
      <4> QED
        BY <4>1, <4>2, <1>3 DEF InTable
    <3>3. CASE q # p /\ ~InTable(q)
      BY <2>1, <3>3, <1>5 DEF SupervisionInv, Supervised
    <3> QED
      BY <3>1, <3>2, <3>3
  <2>2. \A t \in Slots : Held(t)' => processes'[t].pid \notin shrink'
    BY <1>1, <1>2, <1>3 DEF SupervisionInv, Supervised
  <2>3. ASSUME NEW t \in Slots, NEW u \in Slots, Held(t)', Held(u)',
               processes'[t].pid = processes'[u].pid
        PROVE  t = u
    BY <2>3, <1>1, <1>2, <1>3 DEF SupervisionInv, Supervised
  <2> QED
    BY <2>1, <2>2, <2>3 DEF Supervised
<1>8. ExitedGone'
  BY <1>1, <1>2, <1>3, <1>4, <1>5 DEF SupervisionInv, ExitedGone
<1>9. ShrunkGone' = ShrunkGone
  BY <1>1, <1>5 DEF ShrunkGone
<1> QED
  BY <1>7, <1>8, <1>9 DEF SupervisionInv, NotOvercounted

(* Slots that hold no process any more are freed.                          *)
LEMMA FreedSupervised ==
  ASSUME TypeOK, SupervisionInv, NEW i \in Slots, Held(i), processes[i].exited,
         processes' = [processes EXCEPT ![i] = FreeSlot],
         last' = IF i = last THEN last - 1 ELSE last,
         UNCHANGED <<os, shrink, shrinkFinish>>
  PROVE  SupervisionInv'
<1> USE DEF TypeOK, TableType
<1>1. os[processes[i].pid].st = "none" /\ processes[i].pid \in Pids
  BY DEF SupervisionInv, ExitedGone, Slot, Held
<1>2. ~Held(i)'
  BY DEF Held, FreeSlot
<1>3. \A t \in Slots \ {i} : processes'[t] = processes[t] /\ (Held(t)' <=> Held(t))
  BY DEF Held, Slots
<1>4. Supervised'
  <2>1. ASSUME NEW q \in Pids, os[q].st # "none", InTable(q)
        PROVE  InTable(q)'
    <3>1. PICK t \in Slots : Held(t) /\ processes[t].pid = q
      BY <2>1 DEF InTable
    <3>2. t # i
      BY <2>1, <3>1, <1>1
    <3> QED
      BY <3>1, <3>2, <1>3 DEF InTable
  <2> QED
    BY <2>1, <1>2, <1>3 DEF SupervisionInv, Supervised
<1>5. ExitedGone'
  BY <1>2, <1>3 DEF SupervisionInv, ExitedGone
<1>6. ShrunkGone' = ShrunkGone
  BY DEF ShrunkGone
<1> QED
  BY <1>4, <1>5, <1>6 DEF SupervisionInv, NotOvercounted

(* The statuses waitpid() delivers: whoever is gone now is marked in its   *)
(* slot or counted as shrunk, and nobody is counted twice.                 *)
LEMMA StatusSupervised ==
  ASSUME TypeOK, SupervisionInv, GetStatus, UNCHANGED <<last, shrink>>
  PROVE  SupervisionInv'
<1> USE DEF TypeOK, TableType
<1> DEFINE N == {p \in Dead : p \in shrink /\ ~InTable(p)}
<1>1. /\ \A s \in Slots : processes'[s].pid = processes[s].pid
      /\ \A s \in Slots : Held(s) =>
           (processes'[s].exited <=> processes[s].exited \/ processes[s].pid \in Dead)
  BY DEF GetStatus, GetStatusOf, Slot
<1>2. \A p \in Pids : os'[p] = IF p \in Dead THEN NoProcess ELSE os[p]
  BY DEF GetStatus, GetStatusOf
<1>3. \A p \in Pids : os'[p].st = "none" <=> os[p].st = "none" \/ p \in Dead
  BY <1>2 DEF NoProcess
<1>4. \A s \in Slots : Held(s)' <=> Held(s)
  BY <1>1 DEF Held
<1>5. \A s \in Slots : Held(s) => processes[s].pid \in Pids
  BY DEF Slot, Held
<1>6. Supervised'
  BY <1>1, <1>3, <1>4 DEF SupervisionInv, Supervised, InTable
<1>7. ExitedGone'
  BY <1>1, <1>3, <1>4, <1>5 DEF SupervisionInv, ExitedGone
<1>8. NotOvercounted'
  <2>1. ShrunkGone' = ShrunkGone \union N
    <3>1. \A p \in shrink : ~InTable(p)
      BY DEF SupervisionInv, Supervised, InTable
    <3>2. Dead \subseteq Pids
      BY DEF Dead
    <3> QED
      BY <3>1, <3>2, <1>3 DEF ShrunkGone
  <2>2. ShrunkGone \intersect N = {}
    BY DEF ShrunkGone, Dead
  <2>3. /\ IsFiniteSet(ShrunkGone) /\ IsFiniteSet(N)
        /\ Cardinality(ShrunkGone) \in Nat /\ Cardinality(N) \in Nat
    BY PidsFinite DEF ShrunkGone, Dead
  <2>4. Cardinality(ShrunkGone \union N) = Cardinality(ShrunkGone) + Cardinality(N)
    <3> HIDE DEF N
    <3>1. Cardinality(ShrunkGone \union N) =
            Cardinality(ShrunkGone) + Cardinality(N) - Cardinality(ShrunkGone \intersect N)
      BY <2>3, FS_Union, Zenon
    <3>2. Cardinality(ShrunkGone \intersect N) = 0
      BY <2>2, FS_EmptySet
    <3> QED
      BY <2>3, <3>1, <3>2
  <2>5. shrinkFinish' = shrinkFinish + Cardinality(N)
    BY Zenon DEF GetStatus, GetStatusOf
  <2>6. shrinkFinish <= Cardinality(ShrunkGone)
    BY DEF SupervisionInv, NotOvercounted
  <2>7. shrinkFinish + Cardinality(N) <= Cardinality(ShrunkGone \union N)
    <3> HIDE DEF N
    <3> QED
      BY <2>3, <2>4, <2>6
  <2> QED
    BY <2>1, <2>5, <2>7 DEF NotOvercounted
<1> QED
  BY <1>6, <1>7, <1>8 DEF SupervisionInv

(* When no shrink is pending, no process of the last one is left.          *)
LEMMA AllShrunkGone ==
  ASSUME TypeOK, SupervisionInv, ~ShrinkPending
  PROVE  \A p \in shrink : os[p].st = "none"
<1>1. ShrunkGone \in SUBSET shrink
  BY DEF ShrunkGone
<1>2. IsFiniteSet(shrink) /\ Cardinality(shrink) \in Nat /\ Cardinality(ShrunkGone) \in Nat
  BY <1>1, PidsFinite DEF TypeOK, TableType
<1>3. Cardinality(shrink) <= Cardinality(ShrunkGone)
  BY DEF SupervisionInv, NotOvercounted, ShrinkPending
<1>4. Cardinality(ShrunkGone) <= Cardinality(shrink)
  BY <1>1, <1>2, FS_Subset
<1>5. Cardinality(shrink) = Cardinality(ShrunkGone)
  BY <1>2, <1>3, <1>4
<1>6. shrink = ShrunkGone
  BY <1>1, <1>2, <1>5, FS_Subset
<1> QED
  BY <1>6 DEF ShrunkGone

(* A new shrink hands its workers from the table to the shrunk ones.       *)
LEMMA ShrinkSupervised ==
  ASSUME TypeOK, SupervisionInv, ~ShrinkPending, NEW V \in SUBSET WorkerSlots,
         NEW l \in 0..MaxProcesses, last' = l, Shrink(V)
  PROVE  SupervisionInv'
<1> USE DEF TypeOK, TableType
<1>1. /\ shrink' = {processes[s].pid : s \in V} /\ shrinkFinish' = 0
      /\ processes' = [s \in Slots |-> IF s \in V THEN FreeSlot ELSE processes[s]]
      /\ LastHeld(V, last')
  BY DEF Shrink, Remove
<1>2. V \subseteq Slots /\ \A s \in V : Held(s)
  BY DEF WorkerSlots
<1>3. shrink' \subseteq Pids
  BY <1>1, <1>2 DEF Held, Slot
<1>4. \A p \in Pids : os'[p].st = "none" <=> os[p].st = "none"
  <2>1. \A p \in Pids : os'[p] = IF p \in shrink' THEN [os[p] EXCEPT !.st = Asked(@)]
                                                  ELSE os[p]
    BY DEF Shrink, Remove
  <2> QED
    BY <2>1 DEF Asked, Process
<1>5. \A s \in Slots : Held(s)' <=> Held(s) /\ s \notin V
  <2>1. \A s \in V : ~Held(s)'
    BY <1>1, <1>2 DEF Held, FreeSlot
  <2>2. ASSUME NEW s \in Slots, s \notin V PROVE Held(s)' <=> Held(s)
    <3>1. processes'[s] = processes[s]
      BY <1>1, <2>2
    <3>2. Held(s) => s <= last'
      BY <1>1, <2>2 DEF LastHeld, Held
    <3>3. last' <= last
      BY <1>1 DEF LastHeld, Held, Slots
    <3> QED
      BY <3>1, <3>2, <3>3 DEF Held, Slots
  <2> QED
    BY <2>1, <2>2
<1>6. \A s \in Slots \ V : processes'[s] = processes[s]
  BY <1>1
<1>7. Supervised'
  <2>1. ASSUME NEW p \in Pids, os'[p].st # "none"
        PROVE  InTable(p)' \/ p \in shrink'
    <3>1. InTable(p)
      BY <2>1, <1>4, AllShrunkGone DEF SupervisionInv, Supervised
    <3>2. PICK s \in Slots : Held(s) /\ processes[s].pid = p
      BY <3>1 DEF InTable
    <3> QED
      BY <3>2, <1>1, <1>5, <1>6 DEF InTable
  <2>2. ASSUME NEW s \in Slots, Held(s)'
        PROVE  processes'[s].pid \notin shrink'
    BY <2>2, <1>1, <1>2, <1>5, <1>6 DEF SupervisionInv, Supervised
  <2>3. ASSUME NEW s \in Slots, NEW t \in Slots, Held(s)', Held(t)',
               processes'[s].pid = processes'[t].pid
        PROVE  s = t
    BY <2>3, <1>5, <1>6 DEF SupervisionInv, Supervised
  <2> QED
    BY <2>1, <2>2, <2>3 DEF Supervised
<1>8. ExitedGone'
  <2>1. \A s \in Slots : Held(s) => processes[s].pid \in Pids
    BY DEF Held, Slot
  <2> QED
    BY <2>1, <1>4, <1>5, <1>6 DEF SupervisionInv, ExitedGone
<1>9. NotOvercounted'
  <2>1. ShrunkGone' \in SUBSET Pids
    BY <1>3 DEF ShrunkGone
  <2>2. Cardinality(ShrunkGone') \in Nat
    BY <2>1, PidsFinite
  <2> QED
    BY <2>2, <1>1 DEF NotOvercounted
<1> QED
  BY <1>7, <1>8, <1>9 DEF SupervisionInv

(* A change of the worker count loses no child: it is accepted only when   *)
(* no shrink is pending, so that no shrunk pid is forgotten too early.     *)
LEMMA UpdateWorkersSupervised ==
  ASSUME TypeOK, SupervisionInv, NEW c, NEW next, NEW skip,
         UpdateWorkers(c, next, skip)
  PROVE  SupervisionInv'
<1>1. CASE UNCHANGED <<table, shrinkVars, os>>
  BY <1>1, SamePidsSupervised DEF table, shrinkVars
<1>2. CASE /\ ~ShrinkPending
           /\ \E l \in 0..MaxProcesses : last' = l /\ Shrink(Victims(ccf - c))
  <2>1. Victims(ccf - c) \subseteq WorkerSlots
    BY DEF Victims
  <2> QED
    BY <1>2, <2>1, ShrinkSupervised
<1> QED
  BY <1>1, <1>2 DEF UpdateWorkers

(* Telling children to go: their pids stay where they are, and a slot is   *)
(* marked `exited` only when kill() found nobody.                          *)
LEMMA TellSupervised ==
  ASSUME TypeOK, SupervisionInv, NEW T \in SUBSET Slots,
         NEW st \in [States -> States],
         \A x \in States : st[x] = "none" <=> x = "none",
         Tell(T, st), UNCHANGED <<last, shrink, shrinkFinish>>
  PROVE  SupervisionInv'
<1> USE DEF TypeOK, TableType
<1>1. \A s \in Slots : /\ processes'[s].pid = processes[s].pid
                       /\ processes'[s].exited => processes[s].exited \/ Gone(s)
  <2>1. \A s \in Slots :
          \/ processes'[s] = [processes[s] EXCEPT !.just = FALSE]
          \/ processes'[s] = Marked(s)
          \/ processes'[s] = processes[s]
    BY DEF Tell
  <2>2. \A s \in Slots : /\ Marked(s).pid = processes[s].pid
                         /\ Marked(s).exited => processes[s].exited \/ Gone(s)
    BY DEF Marked, Slot
  <2>3. \A s \in Slots : LET j == [processes[s] EXCEPT !.just = FALSE]
                         IN  j.pid = processes[s].pid /\ j.exited = processes[s].exited
    BY DEF Slot
  <2> QED
    BY <2>1, <2>2, <2>3
<1>2. \A p \in Pids : os'[p].st = "none" <=> os[p].st = "none"
  <2>1. \A p \in Pids : os'[p] = IF \E s \in T : processes[s].pid = p
                                   THEN [os[p] EXCEPT !.st = st[@]] ELSE os[p]
    BY DEF Tell, Signalled
  <2>2. \A p \in Pids : os[p].st \in States
    BY DEF Process
  <2>3. \A p \in Pids : [os[p] EXCEPT !.st = st[@]].st = st[os[p].st]
    BY DEF Process
  <2>4. \A p \in Pids : st[os[p].st] = "none" <=> os[p].st = "none"
    BY <2>2
  <2>5. \A p \in Pids : os'[p].st = st[os[p].st] \/ os'[p].st = os[p].st
    BY <2>1, <2>3
  <2> QED
    BY <2>4, <2>5
<1> QED
  BY <1>1, <1>2, SamePidsSupervised DEF Gone

(* A signal neither creates a process nor makes the kernel forget one.     *)
LEMMA SignalsKeepGone ==
  \A x \in States : /\ Quitting[x] = "none" <=> x = "none"
                    /\ Killed[x] = "none" <=> x = "none"
BY DEF Quitting, Killed, Asked, States

(* njt_signal_worker_processes() loses no child.                           *)
LEMMA SignalWorkersSupervised ==
  ASSUME TypeOK, SupervisionInv, NEW sig, SignalWorkers(sig),
         UNCHANGED <<last, shrink, shrinkFinish>>
  PROVE  SupervisionInv'
<1> DEFINE T == {s \in Slots : /\ Held(s) /\ ~processes[s].just
                               /\ sig = "QUIT" => ~processes[s].exiting}
<1>1. Tell(T, IF sig = "KILL" THEN Killed ELSE Quitting)
  BY DEF SignalWorkers
<1>2. CASE sig = "KILL"
  BY <1>1, <1>2, TellSupervised, SignalTypes, SignalsKeepGone
<1>3. CASE sig # "KILL"
  BY <1>1, <1>3, TellSupervised, SignalTypes, SignalsKeepGone
<1> QED
  BY <1>2, <1>3

(* At the start there is no process to supervise.                          *)
LEMMA InitSupervised == Init => SupervisionInv
<1> SUFFICES ASSUME Init PROVE SupervisionInv
  OBVIOUS
<1>1. \A s \in Slots : ~Held(s)
  BY DEF Init, Held, FreeSlot
<1>2. \A p \in Pids : os[p].st = "none"
  BY DEF Init, NoProcess
<1>3. Supervised /\ ExitedGone
  BY <1>1, <1>2 DEF Supervised, ExitedGone
<1>4. NotOvercounted
  <2>1. ShrunkGone = {} /\ shrinkFinish = 0
    BY DEF Init, ShrunkGone
  <2> QED
    BY <2>1, FS_EmptySet DEF NotOvercounted
<1> QED
  BY <1>3, <1>4 DEF SupervisionInv

(* Every step of the master, of a child and of an operator keeps every     *)
(* child supervised.                                                       *)
LEMMA NextSupervised == TypeOK /\ SupervisionInv /\ [Next]_vars => SupervisionInv'
<1> SUFFICES ASSUME TypeOK, SupervisionInv, [Next]_vars PROVE SupervisionInv'
  OBVIOUS
<1> USE MasterConstants
<1>1. CASE Spawn
  <2>1. CASE UNCHANGED <<table, os>>
    BY <1>1, <2>1, SamePidsSupervised DEF Spawn, table, shrinkVars
  <2>2. ASSUME NEW s \in Slots, NEW p \in Pids, FirstFreeSlot(s), NewPid(p),
               SpawnInto(s, p, Head(todo))
        PROVE  SupervisionInv'
    <3>1. Head(todo) \in Requests
      BY <1>1, HeadTailProperties DEF Spawn, TypeOK
    <3> DEFINE e == Spawned(p, Head(todo))
               r == [st |-> "run", name |-> Head(todo).name, gen |-> gen]
    <3>2. e \in Slot /\ r \in Process /\ r.st = "run"
      BY <3>1, SlotTypes DEF TypeOK, CountType, Requests
    <3>3. e.pid = p /\ ~e.exited
      BY DEF Spawned
    <3>4. processes' = [processes EXCEPT ![s] = e] /\ os' = [os EXCEPT ![p] = r]
      BY <2>2 DEF SpawnInto
    <3>5. /\ ~Held(s)
          /\ \/ s <= last /\ last' = last
             \/ s = last + 1 /\ last' = s
      <4>1. ~Held(s) /\ s <= last + 1
        BY <2>2 DEF FirstFreeSlot
      <4>2. last' = IF s = last + 1 THEN s ELSE last
        BY <2>2 DEF SpawnInto
      <4>3. s \in Nat /\ last \in Nat
        BY DEF Slots, TypeOK, TableType
      <4> QED
        BY <4>1, <4>2, <4>3
    <3>6. UNCHANGED <<shrink, shrinkFinish>>
      BY <1>1 DEF Spawn, shrinkVars
    <3> HIDE DEF e, r
    <3> QED
      BY <2>2, <3>2, <3>3, <3>4, <3>5, <3>6, NewPidSupervised
  <2> QED
    BY <1>1, <2>1, <2>2 DEF Spawn
<1>2. CASE SpawnDone
  BY <1>2, SamePidsSupervised DEF SpawnDone, table, shrinkVars, EndBatch
<1>3. CASE Boot
  <2>1. CASE UNCHANGED <<table, shrinkVars, os>>
    BY <2>1, SamePidsSupervised DEF table, shrinkVars
  <2>2. ASSUME NEW next, NEW skip, UpdateWorkers(kv, next, skip) PROVE SupervisionInv'
    BY <2>2, UpdateWorkersSupervised
  <2> QED
    BY <1>3, <2>1, <2>2 DEF Boot, CheckCount
<1>4. CASE Top
  BY <1>4, SamePidsSupervised DEF Top, table, shrinkVars
<1>5. CASE Wake
  <2>1. CASE UNCHANGED <<processes, shrinkFinish, agentExited, os>>
    BY <1>5, <2>1, SamePidsSupervised DEF Wake
  <2>2. CASE GetStatus
    BY <1>5, <2>2, StatusSupervised DEF Wake
  <2> QED
    BY <1>5, <2>1, <2>2 DEF Wake
<1>6. CASE ReapEmpty
  BY <1>6, SamePidsSupervised DEF ReapEmpty, table, shrinkVars, NextSlot
<1>7. CASE ReapLive
  BY <1>7, SamePidsSupervised DEF ReapLive, table, shrinkVars, NextSlot
<1>8. CASE ReapRespawn
  <2>1. CASE UNCHANGED <<processes, os>>
    BY <1>8, <2>1, SamePidsSupervised DEF ReapRespawn, NextSlot, shrinkVars
  <2>2. ASSUME NEW p \in Pids, NewPid(p),
               processes' = [processes EXCEPT ![idx].pid = p, ![idx].exited = FALSE],
               os' = [os EXCEPT ![p] = [st |-> "run", name |-> processes[idx].name,
                                        gen |-> gen]]
        PROVE  SupervisionInv'
    <3>1. PICK i \in Slots : i = idx /\ i <= last
      <4>1. idx <= last
        BY <1>8 DEF ReapRespawn, Reaping
      <4> QED
        BY <4>1 DEF Slots, TypeOK, TableType, CountType
    <3> DEFINE e == [processes[i] EXCEPT !.pid = p, !.exited = FALSE]
               r == [st |-> "run", name |-> processes[i].name, gen |-> gen]
    <3>2. e \in Slot /\ e.pid = p /\ ~e.exited
      BY DEF TypeOK, TableType, Slot
    <3>3. r \in Process /\ r.st = "run"
      BY SlotTypes DEF TypeOK, TableType, CountType, Slot
    <3>4. processes' = [processes EXCEPT ![i] = e]
      BY <2>2, <3>1 DEF TypeOK, TableType, Slot
    <3>5. os' = [os EXCEPT ![p] = r]
      BY <2>2, <3>1
    <3>6. processes[i].exited
      BY <1>8, <3>1 DEF ReapRespawn, MustRespawn
    <3>7. UNCHANGED <<last, shrink, shrinkFinish>>
      BY <1>8 DEF ReapRespawn, NextSlot, shrinkVars
    <3>8. NewPid(p)
      BY <2>2
    <3> HIDE DEF e, r
    <3> QED
      BY <3>1, <3>2, <3>3, <3>4, <3>5, <3>6, <3>7, <3>8, NewPidSupervised
  <2> QED
    BY <1>8, <2>1, <2>2 DEF ReapRespawn
<1>9. CASE ReapCrash
  BY <1>9, SamePidsSupervised DEF ReapCrash, table, shrinkVars, NextSlot
<1>10. CASE ReapRelease
  <2>1. PICK i \in Slots : i = idx /\ i <= last
    BY <1>10 DEF ReapRelease, Reaping, Slots, TypeOK, TableType, CountType
  <2>2. Held(i) /\ processes[i].exited
    BY <1>10, <2>1 DEF ReapRelease, Held
  <2>3. /\ processes' = [processes EXCEPT ![i] = FreeSlot]
        /\ last' = IF i = last THEN last - 1 ELSE last
        /\ UNCHANGED <<os, shrink, shrinkFinish>>
    BY <1>10, <2>1 DEF ReapRelease, NextSlot, shrinkVars
  <2> QED
    BY <2>2, <2>3, FreedSupervised
<1>11. CASE ReapEnd
  <2>1. \A s \in Slots : /\ processes'[s].pid = processes[s].pid
                         /\ processes'[s].exited = processes[s].exited
    <3>1. \A s \in Slots : \/ processes'[s] = processes[s]
                           \/ \E d \in {gen, NoData} :
                                processes'[s] = [processes[s] EXCEPT !.data = d]
      BY <1>11 DEF ReapEnd, RestartLater, RestartNow, StartHelpers
    <3> QED
      BY <3>1 DEF TypeOK, TableType, Slot
  <2> QED
    BY <1>11, <2>1, SamePidsSupervised DEF ReapEnd, shrinkVars
<1>12. CASE Exit
  BY <1>12, SamePidsSupervised DEF Exit, table, shrinkVars
<1>13. CASE Terminate
  <2>1. UNCHANGED <<last, shrink, shrinkFinish>>
    BY <1>13 DEF Terminate, shrinkVars
  <2>2. CASE UNCHANGED <<processes, os>>
    BY <2>1, <2>2, SamePidsSupervised
  <2>3. ASSUME NEW sig, SignalWorkers(sig) PROVE SupervisionInv'
    BY <2>1, <2>3, SignalWorkersSupervised
  <2> QED
    BY <1>13, <2>2, <2>3 DEF Terminate
<1>14. CASE Quit
  <2>1. UNCHANGED <<last, shrink, shrinkFinish>>
    BY <1>14 DEF Quit, shrinkVars
  <2>2. CASE UNCHANGED <<processes, os>>
    BY <2>1, <2>2, SamePidsSupervised
  <2>3. ASSUME NEW sig, SignalWorkers(sig) PROVE SupervisionInv'
    BY <2>1, <2>3, SignalWorkersSupervised
  <2> QED
    BY <1>14, <2>2, <2>3 DEF Quit
<1>15. CASE Reconfigure
  BY <1>15, SamePidsSupervised DEF Reconfigure, table, shrinkVars
<1>16. CASE Recount
  <2>1. CASE UNCHANGED <<table, shrinkVars, os>>
    BY <2>1, SamePidsSupervised DEF table, shrinkVars
  <2>2. ASSUME NEW next, NEW skip, UpdateWorkers(kv, next, skip) PROVE SupervisionInv'
    BY <2>2, UpdateWorkersSupervised
  <2> QED
    BY <1>16, <2>1, <2>2 DEF Recount, CheckCount
<1>17. CASE StartNew
  BY <1>17, SamePidsSupervised DEF StartNew, table, shrinkVars
<1>18. CASE RestartCmd
  <2>1. UNCHANGED <<last, shrink, shrinkFinish>>
    BY <1>18 DEF RestartCmd, shrinkVars
  <2>2. PICK T \in SUBSET Slots : Tell(T, Quitting)
    BY <1>18 DEF RestartCmd
  <2> QED
    BY <2>1, <2>2, TellSupervised, SignalTypes, SignalsKeepGone
<1>19. CASE NoReload
  BY <1>19, SamePidsSupervised DEF NoReload, table, shrinkVars
<1>20. CASE RuntimeCount
  <2>1. CASE UNCHANGED <<table, shrinkVars, os>>
    BY <2>1, SamePidsSupervised DEF table, shrinkVars
  <2>2. CASE UpdateWorkers(kv, "agent", "agent")
    BY <2>2, UpdateWorkersSupervised
  <2> QED
    BY <1>20, <2>1, <2>2 DEF RuntimeCount
<1>21. CASE RestartAgent
  BY <1>21, SamePidsSupervised DEF RestartAgent, table, shrinkVars
<1>22. ASSUME NEW p \in Pids, ChildExit(p) PROVE SupervisionInv'
  BY <1>22, SamePidsSupervised DEF ChildExit, masterVars, table, shrinkVars, TypeOK, TableType, Process
<1>23. ASSUME NEW p \in Pids, ChildCrash(p) PROVE SupervisionInv'
  BY <1>23, SamePidsSupervised DEF ChildCrash, masterVars, table, shrinkVars, TypeOK, TableType, Process
<1>24. ASSUME Alarm PROVE SupervisionInv'
  BY <1>24, SamePidsSupervised DEF Alarm, masterVars, table, shrinkVars
<1>25. ASSUME NEW c \in KvCounts, SetCount(c) PROVE SupervisionInv'
  BY <1>25, SamePidsSupervised DEF SetCount, masterVars, table, shrinkVars
<1>26. ASSUME Reload PROVE SupervisionInv'
  BY <1>26, SamePidsSupervised DEF Reload, masterVars, table, shrinkVars
<1>27. ASSUME NEW sig \in MayStop, Stop(sig) PROVE SupervisionInv'
  BY <1>27, SamePidsSupervised DEF Stop, masterVars, table, shrinkVars
<1>28. CASE UNCHANGED vars
  BY <1>28, SamePidsSupervised DEF vars, table, shrinkVars
<1> QED
  BY <1>1, <1>2, <1>3, <1>4, <1>5, <1>6, <1>7, <1>8, <1>9, <1>10, <1>11, <1>12, <1>13, <1>14, <1>15, <1>16, <1>17, <1>18, <1>19, <1>20, <1>21, <1>22, <1>23, <1>24, <1>25, <1>26, <1>27, <1>28 DEF Next, MasterStep, Environment

(* What the supervision of the children rests on, in the form in which     *)
(* every step preserves it: a slot marked `exited` holds no process, and   *)
(* no shrunk worker is counted as finished before it is gone.              *)
THEOREM SupervisionInvHolds == Spec => []SupervisionInv
BY TypeCorrect, InitSupervised, NextSupervised, PTL DEF Spec

(* No child of the master is ever lost, whatever fails.                    *)
THEOREM SupervisionHolds == Spec => []Supervised
<1>1. SupervisionInv => Supervised
  BY DEF SupervisionInv
<1> QED
  BY <1>1, SupervisionInvHolds, PTL
=============================================================================
