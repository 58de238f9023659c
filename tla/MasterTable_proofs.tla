------------------------- MODULE MasterTable_proofs -------------------------
(***************************************************************************)
(* What Master.tla promises of the contents of njt_processes[], for every  *)
(* value of the constants: the pids that are published are those of the    *)
(* workers in the table whenever the master sleeps, all if they fit into   *)
(* the list, no copilot directive                                          *)
(* runs twice, the two counters of a shrink tell whether a shrunk worker   *)
(* is left, nobody but a kept copilot goes on running an older             *)
(* configuration, there are always enough workers, the master exits last,  *)
(* and how large a table has room for everybody.                           *)
(***************************************************************************)
EXTENDS Master_proofs, FunctionTheorems, InductionLemmas

(* The slots of reloadable copilots (r = TRUE) and of those to be kept.    *)
Helpers(r) ==
  {s \in Slots : Held(s) /\ processes[s].name = "helper" /\ processes[s].reload = r}

(* The slots of one kind of process.                                       *)
SlotsOf(n) == {s \in Slots : Held(s) /\ processes[s].name = n}

-----------------------------------------------------------------------------
(* How the steps change who is in which slot.                              *)

(* Every slot keeps its pid and what it is the slot of.                    *)
SameSlots ==
  /\ last' = last
  /\ \A s \in Slots : /\ processes'[s].pid = processes[s].pid
                      /\ processes'[s].name = processes[s].name
                      /\ processes'[s].reload = processes[s].reload

(* Then the sets that are read off the table stay as they are.             *)
LEMMA SameSlotsSets ==
  ASSUME SameSlots
  PROVE  /\ SavedPids' = SavedPids
         /\ \A r : Helpers(r)' = Helpers(r)
         /\ \A n : SlotsOf(n)' = SlotsOf(n)
<1>1. \A s \in Slots : Held(s)' <=> Held(s)
  BY DEF SameSlots, Held
<1>2. WorkerSlots' = WorkerSlots
  BY <1>1 DEF SameSlots, WorkerSlots
<1>3. SavedPids' = SavedPids
  <2>1. \A s \in WorkerSlots : processes'[s].pid = processes[s].pid
    BY DEF SameSlots, WorkerSlots
  <2> QED BY <1>2, <2>1 DEF SavedPids
<1> QED
  BY <1>1, <1>3 DEF SameSlots, Helpers, SlotsOf

(* A table that is not written is one such case.                           *)
LEMMA SameTable == UNCHANGED <<processes, last>> => SameSlots
BY DEF SameSlots

(* Telling children to go is another.                                      *)
LEMMA TellSlots ==
  ASSUME TypeOK, NEW T, NEW st, Tell(T, st), last' = last
  PROVE  SameSlots
<1> USE DEF TypeOK, TableType, Slot
<1>1. \A s \in Slots :
        \/ processes'[s] = [processes[s] EXCEPT !.just = FALSE]
        \/ processes'[s] = Marked(s)
        \/ processes'[s] = processes[s]
  BY DEF Tell
<1>2. \A s \in Slots : /\ Marked(s).pid = processes[s].pid
                       /\ Marked(s).name = processes[s].name
                       /\ Marked(s).reload = processes[s].reload
  BY DEF Marked
<1>3. \A s \in Slots : LET j == [processes[s] EXCEPT !.just = FALSE]
                       IN  /\ j.pid = processes[s].pid /\ j.name = processes[s].name
                           /\ j.reload = processes[s].reload
  OBVIOUS
<1> QED
  BY <1>1, <1>2, <1>3 DEF SameSlots

(* And so are the signals to the workers.                                  *)
LEMMA SignalSlots ==
  ASSUME TypeOK, NEW sig, SignalWorkers(sig), last' = last
  PROVE  SameSlots
<1>1. PICK T, st : Tell(T, st)
  BY DEF SignalWorkers
<1> QED
  BY <1>1, TellSlots

(* The statuses of dead children only mark slots.                          *)
LEMMA StatusSlots ==
  ASSUME TypeOK, GetStatus, last' = last
  PROVE  SameSlots
BY DEF GetStatus, GetStatusOf, TypeOK, TableType, Slot, SameSlots

(* A shrink takes slots of workers and no others.                          *)
LEMMA ShrinkSlots ==
  ASSUME TypeOK, NEW V \in SUBSET WorkerSlots, Shrink(V), last' \in 0..MaxProcesses
  PROVE  /\ \A r : Helpers(r)' = Helpers(r)
         /\ \A n : n # "worker" => SlotsOf(n)' = SlotsOf(n)
         /\ WorkerSlots' = WorkerSlots \ V
<1> USE DEF TypeOK, TableType
<1>1. /\ processes' = [s \in Slots |-> IF s \in V THEN FreeSlot ELSE processes[s]]
      /\ LastHeld(V, last')
  BY DEF Shrink, Remove
<1>2. \A s \in V : s \in Slots /\ processes[s].name = "worker" /\ ~Held(s)'
  BY <1>1 DEF WorkerSlots, Held, FreeSlot
<1>3. ASSUME NEW s \in Slots, s \notin V
      PROVE  processes'[s] = processes[s] /\ (Held(s)' <=> Held(s))
  <2>1. processes'[s] = processes[s]
    BY <1>1, <1>3
  <2>2. Held(s) => s <= last'
    BY <1>1, <1>3 DEF LastHeld, Held
  <2>3. last' <= last
    BY <1>1 DEF LastHeld, Held, Slots
  <2> QED
    BY <2>1, <2>2, <2>3 DEF Held, Slots
<1> QED
  BY <1>2, <1>3 DEF Helpers, SlotsOf, WorkerSlots

(* njt_update_worker_processes() either leaves the slots alone, going on   *)
(* at `skip` or spawning, or shrinks, and goes on after a batch; it asks   *)
(* for workers only.                                                       *)
LEMMA UpdateWorkersSlots ==
  ASSUME TypeOK, NEW c, NEW next, NEW skip, UpdateWorkers(c, next, skip)
  PROVE  /\ ret' = next
         /\ \A r : Helpers(r)' = Helpers(r)
         /\ \A n : n # "worker" => SlotsOf(n)' = SlotsOf(n)
         /\ \/ SameSlots /\ pc' = skip /\ todo' = <<>>
            \/ /\ pc' = "spawn"
               /\ \/ todo' = <<>>
                  \/ \E n, just : todo' = WorkerRequests(n, just)
<1>1. ret' = next
  BY DEF UpdateWorkers
<1>2. CASE /\ UNCHANGED table
           /\ \/ pc' = skip /\ todo' = <<>>
              \/ pc' = "spawn" /\ \E n, just : todo' = WorkerRequests(n, just)
  BY <1>1, <1>2, SameTable, SameSlotsSets DEF table
<1>3. CASE /\ pc' = "spawn" /\ todo' = <<>>
           /\ \E l \in 0..MaxProcesses : last' = l /\ Shrink(Victims(ccf - c))
  <2>1. Victims(ccf - c) \in SUBSET WorkerSlots
    BY DEF Victims
  <2> QED
    BY <1>1, <1>3, <2>1, ShrinkSlots
<1> QED
  BY <1>2, <1>3 DEF UpdateWorkers

(* Checking the count in the KV store does the same.                       *)
LEMMA CheckCountSlots ==
  ASSUME TypeOK, NEW next, NEW skip, CheckCount(next, skip)
  PROVE  /\ ret' = next
         /\ \A r : Helpers(r)' = Helpers(r)
         /\ \A n : n # "worker" => SlotsOf(n)' = SlotsOf(n)
         /\ \/ SameSlots /\ pc' = skip /\ todo' = <<>>
            \/ /\ pc' = "spawn"
               /\ \/ todo' = <<>>
                  \/ \E n, just : todo' = WorkerRequests(n, just)
<1>1. CASE UpdateWorkers(kv, next, skip)
  BY <1>1, UpdateWorkersSlots
<1>2. CASE UNCHANGED table /\ ret' = next /\ pc' = skip /\ todo' = <<>>
  BY <1>2, SameTable, SameSlotsSets DEF table
<1> QED
  BY <1>1, <1>2 DEF CheckCount

(* A helper that is restarted, at once or later, keeps its slot.           *)
LEMMA ReapEndSlots ==
  ASSUME TypeOK, ReapEnd
  PROVE  SameSlots
<1>1. \A s \in Slots : \/ processes'[s] = processes[s]
                       \/ \E d \in {gen, NoData} :
                            processes'[s] = [processes[s] EXCEPT !.data = d]
  BY DEF ReapEnd, RestartLater, RestartNow, StartHelpers
<1>2. \A s \in Slots : /\ processes'[s].pid = processes[s].pid
                       /\ processes'[s].name = processes[s].name
                       /\ processes'[s].reload = processes[s].reload
  BY <1>1 DEF TypeOK, TableType, Slot
<1> QED
  BY <1>2 DEF ReapEnd, SameSlots

(* The slot and the process of a spawn are new; nobody else moves.         *)
LEMMA SpawnSlots ==
  ASSUME TypeOK, Spawn
  PROVE  \/ SameSlots
         \/ \E s \in Slots :
              /\ ~Held(s) /\ Held(s)'
              /\ processes'[s].name = Head(todo).name
              /\ processes'[s].reload = Head(todo).reload
              /\ \A t \in Slots \ {s} : processes'[t] = processes[t] /\ (Held(t)' <=> Held(t))
<1> USE DEF TypeOK, TableType
<1>1. CASE UNCHANGED table
  BY <1>1, SameTable DEF table
<1>2. ASSUME NEW s \in Slots, NEW p \in Pids, FirstFreeSlot(s),
             SpawnInto(s, p, Head(todo))
      PROVE  /\ ~Held(s) /\ Held(s)'
             /\ processes'[s].name = Head(todo).name
             /\ processes'[s].reload = Head(todo).reload
             /\ \A t \in Slots \ {s} : processes'[t] = processes[t] /\ (Held(t)' <=> Held(t))
  <2>1. ~Held(s) /\ s <= last + 1
    BY <1>2 DEF FirstFreeSlot
  <2>2. /\ processes'[s] = Spawned(p, Head(todo))
        /\ \A t \in Slots \ {s} : processes'[t] = processes[t]
        /\ last' = IF s = last + 1 THEN s ELSE last
    BY <1>2 DEF SpawnInto
  <2>3. Held(s)'
    BY <2>1, <2>2 DEF Held, Spawned, Pids, NoPid, Slots
  <2>4. \A t \in Slots \ {s} : Held(t)' <=> Held(t)
    BY <2>1, <2>2 DEF Held, Slots
  <2> QED
    BY <2>1, <2>2, <2>3, <2>4 DEF Spawned
<1> QED
  BY <1>1, <1>2 DEF Spawn

-----------------------------------------------------------------------------
(* The published pids.                                                     *)

(* What is saved is up to date from the end of a batch to the next change  *)
(* of the table; of the batches, only that of the agent is not followed by        *)
(* njt_save_pids_to_kv(), and it starts no worker.                         *)
Saved == {"top", "wait", "decide", "count", "rtc", "agent"}
Batches == {"boot", "agent", "start", "decide", "cmd", "top"}
Published ==
  /\ pc \in Saved => pidsKv = SavedPids
  /\ pc = "spawn" => ret \in Batches
  /\ pc = "spawn" /\ ret = "top" =>
       pidsKv = SavedPids /\ \A i \in DOMAIN todo : todo[i].name = "agent"

(* A step that leaves the slots and what is published alone.               *)
LEMMA StillPublished ==
  ASSUME Published, SameSlots, pidsKv' = pidsKv,
         \/ pc' = pc /\ UNCHANGED <<ret, todo>>
         \/ pc' \in Saved /\ pc \in Saved
         \/ pc' \notin Saved \union {"spawn"}
  PROVE  Published'
BY SameSlotsSets DEF Published, Saved

(* An agent that is spawned into a free slot is no worker.                 *)
LEMMA AgentSpawned ==
  ASSUME TypeOK, Spawn, Head(todo).name = "agent"
  PROVE  SavedPids' = SavedPids
<1>1. CASE SameSlots
  BY <1>1, SameSlotsSets
<1>2. ASSUME NEW s \in Slots, ~Held(s), processes'[s].name = "agent",
             \A t \in Slots \ {s} : processes'[t] = processes[t] /\ (Held(t)' <=> Held(t))
      PROVE  SavedPids' = SavedPids
  <2>1. WorkerSlots' = WorkerSlots /\ s \notin WorkerSlots
    BY <1>2 DEF WorkerSlots
  <2>2. \A t \in WorkerSlots : processes'[t] = processes[t]
    BY <1>2, <2>1 DEF WorkerSlots
  <2> QED
    BY <2>1, <2>2 DEF SavedPids
<1> QED
  BY <1>1, <1>2, SpawnSlots

(* Nothing is published at the start.                                      *)
LEMMA InitPublished == Init => Published
BY DEF Init, Published, Saved, Batches

(* Every step keeps what is published true where it has to be.             *)
LEMMA PublishedNext == TypeOK /\ Published /\ [Next]_vars => Published'
<1> SUFFICES ASSUME TypeOK, Published, [Next]_vars PROVE Published'
  OBVIOUS
<1> USE DEF Saved
<1>1. CASE Spawn
  <2>1. pc = "spawn" /\ pc' = "spawn" /\ ret' = ret /\ pidsKv' = pidsKv /\ todo # <<>>
        /\ todo' = Tail(todo)
    BY <1>1 DEF Spawn
  <2>2. ASSUME ret = "top"
        PROVE  SavedPids' = SavedPids /\ \A i \in DOMAIN todo' : todo'[i].name = "agent"
    <3>1. todo \in Seq(Requests) /\ \A i \in DOMAIN todo : todo[i].name = "agent"
      BY <2>1, <2>2 DEF Published, TypeOK
    <3>2. Head(todo).name = "agent"
      BY <2>1, <3>1
    <3>3. \A i \in DOMAIN Tail(todo) : Tail(todo)[i].name = "agent"
      BY <2>1, <3>1
    <3> QED
      BY <1>1, <2>1, <3>2, <3>3, AgentSpawned
  <2> QED
    BY <2>1, <2>2 DEF Published
<1>2. CASE SpawnDone
  <2>1. SameSlots
    BY <1>2, SameTable DEF SpawnDone, EndBatch, table
  <2>2. /\ pc = "spawn" /\ pc' = ret /\ ret \in Batches
        /\ pidsKv' = IF ret \in {"decide", "start", "agent"} THEN SavedPids ELSE pidsKv
    BY <1>2 DEF SpawnDone, EndBatch, Published
  <2> QED
    BY <2>1, <2>2, SameSlotsSets DEF Published, Batches
<1>3. CASE Boot
  <2>1. CheckCount("agent", "spawn")
    BY <1>3 DEF Boot
  <2> QED
    BY <2>1, CheckCountSlots DEF Published, Batches
<1>4. CASE Top
  BY <1>4, SameTable, StillPublished DEF Top, table
<1>5. CASE Wake
  <2>1. pc = "wait" /\ pidsKv' = pidsKv /\ pc' \in {"reap", "decide"} /\ last' = last
    BY <1>5 DEF Wake
  <2>2. SameSlots
    BY <1>5, <2>1, StatusSlots, SameTable DEF Wake
  <2> QED
    BY <2>1, <2>2, StillPublished
<1>6. CASE ReapEmpty \/ ReapLive \/ ReapRespawn \/ ReapRelease
  <2>1. pc = "reap" /\ pc' = "reap"
    BY <1>6 DEF ReapEmpty, ReapLive, ReapRespawn, ReapRelease, NextSlot, Reaping
  <2> QED
    BY <2>1 DEF Published
<1>7. CASE ReapCrash \/ Exit
  <2>1. pc' \in {"crashed", "exited"}
    BY <1>7 DEF ReapCrash, Exit
  <2> QED
    BY <2>1 DEF Published
<1>8. CASE ReapEnd
  BY <1>8 DEF ReapEnd, Published, Batches
<1>9. CASE Terminate
  <2>1. pc = "decide" /\ pc' = "top" /\ pidsKv' = pidsKv /\ last' = last
    BY <1>9 DEF Terminate
  <2>2. SameSlots
    BY <1>9, <2>1, SignalSlots, SameTable DEF Terminate
  <2> QED
    BY <2>1, <2>2, StillPublished
<1>10. CASE Quit
  <2>1. pc = "decide" /\ pc' = "top" /\ pidsKv' = pidsKv /\ last' = last
    BY <1>10 DEF Quit
  <2>2. SameSlots
    BY <1>10, <2>1, SignalSlots, SameTable DEF Quit
  <2> QED
    BY <2>1, <2>2, StillPublished
<1>11. CASE Reconfigure \/ NoReload
  BY <1>11, SameTable, StillPublished DEF Reconfigure, NoReload, table
<1>12. CASE Recount
  <2>1. CheckCount("start", "start")
    BY <1>12 DEF Recount
  <2> QED
    BY <2>1, CheckCountSlots DEF Published, Batches
<1>13. CASE StartNew
  BY <1>13 DEF StartNew, Published, Batches
<1>14. CASE RestartCmd
  <2>1. PICK T, st : Tell(T, st)
    BY <1>14 DEF RestartCmd
  <2>2. last' = last /\ pc' = "rtc" /\ pidsKv' = SavedPids
    BY <1>14 DEF RestartCmd
  <2> QED
    BY <2>1, <2>2, TellSlots, SameSlotsSets DEF Published
<1>15. CASE RuntimeCount
  <2>1. pc = "rtc" /\ pidsKv' = pidsKv
    BY <1>15 DEF RuntimeCount
  <2>2. CASE UpdateWorkers(kv, "agent", "agent")
    <3>1. /\ ret' = "agent"
          /\ \/ SameSlots /\ pc' = "agent"
             \/ pc' = "spawn"
      BY <2>2, UpdateWorkersSlots
    <3> QED
      BY <2>1, <3>1, StillPublished DEF Published, Batches
  <2>3. CASE pc' = "agent" /\ UNCHANGED table
    BY <2>1, <2>3, SameTable, StillPublished DEF table
  <2> QED
    BY <1>15, <2>2, <2>3 DEF RuntimeCount
<1>16. CASE RestartAgent
  <2>1. pc = "agent" /\ pidsKv' = pidsKv /\ SameSlots
    BY <1>16, SameTable DEF RestartAgent, table
  <2>2. CASE pc' = "top"
    BY <2>1, <2>2, StillPublished
  <2>3. CASE pc' = "spawn" /\ ret' = "top" /\ todo' = AgentRequests
    <3>1. \A i \in DOMAIN AgentRequests : AgentRequests[i].name = "agent"
      BY DEF AgentRequests, Request
    <3> QED
      BY <2>1, <2>3, <3>1, SameSlotsSets DEF Published, Batches
  <2> QED
    BY <1>16, <2>2, <2>3 DEF RestartAgent
<1>17. CASE Environment
  BY <1>17, SameTable, StillPublished
  DEF Environment, ChildExit, ChildCrash, Alarm, SetCount, Reload, Stop, masterVars, table
<1>18. CASE UNCHANGED vars
  BY <1>18, SameTable, StillPublished DEF vars
<1> QED
  BY <1>1, <1>2, <1>3, <1>4, <1>5, <1>6, <1>7, <1>8, <1>9, <1>10, <1>11, <1>12, <1>13, <1>14, <1>15, <1>16, <1>17, <1>18 DEF Next, MasterStep

(* All pids go into the list if there are no more than MaxSaved.           *)
LEMMA SavedAll ==
  ASSUME TypeOK
  PROVE  /\ SavedPids \subseteq WorkerPids
         /\ Cardinality(WorkerSlots) <= MaxSaved => SavedPids = WorkerPids
<1>1. SavedPids \subseteq WorkerPids
  BY DEF SavedPids, WorkerPids
<1>2. ASSUME Cardinality(WorkerSlots) <= MaxSaved, NEW s \in WorkerSlots
      PROVE  Cardinality({t \in WorkerSlots : t < s}) < MaxSaved
  <2> DEFINE before == {t \in WorkerSlots : t < s}
  <2>1. IsFiniteSet(Slots) /\ WorkerSlots \in SUBSET Slots
    BY MasterConstants, FS_Interval DEF MasterConstants, Slots, WorkerSlots
  <2>2. IsFiniteSet(WorkerSlots)
    BY <2>1, FS_Subset
  <2>3. before \in SUBSET WorkerSlots /\ s \notin before
    BY <2>1 DEF Slots
  <2>4. before # WorkerSlots
    BY <1>2, <2>3
  <2>5. /\ IsFiniteSet(before) /\ Cardinality(before) <= Cardinality(WorkerSlots)
        /\ Cardinality(before) # Cardinality(WorkerSlots)
    <3> HIDE DEF before
    <3> QED BY <2>2, <2>3, <2>4, FS_Subset
  <2>6. Cardinality(before) \in Nat /\ Cardinality(WorkerSlots) \in Nat
    BY <2>2, <2>5, FS_CardinalityType
  <2> QED BY <1>2, <2>5, <2>6, MasterConstants DEF MasterConstants
<1>3. Cardinality(WorkerSlots) <= MaxSaved => SavedPids = WorkerPids
  BY <1>2 DEF SavedPids, WorkerPids
<1> QED BY <1>1, <1>3

(* Whenever the master sleeps, kv_http___sysguard_pids holds pids of       *)
(* workers of its table, dead ones it will learn of included, and of all   *)
(* of them if their list fits, whatever was reloaded, respawned, shrunk or *)
(* failed to start.                                                        *)
THEOREM PublishedHolds == Spec => []PidsPublished
<1>1. Spec => [](TypeOK /\ Published)
  BY TypeCorrect, InitPublished, PublishedNext, PTL DEF Spec
<1>2. TypeOK /\ Published => PidsPublished
  BY SavedAll DEF Published, Saved, PidsPublished
<1> QED
  BY <1>1, <1>2, PTL

-----------------------------------------------------------------------------
(* The instances of copilots.                                              *)

(* The requests of a batch that are of a set R; those for one kind of      *)
(* process.                                                                *)
Wanted(R) == {i \in DOMAIN todo : todo[i] \in R}
AskedFor(n) == {q \in Requests : q.name = n}

(* They are finitely many.                                                 *)
LEMMA FiniteWanted ==
  ASSUME TypeOK, NEW R
  PROVE  IsFiniteSet(Wanted(R)) /\ Cardinality(Wanted(R)) \in Nat
<1>1. IsFiniteSet(DOMAIN todo) /\ Wanted(R) \in SUBSET DOMAIN todo
  <2>1. Len(todo) \in Nat /\ DOMAIN todo = 1..Len(todo)
    BY LenProperties DEF TypeOK
  <2>2. IsFiniteSet(1..Len(todo))
    BY <2>1, FS_Interval
  <2> QED
    BY <2>1, <2>2 DEF Wanted
<1> QED
  BY <1>1, FS_Subset, FS_CardinalityType

(* The first request is taken off the batch.                               *)
LEMMA TailWanted ==
  ASSUME TypeOK, NEW R, todo # <<>>, todo' = Tail(todo)
  PROVE  Cardinality(Wanted(R)') = IF Head(todo) \in R THEN Cardinality(Wanted(R)) - 1
                                                       ELSE Cardinality(Wanted(R))
<1> DEFINE D == Wanted(R) \ {1}
           f == [i \in D |-> i - 1]
<1>1. /\ Len(todo) \in Nat \ {0} /\ DOMAIN todo = 1..Len(todo)
      /\ DOMAIN todo' = 1..(Len(todo) - 1)
      /\ \A i \in 1..(Len(todo) - 1) : todo'[i] = todo[i + 1]
  <2>1. todo \in Seq(Requests)
    BY DEF TypeOK
  <2>2. Len(todo) \in Nat \ {0} /\ DOMAIN todo = 1..Len(todo)
    BY <2>1, LenProperties, EmptySeq
  <2>3. /\ todo' \in Seq(Requests) /\ Len(todo') = Len(todo) - 1
        /\ \A i \in 1..Len(todo') : todo'[i] = todo[i + 1]
    BY <2>1, HeadTailProperties
  <2>4. DOMAIN todo' = 1..Len(todo')
    BY <2>3, LenProperties
  <2> QED
    BY <2>2, <2>3, <2>4
<1>2. D \subseteq 2..Len(todo)
  BY <1>1 DEF Wanted
<1>3. f \in Bijection(D, Wanted(R)')
  <2>1. f \in [D -> Wanted(R)']
    <3>1. ASSUME NEW i \in D PROVE i - 1 \in Wanted(R)'
      <4>1. i \in 2..Len(todo) /\ i - 1 \in 1..(Len(todo) - 1)
        BY <1>1, <1>2
      <4>2. todo'[i - 1] = todo[i]
        BY <1>1, <4>1
      <4> QED
        BY <1>1, <4>1, <4>2 DEF Wanted
    <3> QED
      BY <3>1
  <2>2. \A i, j \in D : f[i] = f[j] => i = j
    BY <1>2
  <2>3. ASSUME NEW j \in Wanted(R)' PROVE \E i \in D : f[i] = j
    <3>1. j \in 1..(Len(todo) - 1) /\ todo'[j] = todo[j + 1]
      BY <1>1 DEF Wanted
    <3>2. j + 1 \in D
      BY <1>1, <3>1 DEF Wanted
    <3> QED
      BY <3>1, <3>2
  <2> HIDE DEF D, f
  <2> QED
    BY <2>1, <2>2, <2>3, Fun_IsBij
<1>4. IsFiniteSet(Wanted(R))
  BY FiniteWanted
<1>5. IsFiniteSet(D) /\ Cardinality(D) = IF 1 \in Wanted(R) THEN Cardinality(Wanted(R)) - 1
                                                          ELSE Cardinality(Wanted(R))
  BY <1>4, FS_RemoveElement
<1>6. Cardinality(Wanted(R)') = Cardinality(D)
  <2> HIDE DEF D, f
  <2>1. ExistsBijection(D, Wanted(R)')
    BY <1>3, Fun_ExistsBij
  <2> QED
    BY <1>5, <2>1, FS_Bijection
<1>7. 1 \in Wanted(R) <=> Head(todo) \in R
  BY <1>1 DEF Wanted
<1> QED
  BY <1>5, <1>6, <1>7

(* Every helper directive is in one slot, or still to be spawned, at most. *)
DueTo(r) == {i \in DOMAIN todo : todo[i].name = "helper" /\ todo[i].reload = r}
Directives(r) == IF r THEN NReload ELSE NKeep
OneInv ==
  /\ pc # "spawn" => todo = <<>>
  /\ \A r \in BOOLEAN : Cardinality(Helpers(r)) + Cardinality(DueTo(r)) <= Directives(r)

(* The sets that are counted are finite.                                   *)
LEMMA CountedSets ==
  ASSUME TypeOK, NEW r
  PROVE  /\ IsFiniteSet(Helpers(r)) /\ Cardinality(Helpers(r)) \in Nat
         /\ IsFiniteSet(DueTo(r)) /\ Cardinality(DueTo(r)) \in Nat
<1>1. IsFiniteSet(Slots) /\ Helpers(r) \in SUBSET Slots
  BY MasterConstants, FS_Interval DEF Slots, Helpers
<1>2. IsFiniteSet(DOMAIN todo) /\ DueTo(r) \in SUBSET DOMAIN todo
  <2>1. Len(todo) \in Nat /\ DOMAIN todo = 1..Len(todo)
    BY LenProperties DEF TypeOK
  <2>2. IsFiniteSet(1..Len(todo))
    BY <2>1, FS_Interval
  <2> QED
    BY <2>1, <2>2 DEF DueTo
<1>3. IsFiniteSet(Helpers(r)) /\ IsFiniteSet(DueTo(r))
  BY <1>1, <1>2, FS_Subset
<1> QED
  BY <1>3, FS_CardinalityType

(* Fewer copilots in the table and fewer to be spawned do no harm.         *)
LEMMA FewerHelpers ==
  ASSUME TypeOK, OneInv, pc' # "spawn" => todo' = <<>>,
         \A r \in BOOLEAN : Helpers(r)' \subseteq Helpers(r) /\ DueTo(r)' \subseteq DueTo(r)
  PROVE  OneInv'
<1>1. ASSUME NEW r \in BOOLEAN
      PROVE  Cardinality(Helpers(r)') + Cardinality(DueTo(r)') <= Directives(r)
  <2>1. /\ IsFiniteSet(Helpers(r)) /\ Cardinality(Helpers(r)) \in Nat
        /\ IsFiniteSet(DueTo(r)) /\ Cardinality(DueTo(r)) \in Nat
    BY CountedSets
  <2>2. IsFiniteSet(Helpers(r)') /\ Cardinality(Helpers(r)') <= Cardinality(Helpers(r))
    BY <2>1, FS_Subset
  <2>3. IsFiniteSet(DueTo(r)') /\ Cardinality(DueTo(r)') <= Cardinality(DueTo(r))
    BY <2>1, FS_Subset
  <2>4. Cardinality(Helpers(r)') \in Nat /\ Cardinality(DueTo(r)') \in Nat
    BY <2>2, <2>3, FS_CardinalityType
  <2>5. Cardinality(Helpers(r)) + Cardinality(DueTo(r)) <= Directives(r)
    BY DEF OneInv
  <2>6. Directives(r) \in Nat
    BY MasterConstants DEF Directives
  <2> QED
    BY <2>1, <2>2, <2>3, <2>4, <2>5, <2>6
<1> QED
  BY <1>1 DEF OneInv, Directives

(* A batch without copilots, or none at all.                               *)
LEMMA NothingDue ==
  ASSUME \/ todo' = <<>> \/ todo' = AgentRequests
         \/ \E n, just : todo' = WorkerRequests(n, just)
  PROVE  \A r : DueTo(r)' = {}
<1>1. CASE todo' = <<>>
  BY <1>1 DEF DueTo
<1>2. CASE todo' = AgentRequests
  BY <1>2 DEF DueTo, AgentRequests, Request
<1>3. ASSUME NEW n, NEW just, todo' = WorkerRequests(n, just)
      PROVE  \A r : DueTo(r)' = {}
  BY <1>3 DEF DueTo, WorkerRequests, Request
<1> QED
  BY <1>1, <1>2, <1>3

(* The same of the requests for a copilot.                                 *)
LEMMA TailDue ==
  ASSUME TypeOK, NEW r, todo # <<>>, todo' = Tail(todo)
  PROVE  Cardinality(DueTo(r)') =
           IF Head(todo).name = "helper" /\ Head(todo).reload = r
           THEN Cardinality(DueTo(r)) - 1 ELSE Cardinality(DueTo(r))
<1> DEFINE R == {q \in Requests : q.name = "helper" /\ q.reload = r}
<1>1. todo \in Seq(Requests) /\ todo' \in Seq(Requests)
  BY HeadTailProperties DEF TypeOK
<1>2. /\ \A i \in DOMAIN todo : todo[i] \in Requests
      /\ \A i \in DOMAIN todo' : todo'[i] \in Requests
      /\ Head(todo) \in Requests
  BY <1>1, HeadTailProperties, ElementOfSeq, LenProperties
<1>3. DueTo(r) = Wanted(R) /\ DueTo(r)' = Wanted(R)'
  BY <1>2 DEF DueTo, Wanted
<1> QED
  BY <1>2, <1>3, TailWanted

(* A spawn moves a request from the batch to the table, or drops it.       *)
LEMMA SpawnOne == TypeOK /\ OneInv /\ Spawn => OneInv'
<1> SUFFICES ASSUME TypeOK, OneInv, Spawn PROVE OneInv'
  OBVIOUS
<1>1. pc = "spawn" /\ pc' = "spawn" /\ todo # <<>> /\ todo' = Tail(todo)
  BY DEF Spawn
<1>2. ASSUME NEW r \in BOOLEAN
      PROVE  Cardinality(Helpers(r)') + Cardinality(DueTo(r)') <= Directives(r)
  <2> DEFINE due == Head(todo).name = "helper" /\ Head(todo).reload = r
  <2>1. Cardinality(DueTo(r)') = IF due THEN Cardinality(DueTo(r)) - 1
                                       ELSE Cardinality(DueTo(r))
    BY <1>1, TailDue
  <2>2. /\ IsFiniteSet(Helpers(r)) /\ Cardinality(Helpers(r)) \in Nat
        /\ Cardinality(DueTo(r)) \in Nat
    BY CountedSets
  <2>3. \/ Cardinality(Helpers(r)') = Cardinality(Helpers(r))
        \/ due /\ Cardinality(Helpers(r)') = Cardinality(Helpers(r)) + 1
    <3>1. CASE SameSlots
      <4>1. Helpers(r)' = Helpers(r)
        BY <3>1, SameSlotsSets
      <4> QED
        BY <4>1
    <3>2. ASSUME NEW s \in Slots, ~Held(s), Held(s)',
                 processes'[s].name = Head(todo).name,
                 processes'[s].reload = Head(todo).reload,
                 \A t \in Slots \ {s} : processes'[t] = processes[t] /\ (Held(t)' <=> Held(t))
          PROVE  \/ Helpers(r)' = Helpers(r)
                 \/ due /\ s \notin Helpers(r) /\ Helpers(r)' = Helpers(r) \union {s}
      BY <3>2 DEF Helpers
    <3>3. ASSUME NEW s, due, s \notin Helpers(r), Helpers(r)' = Helpers(r) \union {s}
          PROVE  Cardinality(Helpers(r)') = Cardinality(Helpers(r)) + 1
      BY <2>2, <3>3, FS_AddElement
    <3>4. ASSUME Helpers(r)' = Helpers(r)
          PROVE  Cardinality(Helpers(r)') = Cardinality(Helpers(r))
      BY <3>4
    <3> HIDE DEF due
    <3> QED
      BY <3>1, <3>2, <3>3, <3>4, SpawnSlots DEF due
  <2>4. Cardinality(Helpers(r)) + Cardinality(DueTo(r)) <= Directives(r)
    BY DEF OneInv
  <2>5. Directives(r) \in Nat
    BY MasterConstants DEF Directives
  <2> QED
    BY <2>1, <2>2, <2>3, <2>4, <2>5
<1> QED
  BY <1>1, <1>2 DEF OneInv, Directives

(* Copilots are started again when none of them is left in the table.      *)
LEMMA ReapEndOne == TypeOK /\ OneInv /\ ReapEnd => OneInv'
<1> SUFFICES ASSUME TypeOK, OneInv, ReapEnd PROVE OneInv'
  OBVIOUS
<1>1. pc = "reap" /\ pc' = "spawn" /\ todo = <<>>
  BY DEF ReapEnd, OneInv
<1>2. \A r : Helpers(r)' = Helpers(r)
  BY ReapEndSlots, SameSlotsSets
<1>3. CASE todo' = <<>>
  BY <1>1, <1>2, <1>3, NothingDue, FewerHelpers
<1>4. CASE RestartNow
  <2>1. todo' = HelperRequests(NReload, TRUE)
    BY <1>4 DEF RestartNow, StartHelpers
  <2>2. ASSUME NEW r \in BOOLEAN
        PROVE  Cardinality(Helpers(r)') + Cardinality(DueTo(r)') <= Directives(r)
    <3>1. Cardinality({}) = 0 /\ Cardinality(1..NReload) = NReload
      BY MasterConstants, FS_Interval, FS_EmptySet
    <3>2. CASE r
      <4>1. Helpers(r)' = {} /\ DueTo(r)' = 1..NReload
        <5>1. Helpers(r) = {}
          BY <1>4, <3>2 DEF Helpers, RestartNow, ReloadableHelper
        <5>2. DueTo(r)' = 1..NReload
          BY <2>1, <3>2 DEF DueTo, HelperRequests, Request
        <5> QED
          BY <1>2, <5>1, <5>2
      <4>2. Cardinality(Helpers(r)') = 0 /\ Cardinality(DueTo(r)') = NReload
        BY <3>1, <4>1
      <4>3. Directives(r) = NReload /\ NReload \in Nat
        BY <3>2, MasterConstants DEF Directives
      <4> QED
        BY <4>2, <4>3
    <3>3. CASE ~r
      <4>1. DueTo(r)' = {}
        BY <2>1, <3>3 DEF DueTo, HelperRequests, Request
      <4>2. /\ Cardinality(Helpers(r)') = Cardinality(Helpers(r))
            /\ Cardinality(DueTo(r)') = 0
        BY <1>2, <3>1, <4>1
      <4>3. Cardinality(Helpers(r)) \in Nat /\ Cardinality(DueTo(r)) \in Nat
        BY CountedSets
      <4>4. Cardinality(Helpers(r)) + Cardinality(DueTo(r)) <= Directives(r)
        BY DEF OneInv
      <4>5. Directives(r) \in Nat
        BY MasterConstants DEF Directives
      <4> QED
        BY <4>2, <4>3, <4>4, <4>5
    <3> QED
      BY <3>2, <3>3
  <2> QED
    BY <1>1, <2>2 DEF OneInv, Directives
<1> QED
  BY <1>3, <1>4 DEF ReapEnd, RestartLater

(* A respawn keeps the slot to what it was, a release empties it.          *)
LEMMA ReapSlots ==
  ASSUME TypeOK, ReapRespawn \/ ReapRelease
  PROVE  /\ \A r : Helpers(r)' \subseteq Helpers(r)
         /\ \A n : SlotsOf(n)' \subseteq SlotsOf(n)
<1> USE DEF TypeOK, TableType
<1>1. PICK i \in Slots : i = idx /\ i <= last /\ processes[i].pid # NoPid
  <2>1. idx <= last /\ processes[idx].pid # NoPid
    BY DEF ReapRespawn, ReapRelease, Reaping
  <2>2. idx \in Slots
    BY <2>1, MasterConstants DEF CountType, Slots
  <2> QED
    BY <2>1, <2>2
<1>2. CASE ReapRespawn
  <2>1. CASE UNCHANGED processes
    BY <1>2, <2>1, SameTable, SameSlotsSets DEF ReapRespawn
  <2>2. ASSUME NEW p \in Pids,
               processes' = [processes EXCEPT ![idx].pid = p, ![idx].exited = FALSE]
        PROVE  /\ \A r : Helpers(r)' \subseteq Helpers(r)
               /\ \A n : SlotsOf(n)' \subseteq SlotsOf(n)
    <3>1. last' = last
      BY <1>2 DEF ReapRespawn
    <3>2. \A s \in Slots : /\ processes'[s].name = processes[s].name
                           /\ processes'[s].reload = processes[s].reload
                           /\ s # i => processes'[s].pid = processes[s].pid
      BY <1>1, <2>2 DEF Slot
    <3>3. \A s \in Slots : Held(s)' => Held(s)
      BY <1>1, <3>1, <3>2 DEF Held
    <3> QED
      BY <3>2, <3>3 DEF Helpers, SlotsOf
  <2> QED
    BY <1>2, <2>1, <2>2 DEF ReapRespawn
<1>3. CASE ReapRelease
  <2>1. /\ processes' = [processes EXCEPT ![i] = FreeSlot]
        /\ last' = IF i = last THEN last - 1 ELSE last
    BY <1>1, <1>3 DEF ReapRelease
  <2>2. \A s \in Slots : Held(s)' => processes'[s] = processes[s] /\ Held(s)
    BY <1>1, <2>1 DEF Held, FreeSlot, Slots
  <2> QED
    BY <2>2 DEF Helpers, SlotsOf
<1> QED
  BY <1>2, <1>3

(* The batch stays as it is, and the helpers at most go.                   *)
LEMMA HelpersKept ==
  ASSUME TypeOK, OneInv, \A r : Helpers(r)' \subseteq Helpers(r), todo' = todo,
         pc' = pc \/ pc # "spawn" \/ todo = <<>>
  PROVE  OneInv'
<1>1. pc' # "spawn" => todo' = <<>>
  BY DEF OneInv
<1>2. \A r : DueTo(r)' = DueTo(r)
  BY DEF DueTo
<1> QED
  BY <1>1, <1>2, FewerHelpers

(* The batch is replaced by one without copilots.                          *)
LEMMA HelpersLeft ==
  ASSUME TypeOK, OneInv, \A r : Helpers(r)' = Helpers(r),
         \/ todo' = <<>>
         \/ /\ pc' = "spawn"
            /\ todo' = AgentRequests \/ \E n, just : todo' = WorkerRequests(n, just)
  PROVE  OneInv'
<1>1. \A r : DueTo(r)' = {}
  BY NothingDue
<1>2. pc' # "spawn" => todo' = <<>>
  OBVIOUS
<1> QED
  BY <1>1, <1>2, FewerHelpers

(* Every step keeps every helper directive in one place.                   *)
LEMMA OneNext == TypeOK /\ OneInv /\ [Next]_vars => OneInv'
<1> SUFFICES ASSUME TypeOK, OneInv, [Next]_vars PROVE OneInv'
  OBVIOUS
<1>1. CASE Spawn
  BY <1>1, SpawnOne
<1>2. CASE SpawnDone
  BY <1>2, SameTable, SameSlotsSets, HelpersKept DEF SpawnDone, EndBatch, table
<1>3. CASE Boot
  BY <1>3, CheckCountSlots, HelpersLeft DEF Boot
<1>4. CASE Top \/ ReapEmpty \/ ReapLive \/ ReapCrash \/ Exit \/ Reconfigure \/ NoReload
  <2>1. UNCHANGED <<processes, last, todo>> /\ pc # "spawn"
    BY <1>4 DEF Top, ReapEmpty, ReapLive, ReapCrash, Exit, Reconfigure, NoReload,
                NextSlot, Reaping, table
  <2> QED
    BY <2>1, SameTable, SameSlotsSets, HelpersKept
<1>5. CASE Wake
  <2>1. pc = "wait" /\ todo' = todo /\ last' = last
    BY <1>5 DEF Wake
  <2>2. SameSlots
    BY <1>5, <2>1, StatusSlots, SameTable DEF Wake
  <2> QED
    BY <2>1, <2>2, SameSlotsSets, HelpersKept
<1>6. CASE ReapRespawn \/ ReapRelease
  <2>1. pc = "reap" /\ todo' = todo
    BY <1>6 DEF ReapRespawn, ReapRelease, NextSlot, Reaping
  <2> QED
    BY <1>6, <2>1, ReapSlots, HelpersKept
<1>7. CASE ReapEnd
  BY <1>7, ReapEndOne
<1>8. CASE Terminate \/ Quit
  <2>1. pc = "decide" /\ todo' = todo /\ last' = last
    BY <1>8 DEF Terminate, Quit
  <2>2. SameSlots
    BY <1>8, <2>1, SignalSlots, SameTable DEF Terminate, Quit
  <2> QED
    BY <2>1, <2>2, SameSlotsSets, HelpersKept
<1>9. CASE Recount
  BY <1>9, CheckCountSlots, HelpersLeft DEF Recount
<1>10. CASE StartNew
  <2>1. pc' = "spawn" /\ todo' = WorkerRequests(ccf, TRUE)
    BY <1>10 DEF StartNew
  <2>2. SameSlots
    BY <1>10, SameTable DEF StartNew, table
  <2> QED
    BY <2>1, <2>2, SameSlotsSets, HelpersLeft
<1>11. CASE RestartCmd
  <2>1. PICK T, st : Tell(T, st)
    BY <1>11 DEF RestartCmd
  <2>2. last' = last /\ pc = "cmd" /\ todo' = todo
    BY <1>11 DEF RestartCmd
  <2> QED
    BY <2>1, <2>2, TellSlots, SameSlotsSets, HelpersKept
<1>12. CASE RuntimeCount
  <2>1. CASE UpdateWorkers(kv, "agent", "agent")
    BY <2>1, UpdateWorkersSlots, HelpersLeft
  <2>2. CASE UNCHANGED <<table, todo>>
    BY <1>12, <2>2, SameTable, SameSlotsSets, HelpersKept DEF RuntimeCount, table
  <2> QED
    BY <1>12, <2>1, <2>2 DEF RuntimeCount
<1>13. CASE RestartAgent
  <2>1. SameSlots /\ pc = "agent"
    BY <1>13, SameTable DEF RestartAgent, table
  <2>2. \/ todo' = todo
        \/ todo' = AgentRequests /\ pc' = "spawn"
    BY <1>13 DEF RestartAgent
  <2> QED
    BY <2>1, <2>2, SameSlotsSets, HelpersKept, HelpersLeft
<1>14. CASE Environment
  <2>1. UNCHANGED <<processes, last, todo, pc>>
    BY <1>14
    DEF Environment, ChildExit, ChildCrash, Alarm, SetCount, Reload, Stop, masterVars, table
  <2> QED
    BY <2>1, SameTable, SameSlotsSets, HelpersKept
<1>15. CASE UNCHANGED vars
  BY <1>15, SameTable, SameSlotsSets, HelpersKept DEF vars
<1> QED
  BY <1>1, <1>2, <1>3, <1>4, <1>5, <1>6, <1>7, <1>8, <1>9, <1>10, <1>11, <1>12, <1>13, <1>14, <1>15 DEF Next, MasterStep

(* The requests of a set R in a sequence of requests.                      *)
Among(q, R) == {i \in DOMAIN q : q[i] \in R}

(* They are finitely many.                                                 *)
LEMMA AmongFinite ==
  ASSUME NEW q \in Seq(Requests), NEW R
  PROVE  IsFiniteSet(Among(q, R)) /\ Cardinality(Among(q, R)) \in Nat
<1>1. IsFiniteSet(1..Len(q)) /\ DOMAIN q = 1..Len(q)
  BY LenProperties, FS_Interval
<1> QED
  BY <1>1, FS_Subset, FS_CardinalityType DEF Among

(* Two batches one after the other.                                        *)
LEMMA AmongConcat ==
  ASSUME NEW a \in Seq(Requests), NEW b \in Seq(Requests), NEW R
  PROVE  Cardinality(Among(a \o b, R)) = Cardinality(Among(a, R)) + Cardinality(Among(b, R))
<1> DEFINE f == [i \in Among(b, R) |-> Len(a) + i]
           B == {Len(a) + i : i \in Among(b, R)}
<1>1. /\ Len(a) \in Nat /\ DOMAIN a = 1..Len(a)
      /\ Len(b) \in Nat /\ DOMAIN b = 1..Len(b)
      /\ DOMAIN (a \o b) = 1..(Len(a) + Len(b))
      /\ \A i \in 1..(Len(a) + Len(b)) :
            (a \o b)[i] = IF i <= Len(a) THEN a[i] ELSE b[i - Len(a)]
  BY LenProperties, ConcatProperties
<1>2. Among(a \o b, R) = Among(a, R) \union B /\ Among(a, R) \intersect B = {}
  <2>1. ASSUME NEW i \in Among(a \o b, R), i \notin Among(a, R) PROVE i \in B
    <3>1. i \in 1..(Len(a) + Len(b)) /\ ~(i <= Len(a)) /\ b[i - Len(a)] \in R
      BY <1>1, <2>1 DEF Among
    <3>2. i - Len(a) \in Among(b, R) /\ i = Len(a) + (i - Len(a))
      BY <1>1, <3>1 DEF Among
    <3> QED
      BY <3>2
  <2>2. ASSUME NEW i \in Among(a, R) PROVE i \in Among(a \o b, R)
    BY <1>1 DEF Among
  <2>3. ASSUME NEW i \in Among(b, R)
        PROVE  Len(a) + i \in Among(a \o b, R) /\ Len(a) + i \notin Among(a, R)
    <3>1. i \in 1..Len(b) /\ b[i] \in R
      BY <1>1 DEF Among
    <3>2. (a \o b)[Len(a) + i] = b[i] /\ Len(a) + i \in 1..(Len(a) + Len(b))
      BY <1>1, <3>1
    <3> QED
      BY <1>1, <3>1, <3>2 DEF Among
  <2> QED
    BY <2>1, <2>2, <2>3
<1>3. IsFiniteSet(B) /\ Cardinality(B) = Cardinality(Among(b, R))
  <2>1. f \in Bijection(Among(b, R), B)
    <3>1. f \in [Among(b, R) -> B]
      OBVIOUS
    <3>2. Among(b, R) \subseteq Nat
      BY <1>1 DEF Among
    <3>3. \A i, j \in Among(b, R) : f[i] = f[j] => i = j
      BY <1>1, <3>2
    <3>4. \A k \in B : \E i \in Among(b, R) : f[i] = k
      OBVIOUS
    <3> HIDE DEF f, B
    <3> QED
      BY <3>1, <3>3, <3>4, Fun_IsBij
  <2> HIDE DEF f, B
  <2>2. ExistsBijection(Among(b, R), B)
    BY <2>1, Fun_ExistsBij
  <2> QED
    BY <2>2, AmongFinite, FS_Bijection
<1> HIDE DEF B
<1>4. Cardinality(Among(a, R) \union B) =
        Cardinality(Among(a, R)) + Cardinality(B) - Cardinality(Among(a, R) \intersect B)
  BY <1>3, AmongFinite, FS_Union, Zenon
<1>5. Cardinality(Among(a, R) \intersect B) = 0
  BY <1>2, FS_EmptySet, Zenon
<1> QED
  BY <1>2, <1>3, <1>4, <1>5, AmongFinite

(* A batch of which all are in R.                                          *)
LEMMA AmongAll ==
  ASSUME NEW n \in Nat, NEW R, NEW q, DOMAIN q = 1..n, \A i \in 1..n : q[i] \in R
  PROVE  Cardinality(Among(q, R)) = n
<1>1. Among(q, R) = 1..n
  BY DEF Among
<1> QED
  BY <1>1, FS_Interval

(* A batch of which none is in R.                                          *)
LEMMA AmongNone ==
  ASSUME NEW R, NEW q, \A i \in DOMAIN q : q[i] \notin R
  PROVE  Cardinality(Among(q, R)) = 0
<1>1. Among(q, R) = {}
  BY DEF Among
<1> QED
  BY <1>1, FS_EmptySet

(* The first batch.                                                        *)
LEMMA FirstBatch ==
  ASSUME Init, NEW R
  PROVE  Cardinality(Wanted(R)) =
           (IF Request("worker", FALSE, FALSE) \in R THEN ccf ELSE 0)
           + (IF Request("helper", FALSE, FALSE) \in R THEN NKeep ELSE 0)
           + (IF Request("helper", FALSE, TRUE) \in R THEN NReload ELSE 0)
           + (IF PrivilegedAgent /\ Request("agent", FALSE, FALSE) \in R THEN 1 ELSE 0)
<1> DEFINE w == WorkerRequests(ccf, FALSE)
           k == HelperRequests(NKeep, FALSE)
           h == HelperRequests(NReload, TRUE)
           a == AgentRequests
<1>1. ccf \in Nat /\ NKeep \in Nat /\ NReload \in Nat /\ PrivilegedAgent \in BOOLEAN
  BY MasterConstants DEF Init
<1>2. /\ w \in Seq(Requests) /\ k \in Seq(Requests)
      /\ h \in Seq(Requests) /\ a \in Seq(Requests)
  BY <1>1, WorkerRequestsType, HelperRequestsType, AgentRequestsType
<1>3. Cardinality(Among(w, R)) = IF Request("worker", FALSE, FALSE) \in R THEN ccf ELSE 0
  <2>1. DOMAIN w = 1..ccf /\ \A i \in 1..ccf : w[i] = Request("worker", FALSE, FALSE)
    BY DEF WorkerRequests
  <2>2. CASE Request("worker", FALSE, FALSE) \in R
    <3> HIDE DEF w
    <3>1. \A i \in 1..ccf : w[i] \in R
      BY <2>1, <2>2
    <3> QED
      BY <1>1, <2>1, <2>2, <3>1, AmongAll
  <2>3. CASE Request("worker", FALSE, FALSE) \notin R
    <3> HIDE DEF w
    <3>1. \A i \in DOMAIN w : w[i] \notin R
      BY <2>1, <2>3
    <3> QED
      BY <2>3, <3>1, AmongNone
  <2> QED
    BY <2>2, <2>3
<1>4. Cardinality(Among(k, R)) = IF Request("helper", FALSE, FALSE) \in R THEN NKeep ELSE 0
  <2>1. DOMAIN k = 1..NKeep /\ \A i \in 1..NKeep : k[i] = Request("helper", FALSE, FALSE)
    BY DEF HelperRequests
  <2>2. CASE Request("helper", FALSE, FALSE) \in R
    <3> HIDE DEF k
    <3>1. \A i \in 1..NKeep : k[i] \in R
      BY <2>1, <2>2
    <3> QED
      BY <1>1, <2>1, <2>2, <3>1, AmongAll
  <2>3. CASE Request("helper", FALSE, FALSE) \notin R
    <3> HIDE DEF k
    <3>1. \A i \in DOMAIN k : k[i] \notin R
      BY <2>1, <2>3
    <3> QED
      BY <2>3, <3>1, AmongNone
  <2> QED
    BY <2>2, <2>3
<1>5. Cardinality(Among(h, R)) = IF Request("helper", FALSE, TRUE) \in R THEN NReload ELSE 0
  <2>1. DOMAIN h = 1..NReload /\ \A i \in 1..NReload : h[i] = Request("helper", FALSE, TRUE)
    BY DEF HelperRequests
  <2>2. CASE Request("helper", FALSE, TRUE) \in R
    <3> HIDE DEF h
    <3>1. \A i \in 1..NReload : h[i] \in R
      BY <2>1, <2>2
    <3> QED
      BY <1>1, <2>1, <2>2, <3>1, AmongAll
  <2>3. CASE Request("helper", FALSE, TRUE) \notin R
    <3> HIDE DEF h
    <3>1. \A i \in DOMAIN h : h[i] \notin R
      BY <2>1, <2>3
    <3> QED
      BY <2>3, <3>1, AmongNone
  <2> QED
    BY <2>2, <2>3
<1>6. Cardinality(Among(a, R)) =
        IF PrivilegedAgent /\ Request("agent", FALSE, FALSE) \in R THEN 1 ELSE 0
  <2> DEFINE n == IF PrivilegedAgent THEN 1 ELSE 0
  <2>1. DOMAIN a = 1..n /\ \A i \in 1..n : a[i] = Request("agent", FALSE, FALSE)
    BY DEF AgentRequests
  <2>2. n \in Nat
    OBVIOUS
  <2>3. CASE Request("agent", FALSE, FALSE) \in R
    <3>1. Cardinality(Among(a, R)) = n
      <4> HIDE DEF a, n
      <4>1. \A i \in 1..n : a[i] \in R
        BY <2>1, <2>3
      <4> QED
        BY <2>1, <2>2, <4>1, AmongAll
    <3> QED
      BY <2>3, <3>1
  <2>4. CASE Request("agent", FALSE, FALSE) \notin R
    <3>1. Cardinality(Among(a, R)) = 0
      <4> HIDE DEF a, n
      <4>1. \A i \in DOMAIN a : a[i] \notin R
        BY <2>1, <2>4
      <4> QED
        BY <4>1, AmongNone
    <3> QED
      BY <2>4, <3>1
  <2> QED
    BY <2>3, <2>4
<1>7. todo = w \o k \o h \o a
  BY DEF Init
<1> HIDE DEF w, k, h, a
<1>8. w \o k \in Seq(Requests) /\ w \o k \o h \in Seq(Requests)
  BY <1>2, ConcatProperties
<1>9. Cardinality(Among(w \o k \o h \o a, R)) =
        Cardinality(Among(w, R)) + Cardinality(Among(k, R))
        + Cardinality(Among(h, R)) + Cardinality(Among(a, R))
  <2>1. Cardinality(Among(w \o k, R)) = Cardinality(Among(w, R)) + Cardinality(Among(k, R))
    BY <1>2, AmongConcat
  <2> DEFINE wk == w \o k
             wkh == wk \o h
  <2>2. wk \in Seq(Requests) /\ wkh \in Seq(Requests)
    BY <1>8
  <2> HIDE DEF wk
  <2>3. Cardinality(Among(wk \o h, R)) = Cardinality(Among(wk, R)) + Cardinality(Among(h, R))
    BY <1>2, <2>2, AmongConcat
  <2> HIDE DEF wkh
  <2>4. Cardinality(Among(wkh \o a, R)) = Cardinality(Among(wkh, R)) + Cardinality(Among(a, R))
    BY <1>2, <2>2, AmongConcat
  <2>5. Cardinality(Among(wkh \o a, R)) =
          Cardinality(Among(w, R)) + Cardinality(Among(k, R))
          + Cardinality(Among(h, R)) + Cardinality(Among(a, R))
    BY <2>1, <2>3, <2>4 DEF wk, wkh
  <2> QED
    BY <2>5 DEF wk, wkh
<1>10. Wanted(R) = Among(todo, R)
  BY DEF Wanted, Among
<1> QED
  BY <1>3, <1>4, <1>5, <1>6, <1>7, <1>9, <1>10

(* It has one request for each directive.                                  *)
LEMMA InitOne == Init => OneInv
<1> SUFFICES ASSUME Init PROVE OneInv
  OBVIOUS
<1>1. ASSUME NEW r \in BOOLEAN
      PROVE  Cardinality(Helpers(r)) + Cardinality(DueTo(r)) <= Directives(r)
  <2> DEFINE R == {q \in Requests : q.name = "helper" /\ q.reload = r}
  <2>1. DueTo(r) = Wanted(R)
    <3>1. \A i \in DOMAIN todo : todo[i] \in Requests
      BY InitType, ElementOfSeq, LenProperties DEF TypeOK
    <3> QED
      BY <3>1 DEF DueTo, Wanted
  <2>2. /\ Request("worker", FALSE, FALSE) \notin R /\ Request("agent", FALSE, FALSE) \notin R
        /\ Request("helper", FALSE, FALSE) \in R <=> ~r
        /\ Request("helper", FALSE, TRUE) \in R <=> r
    BY DEF Request, Requests, Names
  <2> HIDE DEF R
  <2>3. Cardinality(DueTo(r)) = Directives(r)
    <3>1. /\ ccf \in Nat /\ NKeep \in Nat /\ NReload \in Nat
          /\ Cardinality(Wanted(R)) = (IF FALSE THEN ccf ELSE 0) + (IF ~r THEN NKeep ELSE 0)
                                       + (IF r THEN NReload ELSE 0) + (IF FALSE THEN 1 ELSE 0)
      BY <2>2, FirstBatch, InitType, MasterConstants DEF TypeOK, CountType
    <3> QED
      BY <2>1, <3>1 DEF Directives
  <2>4. Helpers(r) = {} /\ Cardinality(Helpers(r)) = 0
    BY FS_EmptySet DEF Init, Helpers, Held, FreeSlot
  <2>5. Directives(r) \in Nat
    BY MasterConstants DEF Directives
  <2> QED
    BY <2>3, <2>4, <2>5
<1>2. pc = "spawn"
  BY DEF Init
<1> QED
  BY <1>1, <1>2 DEF OneInv

(* No copilot directive is run twice, for every table, however many        *)
(* reloads, deaths, failed forks and failed channel writes there are.      *)
THEOREM OneInstanceHolds == Spec => []OneInstance
<1>1. ASSUME TypeOK, OneInv PROVE OneInstance
  <2>1. ASSUME NEW r \in BOOLEAN, NEW T, T = Helpers(r)
        PROVE  Instances(T) <= Directives(r)
    <3> DEFINE I == {s \in T : os[processes[s].pid].st \in {"run", "quit"}}
    <3>1. IsFiniteSet(T) /\ Cardinality(T) \in Nat /\ Cardinality(DueTo(r)) \in Nat
      BY <1>1, <2>1, CountedSets
    <3>2. IsFiniteSet(I) /\ Cardinality(I) <= Cardinality(T)
      BY <3>1, FS_Subset
    <3>3. Cardinality(I) \in Nat
      BY <3>2, FS_CardinalityType
    <3>4. Cardinality(T) + Cardinality(DueTo(r)) <= Directives(r)
      BY <1>1, <2>1 DEF OneInv
    <3>5. Directives(r) \in Nat
      BY MasterConstants DEF Directives
    <3>6. Instances(T) = Cardinality(I)
      BY DEF Instances
    <3> HIDE DEF I
    <3> QED
      BY <3>1, <3>2, <3>3, <3>4, <3>5, <3>6
  <2>2. {s \in Slots : Held(s) /\ ReloadableHelper(s)} = Helpers(TRUE)
    BY <1>1 DEF Helpers, ReloadableHelper, TypeOK, TableType, Slot
  <2>3. {s \in Slots : Held(s) /\ KeptHelper(s)} = Helpers(FALSE)
    BY <1>1 DEF Helpers, KeptHelper, TypeOK, TableType, Slot
  <2>4. Directives(TRUE) = NReload /\ Directives(FALSE) = NKeep
    BY DEF Directives
  <2> QED
    BY <2>1, <2>2, <2>3, <2>4 DEF OneInstance
<1>2. Spec => [](TypeOK /\ OneInv)
  BY TypeCorrect, InitOne, OneNext, PTL DEF Spec
<1> QED
  BY <1>1, <1>2, PTL

-----------------------------------------------------------------------------
(* The two counters of a shrink.  A change of the worker count is refused  *)
(* as long as njt_shrink_count and njt_shrink_finish_count differ.  If no  *)
(* fork fails, they differ only as long as one of the shrunk workers is    *)
(* still there, because a shrink never picks a slot whose process is       *)
(* already gone.                                                           *)

(* The pids in the slots of S.                                             *)
PidsOf(S) == {processes[s].pid : s \in S}

GoneSlot(s) == Held(s) /\ os[processes[s].pid].st = "none"

(* A slot whose process is gone is left only while the reap that is under  *)
(* way has yet to come to it.                                              *)
GoneWaiting ==
  \A s \in Slots : GoneSlot(s) => pc = "reap" /\ idx <= s /\ processes[s].exited

AccountInv ==
  /\ budget.fork = 0
  /\ Cardinality(shrink) <= MaxProcesses
  /\ shrinkFinish = Cardinality(ShrunkGone)
  /\ pc # "crashed" => GoneWaiting

ForksSucceed == MaxForkFail = 0 /\ MaxPid > 2 * MaxProcesses

-----------------------------------------------------------------------------
(* There is a pid for every fork.                                          *)

(* Slots hold no more pids than there are slots.                           *)
LEMMA PidsOfSlots ==
  ASSUME TypeOK, NEW S \in SUBSET Slots
  PROVE  IsFiniteSet(PidsOf(S)) /\ Cardinality(PidsOf(S)) <= MaxProcesses
<1> DEFINE f == [s \in S |-> processes[s].pid]
<1>1. IsFiniteSet(Slots) /\ Cardinality(Slots) = MaxProcesses
  BY MasterConstants, FS_Interval DEF Slots
<1>2. IsFiniteSet(S) /\ Cardinality(S) <= MaxProcesses
  BY <1>1, FS_Subset
<1>3. f \in Surjection(S, PidsOf(S))
  <2>1. f \in [S -> PidsOf(S)] /\ \A p \in PidsOf(S) : \E s \in S : f[s] = p
    BY DEF PidsOf
  <2> HIDE DEF f
  <2> QED
    BY <2>1 DEF Surjection
<1> HIDE DEF f
<1>4. IsFiniteSet(PidsOf(S)) /\ Cardinality(PidsOf(S)) <= Cardinality(S)
  BY <1>2, <1>3, FS_Surjection
<1>5. Cardinality(S) \in Nat /\ Cardinality(PidsOf(S)) \in Nat
  BY <1>2, <1>4, FS_CardinalityType
<1> QED
  BY <1>2, <1>4, <1>5, MasterConstants

(* The kernel finds a pid when it has more of them than two tables.        *)
LEMMA PidIsLeft ==
  ASSUME MaxPid > 2 * MaxProcesses, TypeOK, SupervisionInv,
         Cardinality(shrink) <= MaxProcesses
  PROVE  \E p \in Pids : NewPid(p)
<1> DEFINE Used == PidsOf({s \in Slots : Held(s)}) \union shrink
           Left == {p \in Pids : UnusedPid(p)}
<1>1. IsFiniteSet(Used) /\ Cardinality(Used) <= 2 * MaxProcesses
  <2> DEFINE T == PidsOf({s \in Slots : Held(s)})
  <2>1. IsFiniteSet(T) /\ Cardinality(T) <= MaxProcesses
    BY PidsOfSlots
  <2>2. IsFiniteSet(shrink)
    BY PidsFinite DEF TypeOK, TableType
  <2> HIDE DEF T
  <2>3. /\ IsFiniteSet(T \union shrink)
        /\ Cardinality(T \union shrink) =
             Cardinality(T) + Cardinality(shrink) - Cardinality(T \intersect shrink)
    BY <2>1, <2>2, FS_Union, Zenon
  <2>4. IsFiniteSet(T \intersect shrink)
    BY <2>1, FS_Subset
  <2>5. /\ Cardinality(T) \in Nat /\ Cardinality(shrink) \in Nat
        /\ Cardinality(T \intersect shrink) \in Nat
    BY <2>1, <2>2, <2>4, FS_CardinalityType
  <2>6. Cardinality(T \union shrink) <= 2 * MaxProcesses
    BY <2>1, <2>3, <2>5, MasterConstants
  <2> QED
    BY <2>3, <2>6 DEF T
<1>2. IsFiniteSet(Pids) /\ Cardinality(Pids) = MaxPid
  BY MasterConstants, FS_Interval DEF Pids
<1>3. Left # {}
  <2>1. SUFFICES ASSUME Left = {} PROVE FALSE
    OBVIOUS
  <2>2. \A p \in Pids : p \in Used
    <3>1. ASSUME NEW p \in Pids, ~UnusedPid(p) PROVE p \in Used
      BY <3>1 DEF UnusedPid, InTable, PidsOf, SupervisionInv, Supervised
    <3> QED
      BY <2>1, <3>1
  <2> HIDE DEF Used
  <2>3. Pids \in SUBSET Used
    BY <2>2
  <2>4. Cardinality(Pids) <= Cardinality(Used) /\ Cardinality(Used) \in Nat
    BY <1>1, <2>3, FS_Subset, FS_CardinalityType
  <2> QED
    BY <1>1, <1>2, <2>4, MasterConstants
<1>4. Left \in SUBSET Nat
  BY DEF Pids
<1> HIDE DEF Left
<1>5. PICK p \in Left : \A q \in Left : p <= q
  BY <1>3, <1>4, Least
<1> QED
  BY <1>5 DEF Left, NewPid

(* So no fork fails.                                                       *)
LEMMA NoForkFails ==
  ASSUME ForksSucceed, TypeOK, SupervisionInv, AccountInv
  PROVE  ~ForkFails
<1>1. \E p \in Pids : NewPid(p)
  BY PidIsLeft DEF AccountInv, ForksSucceed
<1> QED
  BY <1>1 DEF ForkFails, AccountInv

-----------------------------------------------------------------------------
(* What the steps do to the two counters.                                  *)

(* A step that moves no pid: whoever is gone is still where the reap that  *)
(* is under way will find it.                                              *)
LEMMA SamePidsAccounted ==
  ASSUME TypeOK, AccountInv,
         UNCHANGED <<last, shrink, shrinkFinish>>, budget'.fork = budget.fork,
         \A s \in Slots : processes'[s].pid = processes[s].pid,
         \A s \in Slots : processes[s].exited => processes'[s].exited,
         \A p \in Pids : os'[p].st = "none" <=> os[p].st = "none",
         \/ pc' = "crashed"
         \/ UNCHANGED <<pc, idx>>
         \/ pc \notin {"reap", "crashed"}
         \/ pc = "reap" /\ \A s \in Slots : GoneSlot(s) => pc' = "reap" /\ idx' <= s
  PROVE  AccountInv'
<1>1. \A s \in Slots : Held(s)' <=> Held(s)
  BY DEF Held
<1>2. \A s \in Slots : Held(s) => processes[s].pid \in Pids
  BY DEF TypeOK, TableType, Slot, Held
<1>3. \A s \in Slots : GoneSlot(s)' <=> GoneSlot(s)
  BY <1>1, <1>2 DEF GoneSlot
<1>4. ShrunkGone' = ShrunkGone
  BY DEF ShrunkGone, TypeOK, TableType
<1>5. pc' # "crashed" => GoneWaiting'
  BY <1>3 DEF AccountInv, GoneWaiting
<1> QED
  BY <1>4, <1>5 DEF AccountInv

(* A step outside the reap that changes no slot and no process.            *)
LEMMA SameTableAccounted ==
  ASSUME TypeOK, AccountInv,
         UNCHANGED <<processes, last, shrink, shrinkFinish, os>>,
         budget'.fork = budget.fork,
         \/ pc' = "crashed"
         \/ UNCHANGED <<pc, idx>>
         \/ pc \notin {"reap", "crashed"}
         \/ pc = "reap" /\ \A s \in Slots : GoneSlot(s) => pc' = "reap" /\ idx' <= s
  PROVE  AccountInv'
BY SamePidsAccounted

(* A new process in a free slot, or in the slot the reap is at.            *)
LEMMA NewPidAccounted ==
  ASSUME TypeOK, AccountInv, NEW s \in Slots, NEW p \in Pids, NewPid(p),
         NEW e \in Slot, e.pid = p,
         NEW r \in Process, r.st = "run",
         \/ s <= last /\ last' = last
         \/ s = last + 1 /\ last' = s,
         processes' = [processes EXCEPT ![s] = e],
         os' = [os EXCEPT ![p] = r],
         UNCHANGED <<shrink, shrinkFinish, pc>>, budget'.fork = budget.fork,
         \/ idx' = idx
         \/ pc = "reap" /\ idx = s /\ idx' = idx + 1
  PROVE  AccountInv'
<1> USE DEF TypeOK, TableType, CountType
<1>1. p \notin shrink
  BY DEF NewPid, UnusedPid
<1>2. \A t \in Slots \ {s} : processes'[t] = processes[t] /\ (Held(t)' <=> Held(t))
  BY DEF Held, Slots
<1>3. ~GoneSlot(s)'
  BY DEF GoneSlot
<1>4. \A t \in Slots : Held(t) => processes[t].pid \in Pids
  BY DEF Slot, Held
<1>5. \A t \in Slots \ {s} : GoneSlot(t)' => GoneSlot(t)
  <2>1. \A q \in Pids : os'[q].st = "none" => os[q].st = "none"
    OBVIOUS
  <2> QED
    BY <1>2, <1>4, <2>1 DEF GoneSlot
<1>6. ShrunkGone' = ShrunkGone
  BY <1>1 DEF ShrunkGone
<1>7. ASSUME pc # "crashed" PROVE GoneWaiting'
  <2>1. ASSUME NEW t \in Slots, GoneSlot(t)'
        PROVE  pc' = "reap" /\ idx' <= t /\ processes'[t].exited
    <3>1. t # s /\ GoneSlot(t)
      BY <1>3, <1>5, <2>1
    <3>2. pc = "reap" /\ idx <= t /\ processes[t].exited
      BY <1>7, <3>1 DEF AccountInv, GoneWaiting
    <3>3. idx \in Nat /\ t \in Nat /\ s \in Nat
      BY DEF Slots
    <3>4. idx' <= t
      BY <3>1, <3>2, <3>3
    <3> QED
      BY <1>2, <3>1, <3>2, <3>4
  <2> QED
    BY <2>1 DEF GoneWaiting
<1> QED
  BY <1>6, <1>7 DEF AccountInv

(* waitpid() counts every shrunk worker that is gone exactly once.         *)
LEMMA StatusCounts ==
  ASSUME TypeOK, SupervisionInv, AccountInv, GetStatus, shrink' = shrink
  PROVE  shrinkFinish' = Cardinality(ShrunkGone')
<1> DEFINE N == {p \in Dead : p \in shrink /\ ~InTable(p)}
<1>1. ShrunkGone' = ShrunkGone \union N
  <2>1. \A p \in Pids : os'[p] = IF p \in Dead THEN NoProcess ELSE os[p]
    BY DEF GetStatus, GetStatusOf
  <2>2. \A p \in Pids : os'[p].st = "none" <=> os[p].st = "none" \/ p \in Dead
    BY <2>1 DEF NoProcess
  <2>3. \A p \in shrink : ~InTable(p)
    BY DEF SupervisionInv, Supervised, InTable
  <2>4. Dead \subseteq Pids /\ shrink \subseteq Pids
    BY DEF Dead, TypeOK, TableType
  <2> QED
    BY <2>2, <2>3, <2>4 DEF ShrunkGone
<1>2. ShrunkGone \intersect N = {}
  BY DEF ShrunkGone, Dead
<1>3. /\ IsFiniteSet(ShrunkGone) /\ IsFiniteSet(N)
      /\ Cardinality(ShrunkGone) \in Nat /\ Cardinality(N) \in Nat
  BY PidsFinite DEF ShrunkGone, Dead, TypeOK, TableType
<1>4. shrinkFinish' = shrinkFinish + Cardinality(N)
  BY Zenon DEF GetStatus, GetStatusOf
<1> HIDE DEF N
<1>5. Cardinality(ShrunkGone \union N) =
        Cardinality(ShrunkGone) + Cardinality(N) - Cardinality(ShrunkGone \intersect N)
  BY <1>3, FS_Union, Zenon
<1>6. Cardinality(ShrunkGone \intersect N) = 0
  BY <1>2, FS_EmptySet
<1>7. shrinkFinish = Cardinality(ShrunkGone)
  BY DEF AccountInv
<1> QED
  BY <1>1, <1>3, <1>4, <1>5, <1>6, <1>7

(* A shrink starts from zero, with workers that are all still there.       *)
LEMMA ShrinkAccountedFromZero ==
  ASSUME TypeOK, AccountInv, NEW V \in SUBSET WorkerSlots,
         last' \in 0..MaxProcesses, Shrink(V),
         budget'.fork = budget.fork,
         pc \notin {"reap", "crashed"}
  PROVE  AccountInv'
<1> USE DEF TypeOK, TableType
<1>1. /\ shrink' = PidsOf(V) /\ shrinkFinish' = 0
      /\ processes' = [s \in Slots |-> IF s \in V THEN FreeSlot ELSE processes[s]]
      /\ LastHeld(V, last')
  BY DEF Shrink, Remove, PidsOf
<1>2. V \subseteq Slots /\ \A s \in V : Held(s)
  BY DEF WorkerSlots
<1>3. \A s \in Slots : ~GoneSlot(s)
  BY DEF AccountInv, GoneWaiting
<1>4. \A p \in Pids : os'[p].st = "none" <=> os[p].st = "none"
  <2>1. \A p \in Pids : os'[p] = IF p \in shrink' THEN [os[p] EXCEPT !.st = Asked(@)]
                                                  ELSE os[p]
    BY DEF Shrink, Remove
  <2> QED
    BY <2>1 DEF Asked, Process
<1>5. \A s \in Slots : Held(s) => processes[s].pid \in Pids
  BY DEF Slot, Held
<1>6. ShrunkGone' = {}
  <2>1. \A p \in shrink' : p \in Pids /\ os[p].st # "none"
    BY <1>1, <1>2, <1>3, <1>5 DEF PidsOf, GoneSlot
  <2> QED
    BY <1>4, <2>1 DEF ShrunkGone
<1>7. shrinkFinish' = Cardinality(ShrunkGone')
  BY <1>1, <1>6, FS_EmptySet
<1>8. Cardinality(shrink') <= MaxProcesses
  BY <1>1, <1>2, PidsOfSlots
<1>9. \A s \in Slots : ~GoneSlot(s)'
  <2>1. \A s \in V : ~Held(s)'
    BY <1>1, <1>2 DEF Held, FreeSlot
  <2>2. ASSUME NEW s \in Slots, s \notin V, GoneSlot(s)' PROVE FALSE
    <3>1. processes'[s] = processes[s]
      BY <1>1, <2>2
    <3>2. last' <= last
      BY <1>1 DEF LastHeld, Held, Slots
    <3>3. Held(s)
      BY <2>2, <3>1, <3>2 DEF GoneSlot, Held, Slots
    <3> QED
      BY <1>3, <1>4, <1>5, <2>2, <3>1, <3>3 DEF GoneSlot
  <2> QED
    BY <2>1, <2>2 DEF GoneSlot
<1> QED
  BY <1>7, <1>8, <1>9 DEF AccountInv, GoneWaiting

(* A change of the count, at a place where nothing is left to reap.        *)
LEMMA UpdateWorkersAccounted ==
  ASSUME TypeOK, AccountInv, NEW c, NEW next, NEW skip,
         UpdateWorkers(c, next, skip), budget' = budget,
         pc \notin {"reap", "crashed"}
  PROVE  AccountInv'
<1>1. CASE UNCHANGED <<table, shrinkVars, os>>
  BY <1>1, SameTableAccounted DEF table, shrinkVars
<1>2. CASE \E l \in 0..MaxProcesses : last' = l /\ Shrink(Victims(ccf - c))
  <2>1. Victims(ccf - c) \in SUBSET WorkerSlots
    BY DEF Victims
  <2> QED
    BY <1>2, <2>1, ShrinkAccountedFromZero
<1> QED
  BY <1>1, <1>2 DEF UpdateWorkers

(* The same when the count left in the KV store is looked at.              *)
LEMMA CheckCountAccounted ==
  ASSUME TypeOK, AccountInv, NEW next, NEW skip,
         CheckCount(next, skip), budget' = budget,
         pc \notin {"reap", "crashed"}
  PROVE  AccountInv'
<1>1. CASE UNCHANGED <<table, shrinkVars, os>>
  BY <1>1, SameTableAccounted DEF table, shrinkVars
<1>2. CASE UpdateWorkers(kv, next, skip)
  BY <1>2, UpdateWorkersAccounted
<1> QED
  BY <1>1, <1>2 DEF CheckCount

(* Telling children to go moves no pid.                                    *)
LEMMA TellAccounted ==
  ASSUME TypeOK, AccountInv, NEW T \in SUBSET Slots,
         NEW st \in [States -> States],
         \A x \in States : st[x] = "none" <=> x = "none",
         Tell(T, st), UNCHANGED <<last, shrink, shrinkFinish, budget>>,
         pc \notin {"reap", "crashed"}
  PROVE  AccountInv'
<1> USE DEF TypeOK, TableType
<1>1. \A s \in Slots : /\ processes'[s].pid = processes[s].pid
                       /\ processes[s].exited => processes'[s].exited
  <2>1. \A s \in Slots :
          \/ processes'[s] = [processes[s] EXCEPT !.just = FALSE]
          \/ processes'[s] = Marked(s)
          \/ processes'[s] = processes[s]
    BY DEF Tell
  <2>2. \A s \in Slots : /\ Marked(s).pid = processes[s].pid
                         /\ processes[s].exited => Marked(s).exited
    BY DEF Marked, Slot
  <2>3. \A s \in Slots : LET j == [processes[s] EXCEPT !.just = FALSE]
                         IN  j.pid = processes[s].pid /\ j.exited = processes[s].exited
    BY DEF Slot
  <2> QED
    BY <2>1, <2>2, <2>3
<1>2. \A p \in Pids : os'[p].st = "none" <=> os[p].st = "none"
  <2>1. \A p \in Pids : os'[p] = IF \E s \in T : processes[s].pid = p
                                   THEN [os[p] EXCEPT !.st = st[@]] ELSE os[p]
    BY DEF Tell, Signalled
  <2>2. \A p \in Pids : os[p].st \in States
    BY DEF Process
  <2>3. \A p \in Pids : [os[p] EXCEPT !.st = st[@]].st = st[os[p].st]
    BY DEF Process
  <2>4. \A p \in Pids : st[os[p].st] = "none" <=> os[p].st = "none"
    BY <2>2
  <2>5. \A p \in Pids : os'[p].st = st[os[p].st] \/ os'[p].st = os[p].st
    BY <2>1, <2>3
  <2> QED
    BY <2>4, <2>5
<1> QED
  BY <1>1, <1>2, SamePidsAccounted

(* And so do the signals of a stop.                                        *)
LEMMA SignalWorkersAccounted ==
  ASSUME TypeOK, AccountInv, NEW sig, SignalWorkers(sig),
         UNCHANGED <<last, shrink, shrinkFinish, budget>>,
         pc \notin {"reap", "crashed"}
  PROVE  AccountInv'
<1> DEFINE T == {s \in Slots : /\ Held(s) /\ ~processes[s].just
                               /\ sig = "QUIT" => ~processes[s].exiting}
<1>1. Tell(T, IF sig = "KILL" THEN Killed ELSE Quitting)
  BY DEF SignalWorkers
<1>2. CASE sig = "KILL"
  BY <1>1, <1>2, TellAccounted, SignalTypes, SignalsKeepGone
<1>3. CASE sig # "KILL"
  BY <1>1, <1>3, TellAccounted, SignalTypes, SignalsKeepGone
<1> QED
  BY <1>2, <1>3

-----------------------------------------------------------------------------
(* Every step keeps the two counters together.                             *)

(* At the start there is nothing to count.                                 *)
LEMMA InitAccounted == ForksSucceed /\ Init => AccountInv
<1> SUFFICES ASSUME ForksSucceed, Init PROVE AccountInv
  OBVIOUS
<1>1. \A s \in Slots : ~Held(s)
  BY DEF Init, Held, FreeSlot
<1>2. shrink = {} /\ ShrunkGone = {} /\ shrinkFinish = 0 /\ budget.fork = 0
  BY DEF Init, ShrunkGone, ForksSucceed
<1>3. Cardinality(shrink) <= MaxProcesses /\ shrinkFinish = Cardinality(ShrunkGone)
  BY <1>2, FS_EmptySet, MasterConstants
<1> QED
  BY <1>1, <1>2, <1>3 DEF AccountInv, GoneWaiting, GoneSlot

(* njt_spawn_process() finds a pid, and a free slot or none.               *)
LEMMA SpawnAccounted ==
  ForksSucceed /\ TypeOK /\ SupervisionInv /\ AccountInv /\ Spawn => AccountInv'
<1> SUFFICES ASSUME ForksSucceed, TypeOK, SupervisionInv, AccountInv, Spawn
             PROVE  AccountInv'
  OBVIOUS
<1>1. /\ UNCHANGED <<shrink, shrinkFinish, pc, idx>>
  BY DEF Spawn, shrinkVars
<1>2. CASE UNCHANGED <<table, os, budget>>
  BY <1>1, <1>2, SameTableAccounted DEF table
<1>3. ASSUME NEW s \in Slots, NEW p \in Pids, FirstFreeSlot(s), NewPid(p),
             SpawnInto(s, p, Head(todo)), budget' = budget
      PROVE  AccountInv'
  <2>1. Head(todo) \in Requests
    BY HeadTailProperties DEF Spawn, TypeOK
  <2> DEFINE e == Spawned(p, Head(todo))
             r == [st |-> "run", name |-> Head(todo).name, gen |-> gen]
  <2>2. e \in Slot /\ r \in Process /\ r.st = "run" /\ e.pid = p
    BY <2>1, SlotTypes DEF TypeOK, CountType, Requests, Spawned
  <2>3. processes' = [processes EXCEPT ![s] = e] /\ os' = [os EXCEPT ![p] = r]
    BY <1>3 DEF SpawnInto
  <2>4. \/ s <= last /\ last' = last
        \/ s = last + 1 /\ last' = s
    <3>1. s <= last + 1 /\ last' = IF s = last + 1 THEN s ELSE last
      BY <1>3 DEF FirstFreeSlot, SpawnInto
    <3>2. s \in Nat /\ last \in Nat
      BY DEF Slots, TypeOK, TableType
    <3> QED
      BY <3>1, <3>2
  <2> HIDE DEF e, r
  <2> QED
    BY <1>1, <1>3, <2>2, <2>3, <2>4, NewPidAccounted
<1> QED
  BY <1>2, <1>3, NoForkFails DEF Spawn

(* The statuses of the dead: the slots they mark are left to the reap.     *)
LEMMA WakeAccounted == TypeOK /\ SupervisionInv /\ AccountInv /\ Wake => AccountInv'
<1> SUFFICES ASSUME TypeOK, SupervisionInv, AccountInv, Wake PROVE AccountInv'
  OBVIOUS
<1>1. pc = "wait" /\ UNCHANGED <<last, shrink, budget>>
  BY DEF Wake
<1>2. CASE UNCHANGED <<processes, shrinkFinish, os>>
  BY <1>1, <1>2, SameTableAccounted
<1>3. CASE GetStatus /\ pc' = "reap" /\ idx' = 1
  <2>1. \A s \in Slots : ~GoneSlot(s)
    BY <1>1 DEF AccountInv, GoneWaiting
  <2>2. \A s \in Slots :
          /\ processes'[s].pid = processes[s].pid
          /\ Held(s) /\ processes[s].pid \in Dead => processes'[s].exited
    BY <1>3 DEF GetStatus, GetStatusOf, TypeOK, TableType, Slot
  <2>3. \A p \in Pids : os'[p].st = "none" => os[p].st = "none" \/ p \in Dead
    BY <1>3 DEF GetStatus, GetStatusOf
  <2>4. \A s \in Slots : Held(s)' => Held(s) /\ processes[s].pid \in Pids
    BY <1>1, <2>2 DEF Held, TypeOK, TableType, Slot
  <2>5. \A s \in Slots : GoneSlot(s)' => processes'[s].exited
    BY <2>1, <2>2, <2>3, <2>4 DEF GoneSlot
  <2>6. GoneWaiting'
    BY <1>3, <2>5 DEF GoneWaiting, Slots
  <2>7. shrinkFinish' = Cardinality(ShrunkGone')
    BY <1>1, <1>3, StatusCounts
  <2> QED
    BY <1>1, <2>6, <2>7 DEF AccountInv
<1> QED
  BY <1>2, <1>3 DEF Wake

(* njt_reap_children() passes a slot whose process is gone only after      *)
(* freeing it or giving it a new process.                                  *)
LEMMA ReapAccounted ==
  ForksSucceed /\ TypeOK /\ SupervisionInv /\ AccountInv
    /\ (ReapEmpty \/ ReapLive \/ ReapRespawn \/ ReapRelease \/ ReapEnd) => AccountInv'
<1> SUFFICES ASSUME ForksSucceed, TypeOK, SupervisionInv, AccountInv,
                    ReapEmpty \/ ReapLive \/ ReapRespawn \/ ReapRelease \/ ReapEnd
             PROVE  AccountInv'
  OBVIOUS
<1> USE DEF TypeOK, TableType, CountType
<1>1. /\ pc = "reap" /\ UNCHANGED <<shrink, shrinkFinish>>
      /\ \A s \in Slots : GoneSlot(s) => idx <= s /\ processes[s].exited
  BY DEF ReapEmpty, ReapLive, ReapRespawn, ReapRelease, ReapEnd, Reaping, NextSlot,
         shrinkVars, AccountInv, GoneWaiting
<1>2. CASE ReapEmpty \/ ReapLive
  <2>1. ~GoneSlot(idx) \/ idx \notin Slots
    BY <1>1, <1>2 DEF ReapEmpty, ReapLive, GoneSlot, Held
  <2>2. \A s \in Slots : GoneSlot(s) => idx + 1 <= s
    BY <1>1, <2>1 DEF Slots
  <2>3. UNCHANGED <<processes, last, os, budget, pc>> /\ idx' = idx + 1
    BY <1>2 DEF ReapEmpty, ReapLive, NextSlot, table
  <2> QED
    BY <1>1, <2>2, <2>3, SameTableAccounted
<1>3. CASE ReapRespawn
  <2>1. PICK i \in Slots : i = idx /\ i <= last
    <3>1. idx <= last
      BY <1>3 DEF ReapRespawn, Reaping
    <3> QED
      BY <3>1, MasterConstants DEF Slots
  <2>2. PICK p \in Pids :
          /\ NewPid(p)
          /\ processes' = [processes EXCEPT ![idx].pid = p, ![idx].exited = FALSE]
          /\ os' = [os EXCEPT ![p] = [st |-> "run", name |-> processes[idx].name,
                                      gen |-> gen]]
          /\ budget' = budget
    BY <1>3, NoForkFails DEF ReapRespawn
  <2> DEFINE e == [processes[i] EXCEPT !.pid = p, !.exited = FALSE]
             r == [st |-> "run", name |-> processes[i].name, gen |-> gen]
  <2>3. e \in Slot /\ e.pid = p
    BY DEF Slot
  <2>4. r \in Process /\ r.st = "run"
    BY SlotTypes DEF Slot
  <2>5. processes' = [processes EXCEPT ![i] = e]
    BY <2>1, <2>2 DEF Slot
  <2>6. os' = [os EXCEPT ![p] = r]
    BY <2>1, <2>2
  <2>7. last' = last /\ pc' = pc /\ idx' = idx + 1
    BY <1>3 DEF ReapRespawn, NextSlot
  <2>8. NewPid(p) /\ budget'.fork = budget.fork
    BY <2>2
  <2> HIDE DEF e, r, TypeOK, TableType, CountType
  <2> QED
    BY <1>1, <2>1, <2>3, <2>4, <2>5, <2>6, <2>7, <2>8, NewPidAccounted
<1>4. CASE ReapRelease
  <2>1. PICK i \in Slots : i = idx /\ i <= last
    <3>1. idx <= last
      BY <1>4 DEF ReapRelease, Reaping
    <3> QED
      BY <3>1, MasterConstants DEF Slots
  <2>2. /\ processes' = [processes EXCEPT ![i] = FreeSlot]
        /\ last' = IF i = last THEN last - 1 ELSE last
        /\ UNCHANGED <<os, budget, pc>> /\ idx' = idx + 1
    BY <1>4, <2>1 DEF ReapRelease, NextSlot
  <2>3. ~Held(i)'
    BY <2>2 DEF Held, FreeSlot
  <2>4. \A t \in Slots \ {i} : processes'[t] = processes[t] /\ (Held(t)' => Held(t))
    BY <2>2 DEF Held, Slots
  <2>5. \A t \in Slots : GoneSlot(t)' => t # i /\ GoneSlot(t)
    BY <2>2, <2>3, <2>4 DEF GoneSlot
  <2>6. \A t \in Slots : GoneSlot(t)' => idx' <= t
    BY <1>1, <2>1, <2>2, <2>5 DEF Slots
  <2>7. GoneWaiting'
    BY <1>1, <2>2, <2>4, <2>5, <2>6 DEF GoneWaiting
  <2>8. ShrunkGone' = ShrunkGone
    BY <1>1, <2>2 DEF ShrunkGone
  <2> QED
    BY <1>1, <2>2, <2>7, <2>8 DEF AccountInv
<1>5. CASE ReapEnd
  <2>1. \A s \in Slots : /\ processes'[s].pid = processes[s].pid
                         /\ processes[s].exited => processes'[s].exited
    <3>1. \A s \in Slots : \/ processes'[s] = processes[s]
                           \/ \E d \in {gen, NoData} :
                                processes'[s] = [processes[s] EXCEPT !.data = d]
      BY <1>5 DEF ReapEnd, RestartLater, RestartNow, StartHelpers
    <3> QED
      BY <3>1 DEF Slot
  <2>2. \A s \in Slots : ~GoneSlot(s)
    BY <1>1, <1>5 DEF ReapEnd, GoneSlot, Held, Slots
  <2>3. UNCHANGED <<last, shrink, shrinkFinish, os, budget>>
    BY <1>5 DEF ReapEnd, shrinkVars
  <2> QED
    BY <1>1, <2>1, <2>2, <2>3, SamePidsAccounted
<1> QED
  BY <1>2, <1>3, <1>4, <1>5

(* Every step of the master, of a child and of an operator.                *)
LEMMA AccountNext ==
  ForksSucceed /\ TypeOK /\ SupervisionInv /\ AccountInv /\ [Next]_vars => AccountInv'
<1> SUFFICES ASSUME ForksSucceed, TypeOK, SupervisionInv, AccountInv, [Next]_vars
             PROVE  AccountInv'
  OBVIOUS
<1>1. CASE Spawn
  BY <1>1, SpawnAccounted
<1>2. CASE Wake
  BY <1>2, WakeAccounted
<1>3. CASE ReapEmpty \/ ReapLive \/ ReapRespawn \/ ReapRelease \/ ReapEnd
  BY <1>3, ReapAccounted
<1>4. CASE SpawnDone \/ Top \/ ReapCrash \/ Exit \/ Reconfigure \/ StartNew \/ NoReload
             \/ RestartAgent
  <2>1. UNCHANGED <<processes, last, shrink, shrinkFinish, os>>
    BY <1>4 DEF SpawnDone, EndBatch, Top, ReapCrash, Exit, Reconfigure, StartNew,
                NoReload, RestartAgent, table, shrinkVars
  <2>2. budget'.fork = budget.fork
    BY <1>4 DEF SpawnDone, EndBatch, Top, ReapCrash, Exit, Reconfigure, StartNew,
                NoReload, RestartAgent, TypeOK, CountType, Budgets
  <2>3. pc' = "crashed" \/ pc \notin {"reap", "crashed"}
    BY <1>4 DEF SpawnDone, EndBatch, Top, ReapCrash, Exit, Reconfigure, StartNew,
                NoReload, RestartAgent
  <2> QED
    BY <2>1, <2>2, <2>3, SameTableAccounted
<1>5. CASE Boot \/ Recount
  <2>1. /\ pc \notin {"reap", "crashed"} /\ budget' = budget
        /\ \E next, skip : CheckCount(next, skip)
    BY <1>5 DEF Boot, Recount
  <2> QED
    BY <2>1, CheckCountAccounted
<1>6. CASE RuntimeCount
  <2>1. pc \notin {"reap", "crashed"} /\ budget' = budget
    BY <1>6 DEF RuntimeCount
  <2>2. CASE UNCHANGED <<table, shrinkVars, os>>
    BY <2>1, <2>2, SameTableAccounted DEF table, shrinkVars
  <2>3. CASE UpdateWorkers(kv, "agent", "agent")
    BY <2>1, <2>3, UpdateWorkersAccounted
  <2> QED
    BY <1>6, <2>2, <2>3 DEF RuntimeCount
<1>7. CASE Terminate \/ Quit
  <2>1. pc \notin {"reap", "crashed"} /\ UNCHANGED <<last, shrink, shrinkFinish, budget>>
    BY <1>7 DEF Terminate, Quit, shrinkVars
  <2>2. CASE UNCHANGED <<processes, os>>
    BY <2>1, <2>2, SameTableAccounted
  <2>3. ASSUME NEW sig, SignalWorkers(sig) PROVE AccountInv'
    BY <2>1, <2>3, SignalWorkersAccounted
  <2> QED
    BY <1>7, <2>2, <2>3 DEF Terminate, Quit
<1>8. CASE RestartCmd
  <2>1. pc \notin {"reap", "crashed"} /\ UNCHANGED <<last, shrink, shrinkFinish, budget>>
    BY <1>8 DEF RestartCmd, shrinkVars
  <2>2. PICK T \in SUBSET Slots : Tell(T, Quitting)
    BY <1>8 DEF RestartCmd
  <2> QED
    BY <2>1, <2>2, TellAccounted, SignalTypes, SignalsKeepGone
<1>9. CASE Environment
  <2>1. UNCHANGED <<processes, last, shrink, shrinkFinish, pc, idx>>
    BY <1>9 DEF Environment, ChildExit, ChildCrash, Alarm, SetCount, Reload, Stop,
                masterVars, table, shrinkVars
  <2>2. budget'.fork = budget.fork
    BY <1>9 DEF Environment, ChildExit, ChildCrash, Alarm, SetCount, Reload, Stop,
                TypeOK, CountType, Budgets
  <2>3. \A q \in Pids : os'[q].st = "none" <=> os[q].st = "none"
    <3>1. CASE \E p \in Pids : ChildExit(p) \/ ChildCrash(p)
      BY <3>1 DEF ChildExit, ChildCrash, TypeOK, TableType, Process
    <3>2. CASE UNCHANGED os
      BY <3>2
    <3> QED
      BY <1>9, <3>1, <3>2 DEF Environment, Alarm, SetCount, Reload, Stop
  <2> QED
    BY <2>1, <2>2, <2>3, SamePidsAccounted
<1>10. CASE UNCHANGED vars
  BY <1>10, SameTableAccounted DEF vars
<1> QED
  BY <1>1, <1>2, <1>3, <1>4, <1>5, <1>6, <1>7, <1>8, <1>9, <1>10 DEF Next, MasterStep

(* So the account is kept.                                                 *)
LEMMA AccountKept == ASSUME ForksSucceed PROVE Spec => []AccountInv
<1>1. Init => AccountInv
  BY InitAccounted
<1>2. TypeOK /\ SupervisionInv /\ AccountInv /\ [Next]_vars => AccountInv'
  BY AccountNext
<1> QED
  BY <1>1, <1>2, TypeCorrect, SupervisionInvHolds, PTL DEF Spec

(* As long as no fork fails, the count of finished workers is that of the  *)
(* shrunk workers that are gone, whatever reloads, deaths and changes of   *)
(* the count come in between: a change is refused only while a worker of   *)
(* the last shrink is still there.                                         *)
THEOREM ShrinkAccountedHolds ==
  ASSUME MaxForkFail = 0, MaxPid > 2 * MaxProcesses
  PROVE  Spec => []ShrinkAccounted
<1>1. Spec => []AccountInv
  BY AccountKept DEF ForksSucceed
<1>2. AccountInv => ShrinkAccounted
  BY DEF AccountInv, ShrinkAccounted
<1> QED
  BY <1>1, <1>2, PTL

-----------------------------------------------------------------------------
(* Who still runs an older configuration.                                  *)

(* A reload starts workers marked just spawned (Starting), and until all   *)
(* the others have been told to quit (Renewing) old processes may run.     *)
Starting == pc = "cmd" \/ (pc = "spawn" /\ ret = "cmd")
Renewing == pc \in {"count", "start"} \/ (pc = "spawn" /\ ret = "start") \/ Starting
OldRunning(p) == os[p].st = "run" /\ os[p].gen < gen
KeptProcess(p) == \E s \in Slots : Held(s) /\ processes[s].pid = p /\ KeptHelper(s)

(* OldGenerationLeaves outside the reload, and what it rests on: whoever   *)
(* is `exiting` or shrunk has been told to quit, and the mark of the just  *)
(* spawned, which the command to quit skips, is on no old process.         *)
GenInv ==
  /\ \A s \in Slots : Held(s) /\ processes[s].exiting => os[processes[s].pid].st # "run"
  /\ \A p \in shrink : os[p].st # "run"
  /\ \A s \in Slots :
       Held(s) /\ processes[s].just => Starting /\ ~OldRunning(processes[s].pid)
  /\ \A i \in DOMAIN todo : todo[i].just => pc = "spawn" /\ ret = "cmd"
  /\ ~Renewing => \A p \in Pids : OldRunning(p) => KeptProcess(p)

(* A step that starts nobody and moves nobody.                             *)
LEMMA SamePidsGen ==
  ASSUME TypeOK, GenInv, UNCHANGED <<last, shrink, gen>>,
         \A s \in Slots : /\ processes'[s].pid = processes[s].pid
                          /\ processes'[s].name = processes[s].name
                          /\ processes'[s].reload = processes[s].reload
                          /\ processes'[s].exiting => processes[s].exiting
                          /\ processes'[s].just => processes[s].just,
         \A p \in Pids : os'[p].st = "run" => os'[p] = os[p],
         \A i \in DOMAIN todo' : todo'[i].just => pc' = "spawn" /\ ret' = "cmd",
         Starting => Starting', ~Renewing' => ~Renewing
  PROVE  GenInv'
<1>1. \A s \in Slots : /\ Held(s)' <=> Held(s)
                       /\ KeptHelper(s)' <=> KeptHelper(s)
                       /\ Held(s) => processes[s].pid \in Pids
  BY DEF Held, KeptHelper, TypeOK, TableType, Slot
<1>2. \A p \in Pids : OldRunning(p)' => OldRunning(p)
  BY DEF OldRunning
<1>3. \A p \in Pids : KeptProcess(p) => KeptProcess(p)'
  BY <1>1 DEF KeptProcess
<1>4. \A s \in Slots :
        Held(s)' /\ processes'[s].exiting => os'[processes'[s].pid].st # "run"
  BY <1>1 DEF GenInv
<1>5. \A p \in shrink' : os'[p].st # "run"
  BY DEF GenInv, TypeOK, TableType
<1>6. \A s \in Slots :
        Held(s)' /\ processes'[s].just => Starting' /\ ~OldRunning(processes[s].pid)'
  <2>1. SUFFICES ASSUME NEW s \in Slots, Held(s)', processes'[s].just
                 PROVE  Starting' /\ ~OldRunning(processes[s].pid)'
    OBVIOUS
  <2>2. Starting /\ ~OldRunning(processes[s].pid) /\ processes[s].pid \in Pids
    BY <2>1, <1>1 DEF GenInv
  <2>3. processes'[s].pid = processes[s].pid
    OBVIOUS
  <2> QED
    BY <2>2, <2>3, <1>2 DEF OldRunning
<1>7. ~Renewing' => \A p \in Pids : OldRunning(p)' => KeptProcess(p)'
  BY <1>2, <1>3 DEF GenInv
<1> QED
  BY <1>4, <1>5, <1>6, <1>7 DEF GenInv

(* A step that touches neither table nor processes.                        *)
LEMMA SameTableGen ==
  ASSUME TypeOK, GenInv, UNCHANGED <<processes, last, shrink, os, gen>>,
         \A i \in DOMAIN todo' : todo'[i].just => pc' = "spawn" /\ ret' = "cmd",
         Starting => Starting', ~Renewing' => ~Renewing
  PROVE  GenInv'
BY SamePidsGen

(* Telling children to go: nobody who is told stays running, and nobody    *)
(* is marked just spawned any more.                                        *)
LEMMA TellGen ==
  ASSUME TypeOK, GenInv, UNCHANGED <<last, shrink, gen, todo>>, pc # "spawn",
         NEW T \in SUBSET Slots, NEW st \in {Quitting, Killed}, Tell(T, st),
         \A s \in T : Held(s) /\ ~processes[s].just,
         ~Renewing' => ~Renewing \/ \A p \in Pids : OldRunning(p)' => KeptProcess(p)
  PROVE  GenInv'
<1> USE DEF TypeOK, TableType
<1>1. \A x \in States : st[x] # "run"
  BY DEF Quitting, Killed, Asked, States
<1>2. \A p \in Pids : os'[p].st = "run" =>
        os'[p] = os[p] /\ \A s \in T : processes[s].pid # p
  BY <1>1 DEF Tell, Signalled, Process
<1>3. SameSlots
  BY TellSlots
<1>4. \A s \in Slots : /\ Held(s)' <=> Held(s)
                       /\ KeptHelper(s)' <=> KeptHelper(s)
                       /\ Held(s) => processes[s].pid \in Pids
  BY <1>3 DEF SameSlots, Held, KeptHelper, Slot
<1>5. \A s \in Slots :
        Held(s) => /\ ~processes'[s].just
                   /\ processes'[s].exiting => processes[s].exiting \/ s \in T
  BY DEF Tell, Marked, Slot
<1>6. \A s \in Slots :
        Held(s)' /\ processes'[s].exiting => os'[processes'[s].pid].st # "run"
  BY <1>2, <1>3, <1>4, <1>5 DEF GenInv, SameSlots
<1>7. \A p \in shrink' : os'[p].st # "run"
  BY <1>2 DEF GenInv
<1>8. \A i \in DOMAIN todo' : ~todo'[i].just
  BY DEF GenInv
<1>9. \A p \in Pids : /\ OldRunning(p)' => OldRunning(p)
                      /\ KeptProcess(p) => KeptProcess(p)'
  BY <1>2, <1>3, <1>4 DEF OldRunning, KeptProcess, SameSlots
<1>10. ~Renewing' => \A p \in Pids : OldRunning(p)' => KeptProcess(p)'
  BY <1>9 DEF GenInv
<1> QED
  BY <1>4, <1>5, <1>6, <1>7, <1>8, <1>10 DEF GenInv

(* The two signals and the quit command are told in these terms.           *)
LEMMA SignalGen ==
  ASSUME TypeOK, GenInv, UNCHANGED <<last, shrink, gen, todo>>, pc = "decide",
         pc' = "top", NEW sig, SignalWorkers(sig)
  PROVE  GenInv'
<1> DEFINE T == {s \in Slots : /\ Held(s) /\ ~processes[s].just
                               /\ sig = "QUIT" => ~processes[s].exiting}
<1>1. Tell(T, IF sig = "KILL" THEN Killed ELSE Quitting)
  BY DEF SignalWorkers
<1>2. ~Renewing
  BY DEF Renewing, Starting
<1>3. T \in SUBSET Slots /\ \A s \in T : Held(s) /\ ~processes[s].just
  OBVIOUS
<1> HIDE DEF T
<1> QED
  BY <1>1, <1>2, <1>3, TellGen

(* A new process runs the current configuration.                           *)
LEMMA NewPidGen ==
  ASSUME TypeOK, SupervisionInv, GenInv, UNCHANGED <<shrink, gen, pc, ret>>,
         NEW s \in Slots, NEW p \in Pids, NewPid(p),
         NEW e \in Slot, e.pid = p, ~e.exiting, e.just => Starting,
         NEW r \in Process, r.gen = gen,
         ~Held(s) \/ processes[s].exited,
         \/ s <= last /\ last' = last
         \/ s = last + 1 /\ last' = s,
         processes' = [processes EXCEPT ![s] = e],
         os' = [os EXCEPT ![p] = r],
         \A i \in DOMAIN todo' : todo'[i].just => pc' = "spawn" /\ ret' = "cmd"
  PROVE  GenInv'
<1> USE DEF TypeOK, TableType
<1>1. /\ p \notin shrink /\ \A t \in Slots : Held(t) => processes[t].pid # p
  BY DEF NewPid, UnusedPid, InTable
<1>2. Held(s)' /\ processes'[s] = e
  BY DEF Held, Pids, NoPid, Slots
<1>3. \A t \in Slots \ {s} : processes'[t] = processes[t] /\ (Held(t)' <=> Held(t))
  BY DEF Held, Slots
<1>4. \A t \in Slots : Held(t) => processes[t].pid \in Pids
  BY DEF Slot, Held
<1>5. os'[p] = r /\ \A q \in Pids \ {p} : os'[q] = os[q]
  OBVIOUS
<1>6. Held(s) => os[processes[s].pid].st = "none"
  BY DEF SupervisionInv, ExitedGone
<1>7. gen \in Nat /\ ~OldRunning(p)'
  BY <1>5 DEF CountType, OldRunning
<1>8. \A q \in Pids \ {p} : OldRunning(q)' <=> OldRunning(q)
  BY <1>5 DEF OldRunning
<1>9. \A t \in Slots :
        Held(t)' /\ processes'[t].exiting => os'[processes'[t].pid].st # "run"
  BY <1>1, <1>2, <1>3, <1>4, <1>5 DEF GenInv
<1>10. \A q \in shrink' : os'[q].st # "run"
  BY <1>1, <1>5 DEF GenInv
<1>11. \A t \in Slots :
        Held(t)' /\ processes'[t].just => Starting' /\ ~OldRunning(processes[t].pid)'
  <2>1. Starting' <=> Starting
    BY DEF Starting
  <2>2. ASSUME NEW t \in Slots \ {s}, Held(t)', processes'[t].just
        PROVE  Starting' /\ ~OldRunning(processes[t].pid)'
    <3>1. Held(t) /\ processes'[t] = processes[t] /\ processes[t].pid \in Pids \ {p}
      BY <1>1, <1>3, <1>4, <2>2
    <3>2. Starting /\ ~OldRunning(processes[t].pid)
      BY <2>2, <3>1 DEF GenInv
    <3>3. ~OldRunning(processes[t].pid)'
      BY <1>5, <3>1, <3>2 DEF OldRunning
    <3> QED
      BY <2>1, <3>1, <3>2, <3>3
  <2>3. e.just => Starting' /\ ~OldRunning(processes[s].pid)'
    BY <1>2, <1>7, <2>1 DEF OldRunning
  <2> QED
    BY <1>2, <2>2, <2>3
<1>12. ~Renewing' => \A q \in Pids : OldRunning(q)' => KeptProcess(q)'
  <2>1. SUFFICES ASSUME ~Renewing', NEW q \in Pids, OldRunning(q)'
                 PROVE  KeptProcess(q)'
    OBVIOUS
  <2>2. ~Renewing
    BY <2>1 DEF Renewing, Starting
  <2>3. OldRunning(q)
    BY <1>7, <1>8, <2>1
  <2>4. PICK t \in Slots : Held(t) /\ processes[t].pid = q /\ KeptHelper(t)
    BY <2>2, <2>3 DEF GenInv, KeptProcess
  <2>5. t # s
    BY <1>6, <2>3, <2>4 DEF OldRunning
  <2> QED
    BY <1>3, <2>4, <2>5 DEF KeptProcess, KeptHelper
<1> QED
  BY <1>9, <1>10, <1>11, <1>12 DEF GenInv

(* A slot whose process is gone is freed.                                  *)
LEMMA FreedGen ==
  ASSUME TypeOK, SupervisionInv, GenInv, NEW i \in Slots, Held(i), processes[i].exited,
         processes' = [processes EXCEPT ![i] = FreeSlot],
         last' = IF i = last THEN last - 1 ELSE last,
         UNCHANGED <<os, shrink, gen, pc, ret, todo>>
  PROVE  GenInv'
<1> USE DEF TypeOK, TableType
<1>1. ~Held(i)'
  BY DEF Held, FreeSlot
<1>2. \A t \in Slots \ {i} : processes'[t] = processes[t] /\ (Held(t)' <=> Held(t))
  BY DEF Held, Slots
<1>3. os[processes[i].pid].st = "none"
  BY DEF SupervisionInv, ExitedGone
<1>4. (Starting' <=> Starting) /\ (Renewing' <=> Renewing)
  BY DEF Starting, Renewing
<1>5. ASSUME NEW q \in Pids, OldRunning(q), KeptProcess(q)
      PROVE  KeptProcess(q)'
  <2>1. PICK t \in Slots : Held(t) /\ processes[t].pid = q /\ KeptHelper(t)
    BY <1>5 DEF KeptProcess
  <2>2. t # i
    BY <1>3, <1>5, <2>1 DEF OldRunning
  <2> QED
    BY <1>2, <2>1, <2>2 DEF KeptProcess, KeptHelper
<1>6. \A p : OldRunning(p)' <=> OldRunning(p)
  BY DEF OldRunning
<1>7. \A s \in Slots :
        /\ Held(s)' /\ processes'[s].exiting => os'[processes'[s].pid].st # "run"
        /\ Held(s)' /\ processes'[s].just => Starting' /\ ~OldRunning(processes[s].pid)'
  <2>1. SUFFICES ASSUME NEW s \in Slots, Held(s)'
                 PROVE  /\ processes'[s].exiting => os'[processes'[s].pid].st # "run"
                        /\ processes'[s].just => Starting' /\ ~OldRunning(processes[s].pid)'
    OBVIOUS
  <2>2. Held(s) /\ processes'[s] = processes[s]
    BY <1>1, <1>2, <2>1
  <2> QED
    BY <1>4, <2>2 DEF GenInv, OldRunning
<1>8. /\ \A p \in shrink' : os'[p].st # "run"
      /\ \A j \in DOMAIN todo' : todo'[j].just => pc' = "spawn" /\ ret' = "cmd"
  BY DEF GenInv
<1>9. ~Renewing' => \A p \in Pids : OldRunning(p)' => KeptProcess(p)'
  BY <1>4, <1>5, <1>6 DEF GenInv
<1> QED
  BY <1>7, <1>8, <1>9 DEF GenInv

(* A shrink tells its workers to quit when it takes them off the table.    *)
LEMMA ShrinkGen ==
  ASSUME TypeOK, GenInv, NEW V \in SUBSET WorkerSlots, Shrink(V),
         last' \in 0..MaxProcesses, gen' = gen, ~Starting, todo' = <<>>,
         ~Renewing' => ~Renewing
  PROVE  GenInv'
<1> USE DEF TypeOK, TableType
<1>1. /\ processes' = [s \in Slots |-> IF s \in V THEN FreeSlot ELSE processes[s]]
      /\ LastHeld(V, last')
      /\ shrink' = {processes[s].pid : s \in V}
      /\ os' = [p \in Pids |-> IF p \in shrink' THEN [os[p] EXCEPT !.st = Asked(@)]
                                                ELSE os[p]]
  BY DEF Shrink, Remove
<1>2. \A s \in V : s \in Slots /\ processes[s].name = "worker" /\ ~Held(s)'
  BY <1>1 DEF WorkerSlots, Held, FreeSlot
<1>3. ASSUME NEW s \in Slots, s \notin V
      PROVE  processes'[s] = processes[s] /\ (Held(s)' <=> Held(s))
  <2>1. processes'[s] = processes[s]
    BY <1>1, <1>3
  <2>2. Held(s) => s <= last'
    BY <1>1, <1>3 DEF LastHeld, Held
  <2>3. last' <= last
    BY <1>1 DEF LastHeld, Held, Slots
  <2> QED
    BY <2>1, <2>2, <2>3 DEF Held, Slots
<1>4. \A p \in Pids : os'[p].st = "run" => os'[p] = os[p] /\ p \notin shrink'
  BY <1>1 DEF Asked, Process
<1>5. shrink' \in SUBSET Pids
  BY <1>1 DEF WorkerSlots, Held, Slot
<1>6. \A s \in Slots : Held(s) => processes[s].pid \in Pids
  BY DEF Held, Slot
<1>7. \A s \in Slots :
        /\ Held(s)' /\ processes'[s].exiting => os'[processes'[s].pid].st # "run"
        /\ Held(s)' => ~processes'[s].just
  <2>1. SUFFICES ASSUME NEW s \in Slots, Held(s)'
                 PROVE  /\ processes'[s].exiting => os'[processes'[s].pid].st # "run"
                        /\ ~processes'[s].just
    OBVIOUS
  <2>2. Held(s) /\ processes'[s] = processes[s] /\ processes[s].pid \in Pids
    BY <1>2, <1>3, <1>6, <2>1
  <2>3. processes[s].exiting => os[processes[s].pid].st # "run"
    BY <2>2 DEF GenInv
  <2>4. ~processes[s].just
    BY <2>2 DEF GenInv
  <2> QED
    BY <1>4, <2>2, <2>3, <2>4
<1>8. \A p \in shrink' : os'[p].st # "run"
  BY <1>4, <1>5
<1>9. \A p \in Pids : OldRunning(p)' => OldRunning(p)
  BY <1>4 DEF OldRunning
<1>10. \A p \in Pids : KeptProcess(p) => KeptProcess(p)'
  BY <1>2, <1>3 DEF KeptProcess, KeptHelper
<1>11. ~Renewing' => \A p \in Pids : OldRunning(p)' => KeptProcess(p)'
  BY <1>9, <1>10 DEF GenInv
<1> QED
  BY <1>7, <1>8, <1>11 DEF GenInv

(* njt_update_worker_processes() and the check of the stored count.        *)
LEMMA UpdateWorkersGen ==
  ASSUME TypeOK, GenInv, NEW c, NEW next, NEW skip, UpdateWorkers(c, next, skip),
         gen' = gen, pc # "spawn", ~Starting, next # "cmd",
         Renewing => next = "start" /\ skip = "start"
  PROVE  GenInv'
<1>1. ret' = next
  BY DEF UpdateWorkers
<1>2. CASE UNCHANGED <<table, shrinkVars, os>> /\ (todo' = <<>> \/ pc' = "spawn")
           /\ (pc' = skip \/ pc' = "spawn")
           /\ (todo' = <<>> \/ todo' = WorkerRequests(c - ccf, FALSE))
  <2>1. \A i \in DOMAIN todo' : ~todo'[i].just
    <3>1. CASE todo' = <<>>
      BY <3>1
    <3>2. CASE todo' = WorkerRequests(c - ccf, FALSE)
      BY <3>2 DEF WorkerRequests, Request
    <3> QED
      BY <1>2, <3>1, <3>2
  <2>2. ~Renewing' => ~Renewing
    BY <1>1, <1>2 DEF Renewing
  <2> QED
    BY <1>2, <2>1, <2>2, SameTableGen DEF table, shrinkVars
<1>3. CASE /\ pc' = "spawn" /\ todo' = <<>>
           /\ \E l \in 0..MaxProcesses : last' = l /\ Shrink(Victims(ccf - c))
  <2>1. Victims(ccf - c) \in SUBSET WorkerSlots
    BY DEF Victims
  <2>2. ~Renewing' => ~Renewing
    BY <1>1, <1>3 DEF Renewing
  <2> QED
    BY <1>3, <2>1, <2>2, ShrinkGen
<1> QED
  BY <1>2, <1>3 DEF UpdateWorkers

(* The check of the stored count.                                          *)
LEMMA CheckCountGen ==
  ASSUME TypeOK, GenInv, NEW next, NEW skip, CheckCount(next, skip),
         gen' = gen, pc # "spawn", ~Starting, next # "cmd",
         Renewing => next = "start" /\ skip = "start"
  PROVE  GenInv'
<1>1. CASE UpdateWorkers(kv, next, skip)
  BY <1>1, UpdateWorkersGen
<1>2. CASE /\ ret' = next /\ pc' = skip /\ todo' = <<>>
           /\ UNCHANGED <<table, shrinkVars, os>>
  <2>1. ~Renewing' => ~Renewing
    BY <1>2 DEF Renewing
  <2> QED
    BY <1>2, <2>1, SameTableGen DEF table, shrinkVars
<1> QED
  BY <1>1, <1>2 DEF CheckCount

(* A spawn is of the current configuration.                                *)
LEMMA SpawnGen == TypeOK /\ SupervisionInv /\ GenInv /\ Spawn => GenInv'
<1> SUFFICES ASSUME TypeOK, SupervisionInv, GenInv, Spawn PROVE GenInv'
  OBVIOUS
<1>1. /\ pc = "spawn" /\ UNCHANGED <<shrink, gen, pc, ret>>
      /\ todo # <<>> /\ todo' = Tail(todo)
  BY DEF Spawn, shrinkVars
<1>2. todo \in Seq(Requests)
  BY DEF TypeOK
<1>3. Head(todo) \in Requests /\ (Head(todo).just => Starting)
  <2>1. Head(todo) = todo[1] /\ 1 \in DOMAIN todo /\ Head(todo) \in Requests
    BY <1>1, <1>2
  <2> QED
    BY <1>1, <2>1 DEF GenInv, Starting
<1>4. \A i \in DOMAIN todo' : todo'[i].just => pc' = "spawn" /\ ret' = "cmd"
  <2>1. ASSUME NEW i \in DOMAIN Tail(todo)
        PROVE  i + 1 \in DOMAIN todo /\ Tail(todo)[i] = todo[i + 1]
    BY <1>1, <1>2
  <2> QED
    BY <1>1, <2>1 DEF GenInv
<1>5. (Starting' <=> Starting) /\ (Renewing' <=> Renewing)
  BY <1>1 DEF Starting, Renewing
<1>6. CASE UNCHANGED <<table, os>>
  BY <1>1, <1>4, <1>5, <1>6, SameTableGen DEF table
<1>7. ASSUME NEW s \in Slots, NEW p \in Pids, FirstFreeSlot(s), NewPid(p),
             SpawnInto(s, p, Head(todo))
      PROVE  GenInv'
  <2> DEFINE e == Spawned(p, Head(todo))
             r == [st |-> "run", name |-> Head(todo).name, gen |-> gen]
  <2>1. e \in Slot /\ r \in Process
    BY <1>3, SlotTypes DEF TypeOK, CountType, Requests
  <2>2. e.pid = p /\ ~e.exiting /\ e.just = Head(todo).just /\ r.gen = gen
    BY DEF Spawned
  <2>3. processes' = [processes EXCEPT ![s] = e] /\ os' = [os EXCEPT ![p] = r]
    BY <1>7 DEF SpawnInto
  <2>4. ~Held(s) /\ \/ s <= last /\ last' = last
                    \/ s = last + 1 /\ last' = s
    <3>1. ~Held(s) /\ s <= last + 1 /\ last' = IF s = last + 1 THEN s ELSE last
      BY <1>7 DEF FirstFreeSlot, SpawnInto
    <3>2. s \in Nat /\ last \in Nat
      BY DEF Slots, TypeOK, TableType
    <3> QED
      BY <3>1, <3>2
  <2>5. e.just => Starting
    BY <1>3, <2>2
  <2> HIDE DEF e, r
  <2> QED
    BY <1>1, <1>4, <1>7, <2>1, <2>2, <2>3, <2>4, <2>5, NewPidGen
<1> QED
  BY <1>6, <1>7 DEF Spawn

(* The walk over the slots.                                                *)
LEMMA ReapGen ==
  TypeOK /\ SupervisionInv /\ GenInv
    /\ (ReapEmpty \/ ReapLive \/ ReapRespawn \/ ReapCrash \/ ReapRelease \/ ReapEnd) => GenInv'
<1> SUFFICES ASSUME TypeOK, SupervisionInv, GenInv,
                    \/ ReapEmpty \/ ReapLive \/ ReapRespawn
                    \/ ReapCrash \/ ReapRelease \/ ReapEnd
             PROVE  GenInv'
  OBVIOUS
<1>1. pc = "reap" /\ UNCHANGED <<shrink, gen>> /\ ~Starting /\ ~Renewing
  BY DEF ReapEmpty, ReapLive, ReapRespawn, ReapCrash, ReapRelease, ReapEnd, Reaping,
         NextSlot, shrinkVars, Starting, Renewing
<1>2. \A i \in DOMAIN todo : ~todo[i].just
  BY <1>1 DEF GenInv
<1>3. CASE ReapEmpty \/ ReapLive \/ ReapCrash
  <2>1. UNCHANGED <<processes, last, os, todo>>
    BY <1>3 DEF ReapEmpty, ReapLive, ReapCrash, NextSlot, table
  <2> QED
    BY <1>1, <1>2, <2>1, SameTableGen
<1>4. CASE ReapRespawn
  <2>1. UNCHANGED <<last, todo, pc, ret>>
    BY <1>4 DEF ReapRespawn, NextSlot
  <2>2. CASE UNCHANGED <<processes, os>>
    BY <1>1, <1>2, <2>1, <2>2, SameTableGen
  <2>3. ASSUME NEW p \in Pids, NewPid(p),
               processes' = [processes EXCEPT ![idx].pid = p, ![idx].exited = FALSE],
               os' = [os EXCEPT ![p] = [st |-> "run", name |-> processes[idx].name,
                                        gen |-> gen]]
        PROVE  GenInv'
    <3>1. PICK i \in Slots : i = idx /\ i <= last
      <4>1. idx <= last
        BY <1>4 DEF ReapRespawn, Reaping
      <4> QED
        BY <4>1, MasterConstants DEF Slots, TypeOK, TableType, CountType
    <3> DEFINE e == [processes[i] EXCEPT !.pid = p, !.exited = FALSE]
               r == [st |-> "run", name |-> processes[i].name, gen |-> gen]
    <3>2. processes[i].exited /\ ~processes[i].exiting /\ processes[i].pid # NoPid
      BY <1>4, <3>1 DEF ReapRespawn, MustRespawn
    <3>3. e \in Slot /\ e.pid = p /\ ~e.exiting /\ (e.just => processes[i].just)
      BY <3>2 DEF TypeOK, TableType, Slot
    <3>4. r \in Process /\ r.gen = gen
      BY SlotTypes DEF TypeOK, TableType, CountType, Slot
    <3>5. processes' = [processes EXCEPT ![i] = e]
      BY <2>3, <3>1 DEF TypeOK, TableType, Slot
    <3>6. os' = [os EXCEPT ![p] = r]
      BY <2>3, <3>1
    <3>7. e.just => Starting
      BY <3>1, <3>2, <3>3 DEF GenInv, Held
    <3>8. \A j \in DOMAIN todo' : todo'[j].just => pc' = "spawn" /\ ret' = "cmd"
      BY <1>2, <2>1
    <3>9. NewPid(p)
      BY <2>3
    <3> HIDE DEF e, r
    <3> QED
      BY <1>1, <2>1, <3>9, <3>1, <3>2, <3>3, <3>4, <3>5, <3>6, <3>7, <3>8, NewPidGen
  <2> QED
    BY <1>4, <2>2, <2>3 DEF ReapRespawn
<1>5. CASE ReapRelease
  <2>1. PICK i \in Slots : i = idx /\ i <= last
    <3>1. idx <= last
      BY <1>5 DEF ReapRelease, Reaping
    <3> QED
      BY <3>1, MasterConstants DEF Slots, TypeOK, TableType, CountType
  <2>2. Held(i) /\ processes[i].exited
    BY <1>5, <2>1 DEF ReapRelease, Held
  <2>3. /\ processes' = [processes EXCEPT ![i] = FreeSlot]
        /\ last' = IF i = last THEN last - 1 ELSE last
        /\ UNCHANGED <<os, pc, ret, todo>>
    BY <1>5, <2>1 DEF ReapRelease, NextSlot
  <2> QED
    BY <1>1, <2>2, <2>3, FreedGen
<1>6. CASE ReapEnd
  <2>1. \A s \in Slots : \/ processes'[s] = processes[s]
                         \/ \E d \in {gen, NoData} :
                              processes'[s] = [processes[s] EXCEPT !.data = d]
    BY <1>6 DEF ReapEnd, RestartLater, RestartNow, StartHelpers
  <2>2. \A s \in Slots : /\ processes'[s].pid = processes[s].pid
                         /\ processes'[s].name = processes[s].name
                         /\ processes'[s].reload = processes[s].reload
                         /\ processes'[s].exiting = processes[s].exiting
                         /\ processes'[s].just = processes[s].just
    <3>1. ASSUME NEW e \in Slot, NEW d
          PROVE  LET f == [e EXCEPT !.data = d]
                 IN  /\ f.pid = e.pid /\ f.name = e.name /\ f.reload = e.reload
                     /\ f.exiting = e.exiting /\ f.just = e.just
      BY DEF Slot
    <3>2. ASSUME NEW s \in Slots, NEW d, processes'[s] = [processes[s] EXCEPT !.data = d]
          PROVE  /\ processes'[s].pid = processes[s].pid
                 /\ processes'[s].name = processes[s].name
                 /\ processes'[s].reload = processes[s].reload
                 /\ processes'[s].exiting = processes[s].exiting
                 /\ processes'[s].just = processes[s].just
      BY <3>1, <3>2 DEF TypeOK, TableType
    <3> QED
      BY <2>1, <3>2
  <2>3. \A i \in DOMAIN todo' : ~todo'[i].just
    <3>1. todo' = <<>> \/ todo' = HelperRequests(NReload, TRUE)
      BY <1>6 DEF ReapEnd, RestartLater, RestartNow, StartHelpers
    <3>2. CASE todo' = <<>>
      BY <3>2
    <3>3. CASE todo' = HelperRequests(NReload, TRUE)
      BY <3>3 DEF HelperRequests, Request
    <3> QED
      BY <3>1, <3>2, <3>3
  <2>4. UNCHANGED <<last, os>>
    BY <1>6 DEF ReapEnd
  <2> QED
    BY <1>1, <2>2, <2>3, <2>4, SamePidsGen
<1> QED
  BY <1>3, <1>4, <1>5, <1>6

(* The command to quit reaches every old process, unless a write to the    *)
(* channel of a copilot fails.                                             *)
LEMMA RestartCmdGen ==
  ~ChannelMayFail /\ TypeOK /\ SupervisionInv /\ GenInv /\ RestartCmd => GenInv'
<1> SUFFICES ASSUME ~ChannelMayFail, TypeOK, SupervisionInv, GenInv, RestartCmd
             PROVE  GenInv'
  OBVIOUS
<1> DEFINE T == {s \in Slots : /\ Held(s) /\ ~processes[s].just
                               /\ ~processes[s].exiting
                               /\ processes[s].name = "helper" =>
                                    processes[s].reload /\ ~Gone(s) /\ s \notin {}}
<1>1. Tell(T, Quitting)
  BY DEF RestartCmd
<1>2. pc = "cmd" /\ UNCHANGED <<last, shrink, gen, todo>>
  BY DEF RestartCmd, shrinkVars
<1>3. ASSUME NEW p \in Pids, OldRunning(p)' PROVE KeptProcess(p)
  <2>1. os[p].st = "run" /\ os'[p].gen = os[p].gen /\ \A s \in T : processes[s].pid # p
    <3>1. \A x \in States : Quitting[x] # "run"
      BY DEF Quitting, Asked, States
    <3> HIDE DEF T
    <3> QED
      BY <1>1, <1>3, <3>1 DEF Tell, Signalled, OldRunning, TypeOK, TableType, Process
  <2>2. OldRunning(p)
    BY <1>2, <1>3, <2>1 DEF OldRunning
  <2>3. InTable(p)
    BY <2>1 DEF SupervisionInv, Supervised, GenInv
  <2>4. PICK s \in Slots : Held(s) /\ processes[s].pid = p
    BY <2>3 DEF InTable
  <2>5. ~processes[s].just /\ ~processes[s].exiting /\ ~Gone(s)
    BY <2>1, <2>2, <2>4 DEF GenInv, Gone
  <2>6. processes[s].name = "helper" /\ ~processes[s].reload
    BY <2>1, <2>4, <2>5
  <2> QED
    BY <2>4, <2>6 DEF KeptProcess, KeptHelper
<1>4. T \in SUBSET Slots /\ \A s \in T : Held(s) /\ ~processes[s].just
  OBVIOUS
<1> HIDE DEF T
<1> QED
  BY <1>1, <1>2, <1>3, <1>4, TellGen

(* Every step keeps track of who runs an older configuration.              *)
LEMMA GenNext ==
  ~ChannelMayFail /\ TypeOK /\ SupervisionInv /\ GenInv /\ [Next]_vars => GenInv'
<1> SUFFICES ASSUME ~ChannelMayFail, TypeOK, SupervisionInv, GenInv, [Next]_vars
             PROVE  GenInv'
  OBVIOUS
<1>1. CASE Spawn
  BY <1>1, SpawnGen
<1>2. CASE SpawnDone
  <2>1. /\ pc = "spawn" /\ todo = <<>> /\ pc' = ret
        /\ UNCHANGED <<processes, last, shrink, os, gen, ret, todo>>
    BY <1>2 DEF SpawnDone, EndBatch, table, shrinkVars
  <2>2. (Starting => Starting') /\ (~Renewing' => ~Renewing)
    BY <2>1 DEF Starting, Renewing
  <2>3. \A i \in DOMAIN todo' : ~todo'[i].just
    BY <2>1
  <2> QED
    BY <2>1, <2>2, <2>3, SameTableGen
<1>3. CASE Boot
  BY <1>3, CheckCountGen DEF Boot, Starting, Renewing
<1>4. CASE Top \/ Exit \/ NoReload
  <2>1. /\ pc # "spawn" /\ UNCHANGED <<processes, last, shrink, os, gen, todo>>
        /\ ~Starting /\ ~Renewing
    BY <1>4 DEF Top, Exit, NoReload, table, shrinkVars, Starting, Renewing
  <2>2. \A i \in DOMAIN todo' : ~todo'[i].just
    BY <2>1 DEF GenInv
  <2> QED
    BY <2>1, <2>2, SameTableGen
<1>5. CASE Wake
  <2>1. /\ pc = "wait" /\ UNCHANGED <<last, shrink, gen, todo>> /\ ~Starting /\ ~Renewing
    BY <1>5 DEF Wake, Starting, Renewing
  <2>2. \A i \in DOMAIN todo' : ~todo'[i].just
    BY <2>1 DEF GenInv
  <2>3. CASE UNCHANGED <<processes, os>>
    BY <2>1, <2>2, <2>3, SameTableGen
  <2>4. CASE GetStatus
    <3>1. \A p \in Pids : os'[p].st = "run" => os'[p] = os[p]
      BY <2>4 DEF GetStatus, GetStatusOf, NoProcess
    <3>2. \A s \in Slots : /\ processes'[s].pid = processes[s].pid
                           /\ processes'[s].name = processes[s].name
                           /\ processes'[s].reload = processes[s].reload
                           /\ processes'[s].exiting = processes[s].exiting
                           /\ processes'[s].just = processes[s].just
      BY <2>4 DEF GetStatus, GetStatusOf, TypeOK, TableType, Slot
    <3> QED
      BY <2>1, <2>2, <3>1, <3>2, SamePidsGen
  <2> QED
    BY <1>5, <2>3, <2>4 DEF Wake
<1>6. CASE ReapEmpty \/ ReapLive \/ ReapRespawn \/ ReapCrash \/ ReapRelease \/ ReapEnd
  BY <1>6, ReapGen
<1>7. CASE Terminate \/ Quit
  <2>1. pc = "decide" /\ pc' = "top" /\ UNCHANGED <<last, shrink, gen, todo>>
    BY <1>7 DEF Terminate, Quit, shrinkVars
  <2>2. CASE UNCHANGED <<processes, os>>
    <3>1. (~Starting /\ ~Renewing) /\ \A i \in DOMAIN todo' : ~todo'[i].just
      BY <2>1 DEF GenInv, Starting, Renewing
    <3> QED
      BY <2>1, <2>2, <3>1, SameTableGen
  <2>3. ASSUME NEW sig, SignalWorkers(sig) PROVE GenInv'
    BY <2>1, <2>3, SignalGen
  <2> QED
    BY <1>7, <2>2, <2>3 DEF Terminate, Quit
<1>8. CASE Reconfigure
  <2>1. /\ pc = "decide" /\ UNCHANGED <<processes, last, shrink, os, todo>>
        /\ ~Starting /\ ~Renewing /\ \/ pc' = "top" /\ gen' = gen
                                     \/ pc' = "count"
    BY <1>8 DEF Reconfigure, table, shrinkVars, Starting, Renewing
  <2>2. \A i \in DOMAIN todo' : ~todo'[i].just
    BY <2>1 DEF GenInv
  <2>3. CASE pc' = "top" /\ gen' = gen
    BY <2>1, <2>2, <2>3, SameTableGen
  <2>4. CASE pc' = "count"
    <3>1. Renewing'
      BY <2>4 DEF Renewing
    <3>2. \A s \in Slots : Held(s) => ~processes[s].just
      BY <2>1 DEF GenInv
    <3>3. \A s \in Slots : Held(s)' <=> Held(s)
      BY <2>1 DEF Held
    <3> QED
      BY <2>1, <2>2, <3>1, <3>2, <3>3 DEF GenInv
  <2> QED
    BY <2>1, <2>3, <2>4
<1>9. CASE Recount
  BY <1>9, CheckCountGen DEF Recount, Starting
<1>10. CASE StartNew
  <2>1. /\ UNCHANGED <<processes, last, shrink, os, gen>> /\ ~Starting
        /\ pc' = "spawn" /\ ret' = "cmd"
    BY <1>10 DEF StartNew, table, shrinkVars, Starting
  <2>2. Starting' /\ Renewing'
    BY <2>1 DEF Starting, Renewing
  <2> QED
    BY <2>1, <2>2, SameTableGen
<1>11. CASE RestartCmd
  BY <1>11, RestartCmdGen
<1>12. CASE RuntimeCount
  <2>1. pc = "rtc" /\ gen' = gen /\ ~Starting /\ ~Renewing
    BY <1>12 DEF RuntimeCount, Starting, Renewing
  <2>2. CASE UpdateWorkers(kv, "agent", "agent")
    BY <2>1, <2>2, UpdateWorkersGen
  <2>3. CASE UNCHANGED <<table, shrinkVars, os, todo>>
    <3>1. \A i \in DOMAIN todo' : ~todo'[i].just
      BY <2>1, <2>3 DEF GenInv
    <3> QED
      BY <2>1, <2>3, <3>1, SameTableGen DEF table, shrinkVars
  <2> QED
    BY <1>12, <2>2, <2>3 DEF RuntimeCount
<1>13. CASE RestartAgent
  <2>1. /\ pc = "agent" /\ UNCHANGED <<processes, last, shrink, os, gen>>
        /\ ~Starting /\ ~Renewing /\ todo' \in {todo, AgentRequests}
    BY <1>13 DEF RestartAgent, table, shrinkVars, Starting, Renewing
  <2>2. CASE todo' = todo
    <3>1. \A i \in DOMAIN todo' : ~todo'[i].just
      BY <2>1, <2>2 DEF GenInv
    <3> QED
      BY <2>1, <3>1, SameTableGen
  <2>3. CASE todo' = AgentRequests
    <3>1. \A i \in DOMAIN todo' : ~todo'[i].just
      BY <2>3 DEF AgentRequests, Request
    <3> QED
      BY <2>1, <3>1, SameTableGen
  <2> QED
    BY <2>1, <2>2, <2>3
<1>14. CASE Environment
  <2>1. UNCHANGED <<processes, last, shrink, gen, todo, pc, ret>>
    BY <1>14
    DEF Environment, ChildExit, ChildCrash, Alarm, SetCount, Reload, Stop, masterVars,
        table, shrinkVars
  <2>2. \A q \in Pids : os'[q].st = "run" => os'[q] = os[q]
    <3>1. CASE \E p \in Pids : ChildExit(p) \/ ChildCrash(p)
      BY <3>1 DEF ChildExit, ChildCrash, TypeOK, TableType, Process
    <3>2. CASE UNCHANGED os
      BY <3>2
    <3> QED
      BY <1>14, <3>1, <3>2 DEF Environment, Alarm, SetCount, Reload, Stop
  <2>3. \A i \in DOMAIN todo' : todo'[i].just => pc' = "spawn" /\ ret' = "cmd"
    BY <2>1 DEF GenInv
  <2>4. (Starting => Starting') /\ (~Renewing' => ~Renewing)
    BY <2>1 DEF Starting, Renewing
  <2> QED
    BY <2>1, <2>2, <2>3, <2>4, SamePidsGen
<1>15. CASE UNCHANGED vars
  <2>1. UNCHANGED <<processes, last, shrink, os, gen, todo, pc, ret>>
    BY <1>15 DEF vars
  <2>2. (Starting => Starting') /\ (~Renewing' => ~Renewing)
    BY <2>1 DEF Starting, Renewing
  <2>3. \A i \in DOMAIN todo' : todo'[i].just => pc' = "spawn" /\ ret' = "cmd"
    BY <2>1 DEF GenInv
  <2> QED
    BY <2>1, <2>2, <2>3, SameTableGen
<1> QED
  BY <1>1, <1>2, <1>3, <1>4, <1>5, <1>6, <1>7, <1>8, <1>9, <1>10, <1>11, <1>12, <1>13, <1>14, <1>15 DEF Next, MasterStep

(* Nobody runs at the start.                                               *)
LEMMA InitGen == Init => GenInv
<1> SUFFICES ASSUME Init PROVE GenInv
  OBVIOUS
<1>1. \A s \in Slots : ~Held(s)
  BY DEF Init, Held, FreeSlot
<1>2. \A p \in Pids : ~OldRunning(p)
  BY DEF Init, OldRunning, NoProcess
<1>3. \A i \in DOMAIN todo : ~todo[i].just
  <2> DEFINE R == [name : Names, just : {FALSE}, reload : BOOLEAN]
  <2>1. ccf \in Nat /\ NKeep \in Nat /\ NReload \in Nat
    BY MasterConstants DEF Init
  <2>2. WorkerRequests(ccf, FALSE) \in Seq(R)
    BY <2>1 DEF WorkerRequests, Request, Names
  <2>3. HelperRequests(NKeep, FALSE) \in Seq(R) /\ HelperRequests(NReload, TRUE) \in Seq(R)
    BY <2>1 DEF HelperRequests, Request, Names
  <2>6. AgentRequests \in Seq(R)
    BY DEF AgentRequests, Request, Names
  <2> HIDE DEF R
  <2>4. todo \in Seq(R)
    BY <2>2, <2>3, <2>6, ConcatProperties DEF Init
  <2>5. ASSUME NEW i \in DOMAIN todo PROVE todo[i] \in R
    BY <2>4
  <2> QED
    BY <2>5 DEF R
<1> QED
  BY <1>1, <1>2, <1>3 DEF GenInv, Init

(* Unless a write to the channel of a copilot fails, a reload leaves no    *)
(* process of an older configuration running that nobody told to quit,     *)
(* except for the copilots to be kept: whatever was forked or not,         *)
(* respawned, shrunk or crashed meanwhile.                                 *)
THEOREM OldGenerationLeavesHolds ==
  ASSUME ChannelMayFail = FALSE
  PROVE  Spec => []OldGenerationLeaves
<1>1. ASSUME GenInv PROVE OldGenerationLeaves
  <2>1. Quiet => ~Renewing
    BY DEF Quiet, Renewing, Starting
  <2> QED
    BY <1>1, <2>1 DEF GenInv, OldGenerationLeaves, OldRunning, KeptProcess
<1>2. TypeOK /\ SupervisionInv /\ GenInv /\ [Next]_vars => GenInv'
  BY GenNext
<1>3. Spec => []GenInv
  BY <1>2, InitGen, TypeCorrect, SupervisionInvHolds, PTL DEF Spec
<1> QED
  BY <1>1, <1>3, PTL

-----------------------------------------------------------------------------
(* Enough workers.                                                         *)

(* Between the new configuration and the start of its workers the count    *)
(* says nothing of the table.                                              *)
Recounting == pc \in {"count", "start"} \/ (pc = "spawn" /\ ret = "start")

(* The workers that will still take connections once the reload, if there  *)
(* is one, is over: those that are about to be told to quit are left out.  *)
Serving == {s \in WorkerSlots : ~processes[s].exiting /\ (Starting => processes[s].just)}
WorkersDue == Cardinality(Wanted(AskedFor("worker")))

(* There are always enough, those to be spawned counted, except in a       *)
(* reload that has yet to ask for the workers of the new configuration.    *)
EnoughInv ==
  /\ \A p \in Pids : os[p].st # "fatal"
  /\ \A s \in WorkerSlots : processes[s].respawn
  /\ Starting => \A i \in DOMAIN todo : todo[i].just
  /\ ~Stopping /\ ~Recounting => Cardinality(Serving) + WorkersDue >= ccf

(* The slots that serve are counted.                                       *)
LEMMA FiniteServing == IsFiniteSet(Serving) /\ Cardinality(Serving) \in Nat
<1>1. IsFiniteSet(Slots)
  BY MasterConstants, FS_Interval DEF Slots
<1> QED
  BY <1>1, FS_Subset, FS_CardinalityType DEF Serving, WorkerSlots

(* And so are those of the next state.                                     *)
LEMMA FiniteServingAfter == IsFiniteSet(Serving') /\ Cardinality(Serving') \in Nat
<1>1. IsFiniteSet(Slots)
  BY MasterConstants, FS_Interval DEF Slots
<1> QED
  BY <1>1, FS_Subset, FS_CardinalityType DEF Serving, WorkerSlots

(* A batch of n workers.                                                   *)
LEMMA WorkersWanted ==
  ASSUME NEW n \in Nat, NEW just \in BOOLEAN, todo' = WorkerRequests(n, just)
  PROVE  WorkersDue' = n
<1>1. WorkerRequests(n, just) \in Seq(Requests)
  BY WorkerRequestsType
<1>2. \A i \in 1..n : WorkerRequests(n, just)[i] \in AskedFor("worker")
  BY DEF WorkerRequests, Request, Requests, Names, AskedFor
<1>3. Wanted(AskedFor("worker"))' = 1..n
  BY <1>2 DEF Wanted, WorkerRequests
<1>4. Cardinality(1..n) = n
  BY FS_Interval
<1> QED
  BY <1>3, <1>4 DEF WorkersDue

(* Batches without workers.                                                *)
LEMMA NoWorkersWanted ==
  ASSUME todo' = <<>> \/ todo' = AgentRequests \/ \E n, r : todo' = HelperRequests(n, r)
  PROVE  WorkersDue' = 0
<1>1. Wanted(AskedFor("worker"))' = {}
  <2>1. CASE todo' = <<>>
    BY <2>1 DEF Wanted
  <2>2. CASE todo' = AgentRequests
    BY <2>2 DEF Wanted, AgentRequests, Request, AskedFor
  <2>3. ASSUME NEW n, NEW r, todo' = HelperRequests(n, r) PROVE Wanted(AskedFor("worker"))' = {}
    BY <2>3 DEF Wanted, HelperRequests, Request, AskedFor
  <2> QED
    BY <2>1, <2>2, <2>3
<1> QED
  BY <1>1, FS_EmptySet DEF WorkersDue

(* An empty batch.                                                         *)
LEMMA NoneWanted == todo = <<>> => WorkersDue = 0
BY FS_EmptySet DEF WorkersDue, Wanted

(* No slot that serves is lost, and no request.                            *)
LEMMA KeptEnough ==
  ASSUME TypeOK, EnoughInv, 
         \A p \in Pids : os'[p].st # "fatal",
         \A s \in WorkerSlots' : processes'[s].respawn,
         Starting' => \A i \in DOMAIN todo' : todo'[i].just,
         ~Stopping' /\ ~Recounting' =>
           /\ ~Stopping /\ ~Recounting /\ ccf' = ccf
           /\ Serving \subseteq Serving' /\ WorkersDue' = WorkersDue
  PROVE  EnoughInv'
<1>1. SUFFICES ASSUME ~Stopping' /\ ~Recounting'
               PROVE  Cardinality(Serving') + WorkersDue' >= ccf'
  BY DEF EnoughInv
<1>2. Cardinality(Serving) + WorkersDue >= ccf
  BY <1>1 DEF EnoughInv
<1>3. Cardinality(Serving) <= Cardinality(Serving')
  BY <1>1, FiniteServingAfter, FS_Subset
<1>4. WorkersDue \in Nat /\ ccf \in Nat
  BY FiniteWanted DEF WorkersDue, TypeOK, CountType
<1> QED
  BY <1>1, <1>2, <1>3, <1>4, FiniteServing, FiniteServingAfter

(* A step that starts nobody and moves nobody.                             *)
LEMMA SamePidsEnough ==
  ASSUME TypeOK, EnoughInv, last' = last,
         \A s \in Slots : /\ processes'[s].pid = processes[s].pid
                          /\ processes'[s].name = processes[s].name
                          /\ processes[s].respawn => processes'[s].respawn,
         ~Stopping' => \A s \in Slots : /\ processes'[s].exiting => processes[s].exiting
                                        /\ processes[s].just => processes'[s].just,
         \A p \in Pids : os'[p].st # "fatal",
         Starting' => \A i \in DOMAIN todo' : todo'[i].just,
         ~Stopping' /\ ~Recounting' =>
           /\ ~Stopping /\ ~Recounting /\ ccf' = ccf /\ (Starting' => Starting)
           /\ WorkersDue' = WorkersDue
  PROVE  EnoughInv'
<1>1. \A s \in Slots : Held(s)' <=> Held(s)
  BY DEF Held
<1>2. WorkerSlots' = WorkerSlots
  BY <1>1 DEF WorkerSlots
<1>3. \A s \in WorkerSlots' : processes'[s].respawn
  BY <1>2 DEF EnoughInv, WorkerSlots
<1>4. ~Stopping' /\ ~Recounting' => Serving \subseteq Serving'
  BY <1>2 DEF Serving, WorkerSlots
<1> QED
  BY <1>3, <1>4, KeptEnough

(* A step that touches neither table nor processes.                        *)
LEMMA SameTableEnough ==
  ASSUME TypeOK, EnoughInv, UNCHANGED <<processes, last>>,
         \A p \in Pids : os'[p].st # "fatal",
         Starting' => \A i \in DOMAIN todo' : todo'[i].just,
         ~Stopping' /\ ~Recounting' =>
           /\ ~Stopping /\ ~Recounting /\ ccf' = ccf /\ (Starting' => Starting)
           /\ WorkersDue' = WorkersDue
  PROVE  EnoughInv'
BY SamePidsEnough

(* The last slots of a table: no more of them than were asked for.         *)
LEMMA FewVictims ==
  ASSUME NEW j \in Nat PROVE IsFiniteSet(Victims(j)) /\ Cardinality(Victims(j)) <= j
<1> DEFINE After(s) == {t \in WorkerSlots : t > s}
           f == [s \in Victims(j) |-> Cardinality(After(s))]
<1>0. \A s \in Slots : s \in Nat
  BY DEF Slots
<1>1. IsFiniteSet(Slots) /\ WorkerSlots \in SUBSET Slots /\ Victims(j) \in SUBSET WorkerSlots
  BY MasterConstants, FS_Interval DEF Slots, WorkerSlots, Victims
<1>2. \A s : IsFiniteSet(After(s)) /\ Cardinality(After(s)) \in Nat
  BY <1>1, FS_Subset, FS_CardinalityType
<1>3. IsFiniteSet(0..(j - 1)) /\ Cardinality(0..(j - 1)) = j
  BY FS_Interval
<1>4. f \in Injection(Victims(j), 0..(j - 1))
  <2>1. \A s \in Victims(j) : Cardinality(After(s)) < j
    BY DEF Victims
  <2>2. ASSUME NEW s \in Victims(j), NEW u \in Victims(j), s < u
        PROVE  Cardinality(After(u)) < Cardinality(After(s))
    <3>1. After(u) \subseteq After(s) /\ After(u) # After(s)
      <4>1. s \in Nat /\ u \in Nat /\ u \in WorkerSlots /\ \A t \in WorkerSlots : t \in Nat
        BY <1>1, <1>0
      <4>2. u \in After(s) /\ u \notin After(u)
        BY <2>2, <4>1
      <4>3. \A t \in After(u) : t \in After(s)
        BY <2>2, <4>1
      <4> QED
        BY <4>2, <4>3
    <3> HIDE DEF After
    <3> QED
      BY <1>2, <3>1, FS_Subset
  <2>3. \A s, u \in Victims(j) : s # u => s < u \/ u < s
    BY <1>1, <1>0
  <2>4. \A s \in Victims(j) : f[s] \in 0..(j - 1)
    BY <1>2, <2>1
  <2>5. \A s, u \in Victims(j) : f[s] = f[u] => s = u
    <3>1. \A s, u \in Victims(j) : f[s] \in Nat /\ (s < u => f[u] < f[s])
      BY <1>2, <2>2
    <3> HIDE DEF f
    <3> QED
      BY <2>3, <3>1
  <2> HIDE DEF f
  <2>6. f \in [Victims(j) -> 0..(j - 1)]
    BY <2>4 DEF f
  <2> QED
    BY <2>5, <2>6, Fun_IsInj
<1> HIDE DEF f
<1>5. Cardinality(Victims(j)) <= j
  BY <1>3, <1>4, FS_Injection
<1> QED
  BY <1>1, <1>5, FS_Subset

(* There is a slot for every process that is to be spawned.                *)
HasRoom == pc = "spawn" /\ todo # <<>> => \E s \in Slots : FirstFreeSlot(s)

(* Then every request for a worker becomes a slot that serves.             *)
LEMMA SpawnEnough ==
  ForksSucceed /\ HasRoom /\ TypeOK /\ SupervisionInv /\ AccountInv /\ EnoughInv /\ Spawn
    => EnoughInv'
<1> SUFFICES ASSUME ForksSucceed, HasRoom, TypeOK, SupervisionInv, AccountInv, EnoughInv,
                    Spawn
             PROVE  EnoughInv'
  OBVIOUS
<1>1. /\ pc = "spawn" /\ UNCHANGED <<pc, ret, flags, ccf>>
      /\ todo # <<>> /\ todo' = Tail(todo)
  BY DEF Spawn
<1>2. todo \in Seq(Requests) /\ Head(todo) = todo[1] /\ 1 \in DOMAIN todo
      /\ Head(todo) \in Requests
  BY <1>1 DEF TypeOK
<1>3. /\ Starting' <=> Starting
      /\ Recounting' <=> Recounting
      /\ Stopping' <=> Stopping
  BY <1>1 DEF Starting, Recounting, Stopping
<1>4. Starting' => \A i \in DOMAIN todo' : todo'[i].just
  <2>1. ASSUME NEW i \in DOMAIN Tail(todo)
        PROVE  i + 1 \in DOMAIN todo /\ Tail(todo)[i] = todo[i + 1]
    BY <1>1, <1>2
  <2> QED
    BY <1>1, <1>3, <2>1 DEF EnoughInv
<1>5. PICK s \in Slots, p \in Pids :
        FirstFreeSlot(s) /\ NewPid(p) /\ SpawnInto(s, p, Head(todo))
  BY <1>1, NoForkFails DEF Spawn, HasRoom
<1> DEFINE e == Spawned(p, Head(todo))
<1>6. /\ processes' = [processes EXCEPT ![s] = e]
      /\ os' = [os EXCEPT ![p] = [st |-> "run", name |-> Head(todo).name, gen |-> gen]]
      /\ last' = IF s = last + 1 THEN s ELSE last
      /\ ~Held(s) /\ s <= last + 1
  BY <1>5 DEF SpawnInto, FirstFreeSlot
<1>7. /\ e \in Slot /\ e.pid = p /\ e.name = Head(todo).name /\ ~e.exiting
      /\ (e.name = "worker" => e.respawn) /\ (Head(todo).just => e.just)
  BY <1>2, SlotTypes DEF Spawned, TypeOK, CountType, Requests
<1> HIDE DEF e
<1>8. processes'[s] = e /\ Held(s)'
  BY <1>6, <1>7 DEF TypeOK, TableType, Held, Pids, NoPid, Slots
<1>9. \A t \in Slots \ {s} : processes'[t] = processes[t] /\ (Held(t)' <=> Held(t))
  BY <1>6 DEF TypeOK, TableType, Held, Slots
<1>10. \A q \in Pids : os'[q].st # "fatal"
  BY <1>6 DEF EnoughInv, TypeOK, TableType
<1>11. \A t \in WorkerSlots' : processes'[t].respawn
  BY <1>7, <1>8, <1>9 DEF WorkerSlots, EnoughInv
<1>12. ASSUME ~Stopping, ~Recounting PROVE Cardinality(Serving') + WorkersDue' >= ccf'
  <2>1. Cardinality(Serving) + WorkersDue >= ccf /\ ccf' = ccf /\ ccf \in Nat
    BY <1>1, <1>12 DEF EnoughInv, TypeOK, CountType
  <2>2. WorkersDue \in Nat
    BY FiniteWanted DEF WorkersDue
  <2>3. CASE Head(todo).name = "worker"
    <3>1. WorkersDue' = WorkersDue - 1
      <4>1. Head(todo) \in AskedFor("worker")
        BY <1>2, <2>3 DEF AskedFor
      <4> QED
        BY <1>1, <4>1, TailWanted DEF WorkersDue
    <3>2. s \notin Serving /\ s \in Serving'
      <4>1. Starting => Head(todo).just
        BY <1>2 DEF EnoughInv
      <4> QED
        BY <1>3, <1>6, <1>7, <1>8, <2>3, <4>1 DEF Serving, WorkerSlots
    <3>3. Serving \union {s} \subseteq Serving'
      BY <1>3, <1>6, <1>9, <3>2 DEF Serving, WorkerSlots
    <3>4. Cardinality(Serving \union {s}) = Cardinality(Serving) + 1
      BY <3>2, FiniteServing, FS_AddElement
    <3>5. Cardinality(Serving \union {s}) <= Cardinality(Serving')
      BY <3>3, FiniteServingAfter, FS_Subset
    <3> QED
      BY <2>1, <2>2, <3>1, <3>4, <3>5, FiniteServing, FiniteServingAfter
  <2>4. CASE Head(todo).name # "worker"
    <3>1. WorkersDue' = WorkersDue
      <4>1. Head(todo) \notin AskedFor("worker")
        BY <2>4 DEF AskedFor
      <4> QED
        BY <1>1, <4>1, TailWanted DEF WorkersDue
    <3>2. Serving \subseteq Serving'
      BY <1>3, <1>6, <1>9 DEF Serving, WorkerSlots
    <3>3. Cardinality(Serving) <= Cardinality(Serving')
      BY <3>2, FiniteServingAfter, FS_Subset
    <3> QED
      BY <2>1, <2>2, <3>1, <3>3, FiniteServing, FiniteServingAfter
  <2> QED
    BY <2>3, <2>4
<1> QED
  BY <1>3, <1>4, <1>10, <1>11, <1>12 DEF EnoughInv

(* A reap gives its slot back to every worker that serves.                 *)
LEMMA ReapEnough ==
  ForksSucceed /\ TypeOK /\ SupervisionInv /\ AccountInv /\ OneInv /\ EnoughInv
    /\ (ReapEmpty \/ ReapLive \/ ReapRespawn \/ ReapCrash \/ ReapRelease \/ ReapEnd)
    => EnoughInv'
<1> SUFFICES ASSUME ForksSucceed, TypeOK, SupervisionInv, AccountInv, OneInv, EnoughInv,
                    \/ ReapEmpty \/ ReapLive \/ ReapRespawn
                    \/ ReapCrash \/ ReapRelease \/ ReapEnd
             PROVE  EnoughInv'
  OBVIOUS
<1>1. pc = "reap" /\ UNCHANGED <<flags, ccf>> /\ ~Starting /\ ~Recounting /\ todo = <<>>
  BY DEF ReapEmpty, ReapLive, ReapRespawn, ReapCrash, ReapRelease, ReapEnd, Reaping,
         NextSlot, Starting, Recounting, OneInv
<1>2. (Stopping' <=> Stopping) /\ ~Starting'
  <2>1. pc' \in {"reap", "crashed"} \/ (pc' = "spawn" /\ ret' = "decide")
    BY <1>1 DEF ReapEmpty, ReapLive, ReapRespawn, ReapCrash, ReapRelease, ReapEnd, NextSlot
  <2> QED
    BY <1>1, <2>1 DEF Starting, Stopping
<1>3. WorkersDue' = WorkersDue
  <2>1. todo' = <<>> \/ todo' = HelperRequests(NReload, TRUE)
    BY <1>1 DEF ReapEmpty, ReapLive, ReapRespawn, ReapCrash, ReapRelease, ReapEnd, NextSlot,
                RestartLater, RestartNow, StartHelpers
  <2> QED
    BY <1>1, <2>1, NoneWanted, NoWorkersWanted
<1>4. CASE ReapEmpty \/ ReapLive \/ ReapCrash
  <2>1. UNCHANGED <<processes, last, os>>
    BY <1>4 DEF ReapEmpty, ReapLive, ReapCrash, NextSlot, table
  <2>2. \A p \in Pids : os'[p].st # "fatal"
    BY <2>1 DEF EnoughInv
  <2> QED
    BY <1>1, <1>2, <1>3, <2>1, <2>2, SameTableEnough
<1>5. CASE ReapRespawn \/ ReapRelease
  <2>1. PICK i \in Slots : i = idx /\ i <= last /\ Held(i)
    <3>1. idx <= last /\ processes[idx].pid # NoPid
      BY <1>5 DEF ReapRespawn, ReapRelease, Reaping
    <3> QED
      BY <3>1, MasterConstants DEF Slots, Held, TypeOK, TableType, CountType
  <2>2. CASE ReapRespawn
    <3>1. PICK p \in Pids :
            /\ processes' = [processes EXCEPT ![idx].pid = p, ![idx].exited = FALSE]
            /\ os' = [os EXCEPT ![p] = [st |-> "run", name |-> processes[idx].name,
                                        gen |-> gen]]
      BY <2>2, NoForkFails DEF ReapRespawn
    <3>2. last' = last
      BY <2>2 DEF ReapRespawn
    <3>3. \A s \in Slots : /\ processes'[s].name = processes[s].name
                           /\ processes'[s].respawn = processes[s].respawn
                           /\ processes'[s].exiting = processes[s].exiting
                           /\ Held(s)' <=> Held(s)
      BY <2>1, <3>1, <3>2 DEF TypeOK, TableType, Slot, Held, Pids, NoPid
    <3>4. WorkerSlots' = WorkerSlots
      BY <3>3 DEF WorkerSlots
    <3>5. Serving' = Serving
      BY <1>1, <1>2, <3>3, <3>4 DEF Serving, WorkerSlots
    <3>6. \A s \in WorkerSlots' : processes'[s].respawn
      BY <3>3, <3>4 DEF EnoughInv, WorkerSlots
    <3>7. \A q \in Pids : os'[q].st # "fatal"
      BY <3>1 DEF EnoughInv, TypeOK, TableType
    <3> QED
      BY <1>1, <1>2, <1>3, <3>5, <3>6, <3>7, KeptEnough
  <2>3. CASE ReapRelease
    <3>1. /\ processes' = [processes EXCEPT ![i] = FreeSlot]
          /\ last' = IF i = last THEN last - 1 ELSE last
          /\ os' = os /\ processes[i].exited /\ ~MustRespawn(processes[i])
      BY <2>1, <2>3 DEF ReapRelease
    <3>2. ~Held(i)'
      BY <3>1 DEF Held, FreeSlot, TypeOK, TableType
    <3>3. \A t \in Slots \ {i} : processes'[t] = processes[t] /\ (Held(t)' <=> Held(t))
      BY <2>1, <3>1 DEF Held, Slots, TypeOK, TableType
    <3>4. \A s \in WorkerSlots' : processes'[s].respawn
      BY <3>2, <3>3 DEF EnoughInv, WorkerSlots
    <3>5. ~Stopping => i \notin Serving
      BY <3>1 DEF MustRespawn, Serving, EnoughInv
    <3>6. ~Stopping => Serving \subseteq Serving'
      BY <1>1, <1>2, <3>3, <3>5 DEF Serving, WorkerSlots
    <3>7. \A q \in Pids : os'[q].st # "fatal"
      BY <3>1 DEF EnoughInv
    <3> QED
      BY <1>1, <1>2, <1>3, <3>4, <3>6, <3>7, KeptEnough
  <2> QED
    BY <1>5, <2>2, <2>3
<1>6. CASE ReapEnd
  <2>1. \A s \in Slots : \/ processes'[s] = processes[s]
                         \/ \E d \in {gen, NoData} :
                              processes'[s] = [processes[s] EXCEPT !.data = d]
    BY <1>6 DEF ReapEnd, RestartLater, RestartNow, StartHelpers
  <2>2. ASSUME NEW s \in Slots, NEW d, processes'[s] = [processes[s] EXCEPT !.data = d]
        PROVE  /\ processes'[s].pid = processes[s].pid
               /\ processes'[s].name = processes[s].name
               /\ processes'[s].respawn = processes[s].respawn
               /\ processes'[s].exiting = processes[s].exiting
               /\ processes'[s].just = processes[s].just
    BY <2>2 DEF TypeOK, TableType, Slot
  <2>3. UNCHANGED <<last, os>>
    BY <1>6 DEF ReapEnd
  <2>4. \A s \in Slots : /\ processes'[s].pid = processes[s].pid
                         /\ processes'[s].name = processes[s].name
                         /\ processes'[s].respawn = processes[s].respawn
                         /\ processes'[s].exiting = processes[s].exiting
                         /\ processes'[s].just = processes[s].just
    BY <2>1, <2>2
  <2>5. \A q \in Pids : os'[q].st # "fatal"
    BY <2>3 DEF EnoughInv
  <2> QED
    BY <1>1, <1>2, <1>3, <2>3, <2>4, <2>5, SamePidsEnough
<1> QED
  BY <1>4, <1>5, <1>6

(* Told to go, a process is marked and no more; a command to quit at the   *)
(* end of a reload spares the workers just spawned.                        *)
LEMMA TellEnough ==
  ASSUME TypeOK, EnoughInv, UNCHANGED <<last, ccf, todo>>, pc # "spawn",
         NEW T \in SUBSET Slots, NEW st \in {Quitting, Killed}, Tell(T, st), ~Starting',
         ~Stopping' /\ ~Recounting' =>
           /\ ~Stopping /\ ~Recounting
           /\ \A s \in Serving : s \notin T
  PROVE  EnoughInv'
<1> USE DEF TypeOK, TableType
<1>1. SameSlots
  BY TellSlots
<1>2. \A s \in Slots : Held(s)' <=> Held(s)
  BY <1>1 DEF SameSlots, Held
<1>3. WorkerSlots' = WorkerSlots
  BY <1>1, <1>2 DEF SameSlots, WorkerSlots
<1>4. \A s \in Slots : /\ processes'[s].respawn = processes[s].respawn
                       /\ s \notin T => processes'[s].exiting = processes[s].exiting
  BY DEF Tell, Marked, Slot
<1>5. \A p \in Pids : os'[p].st # "fatal"
  <2>1. \A x \in States \ {"fatal"} : st[x] # "fatal"
    BY DEF Quitting, Killed, Asked, States
  <2>2. \A p \in Pids : os[p].st \in States \ {"fatal"}
    BY DEF EnoughInv, Process
  <2> QED
    BY <2>1, <2>2 DEF Tell, Signalled, Process
<1>6. \A s \in WorkerSlots' : processes'[s].respawn
  BY <1>3, <1>4 DEF EnoughInv, WorkerSlots
<1>7. ~Stopping' /\ ~Recounting' => Serving \subseteq Serving'
  BY <1>3, <1>4 DEF Serving, WorkerSlots
<1>8. WorkersDue' = WorkersDue
  BY DEF WorkersDue, Wanted
<1> QED
  BY <1>5, <1>6, <1>7, <1>8, KeptEnough

(* A change of the count spawns the workers that are missing, or shrinks   *)
(* by those that are too many.                                             *)
LEMMA UpdateWorkersEnough ==
  ASSUME TypeOK, OneInv, EnoughInv, NEW c \in Nat \ {0}, NEW next, NEW skip,
         UpdateWorkers(c, next, skip), Stopping' <=> Stopping, pc # "spawn", ~Starting,
         next # "cmd", skip # "cmd", Recounting => next = "start" /\ skip = "start"
  PROVE  EnoughInv'
<1>1. ret' = next /\ todo = <<>> /\ WorkersDue = 0 
  BY NoneWanted DEF UpdateWorkers, OneInv
<1>2. (pc' = skip \/ pc' = "spawn") /\ ~Starting' /\ (~Recounting' => ~Recounting)
  BY <1>1 DEF UpdateWorkers, Starting, Recounting
<1>3. ccf \in Nat /\ ccf' \in Nat
  BY DEF UpdateWorkers, TypeOK, CountType
<1>4. CASE UNCHANGED <<table, os, ccf>> /\ todo' = <<>>
  <2>1. WorkersDue' = WorkersDue /\ \A q \in Pids : os'[q].st # "fatal"
    BY <1>1, <1>4, NoWorkersWanted DEF EnoughInv
  <2> QED
    BY <1>1, <1>2, <1>4, <2>1, SameTableEnough DEF table
<1>5. CASE /\ c > ccf /\ UNCHANGED <<table, os>> /\ ccf' = c
           /\ todo' = WorkerRequests(c - ccf, FALSE)
  <2>1. WorkersDue' = c - ccf
    <3>1. c - ccf \in Nat
      BY <1>3, <1>5
    <3> QED
      BY <1>5, <3>1, WorkersWanted
  <2>2. \A s \in Slots : Held(s)' <=> Held(s)
    BY <1>5 DEF Held, table
  <2>3. WorkerSlots' = WorkerSlots
    BY <1>5, <2>2 DEF WorkerSlots, table
  <2>4. Serving' = Serving
    BY <1>2, <1>5, <2>3 DEF Serving, WorkerSlots, table
  <2>5. ~Stopping' /\ ~Recounting' => Cardinality(Serving') + WorkersDue' >= ccf'
    BY <1>1, <1>2, <1>3, <1>5, <2>1, <2>4, FiniteServing DEF EnoughInv
  <2>6. /\ \A s \in WorkerSlots' : processes'[s].respawn
        /\ \A q \in Pids : os'[q].st # "fatal"
    BY <1>5, <2>3 DEF EnoughInv, table
  <2> QED
    BY <1>2, <2>5, <2>6 DEF EnoughInv
<1>6. CASE /\ c < ccf /\ todo' = <<>> /\ ccf' = c
           /\ \E l \in 0..MaxProcesses : last' = l /\ Shrink(Victims(ccf - c))
  <2> DEFINE V == Victims(ccf - c)
  <2>1. V \in SUBSET WorkerSlots
    BY DEF Victims
  <2>2. IsFiniteSet(V) /\ Cardinality(V) <= ccf - c /\ Cardinality(V) \in Nat
    BY <1>3, <1>6, FewVictims, FS_CardinalityType
  <2> HIDE DEF V
  <2>3. /\ processes' = [s \in Slots |-> IF s \in V THEN FreeSlot ELSE processes[s]]
        /\ LastHeld(V, last') /\ last' \in 0..MaxProcesses
        /\ os' = [p \in Pids |-> IF p \in shrink' THEN [os[p] EXCEPT !.st = Asked(@)]
                                                  ELSE os[p]]
    BY <1>6 DEF Shrink, Remove, V
  <2>4. \A s \in V : ~Held(s)'
    BY <2>1, <2>3 DEF WorkerSlots, Held, FreeSlot
  <2>5. ASSUME NEW s \in Slots, s \notin V
        PROVE  processes'[s] = processes[s] /\ (Held(s)' <=> Held(s))
    <3>1. processes'[s] = processes[s]
      BY <2>3, <2>5
    <3>2. Held(s) => s <= last'
      BY <2>3, <2>5 DEF LastHeld, Held
    <3>3. last' <= last
      BY <2>3 DEF LastHeld, Held, Slots, TypeOK, TableType
    <3> QED
      BY <2>3, <3>1, <3>2, <3>3 DEF Held, Slots, TypeOK, TableType
  <2>6. \A s \in WorkerSlots' : s \in WorkerSlots /\ processes'[s] = processes[s]
    BY <2>4, <2>5 DEF WorkerSlots
  <2>7. Serving \ V \subseteq Serving'
    BY <1>2, <2>5 DEF Serving, WorkerSlots
  <2>8. Cardinality(Serving) <= Cardinality(Serving') + Cardinality(V)
    <3>1. Serving \subseteq Serving' \union V
      BY <2>7
    <3>2. /\ IsFiniteSet(Serving' \union V)
          /\ Cardinality(Serving' \union V) =
               Cardinality(Serving') + Cardinality(V) - Cardinality(Serving' \intersect V)
      BY <2>2, FiniteServingAfter, FS_Union, Zenon
    <3>3. Cardinality(Serving' \intersect V) \in Nat
      BY <2>2, FS_Subset, FS_CardinalityType
    <3>4. Cardinality(Serving) <= Cardinality(Serving' \union V)
      BY <3>1, <3>2, FS_Subset
    <3> QED
      BY <2>2, <3>2, <3>3, <3>4, FiniteServing, FiniteServingAfter
  <2>9. WorkersDue' = 0
    BY <1>6, NoWorkersWanted
  <2>10. ~Stopping' /\ ~Recounting' => Cardinality(Serving') + WorkersDue' >= ccf'
    <3>1. ~Stopping' /\ ~Recounting' => Cardinality(Serving) >= ccf
      BY <1>1, <1>2, FiniteServing DEF EnoughInv
    <3> QED
      BY <1>3, <1>6, <2>2, <2>8, <2>9, <3>1, FiniteServing, FiniteServingAfter
  <2>11. \A s \in WorkerSlots' : processes'[s].respawn
    BY <2>6 DEF EnoughInv
  <2>12. \A q \in Pids : os'[q].st # "fatal"
    BY <2>3 DEF EnoughInv, Asked, TypeOK, TableType, Process
  <2> QED
    BY <1>2, <2>10, <2>11, <2>12 DEF EnoughInv
<1> QED
  BY <1>4, <1>5, <1>6 DEF UpdateWorkers

(* The check of the stored count.                                          *)
LEMMA CheckCountEnough ==
  ASSUME TypeOK, OneInv, EnoughInv, NEW next, NEW skip, CheckCount(next, skip),
         Stopping' <=> Stopping, pc # "spawn", ~Starting,
         next # "cmd", skip # "cmd", Recounting => next = "start" /\ skip = "start"
  PROVE  EnoughInv'
<1>1. CASE kv > 0 /\ UpdateWorkers(kv, next, skip)
  <2>1. kv \in Nat \ {0}
    BY <1>1 DEF TypeOK, CountType
  <2> QED
    BY <1>1, <2>1, UpdateWorkersEnough
<1>2. CASE ret' = next /\ pc' = skip /\ todo' = <<>> /\ UNCHANGED <<table, os, ccf>>
  <2>1. todo = <<>> /\ WorkersDue = 0 /\ WorkersDue' = 0
    BY <1>2, NoneWanted, NoWorkersWanted DEF OneInv
  <2>2. ~Starting' /\ (~Recounting' => ~Recounting)
    BY <1>2 DEF Starting, Recounting
  <2>3. \A q \in Pids : os'[q].st # "fatal"
    BY <1>2 DEF EnoughInv
  <2> QED
    BY <1>2, <2>1, <2>2, <2>3, SameTableEnough DEF table
<1> QED
  BY <1>1, <1>2 DEF CheckCount

(* The statuses of the dead stop nobody's respawn but that of a process    *)
(* that ended fatally.                                                     *)
LEMMA WakeEnough == TypeOK /\ EnoughInv /\ Wake => EnoughInv'
<1> SUFFICES ASSUME TypeOK, EnoughInv, Wake PROVE EnoughInv'
  OBVIOUS
<1>1. /\ pc = "wait" /\ pc' \in {"reap", "decide"} /\ UNCHANGED <<last, ccf, todo>>
      /\ flags' = (flags \union pend) \ {"CHLD"}
  BY DEF Wake
<1>2. /\ ~Starting /\ ~Recounting /\ ~Starting'
      /\ ~Stopping' => ~Stopping
      /\ WorkersDue' = WorkersDue
  BY <1>1 DEF Starting, Recounting, Stopping, WorkersDue, Wanted
<1>3. CASE UNCHANGED <<processes, os>>
  <2>1. \A q \in Pids : os'[q].st # "fatal"
    BY <1>3 DEF EnoughInv
  <2> QED
    BY <1>1, <1>2, <1>3, <2>1, SameTableEnough
<1>4. CASE GetStatus
  <2>1. \A s \in Slots : /\ processes'[s].pid = processes[s].pid
                         /\ processes'[s].name = processes[s].name
                         /\ processes'[s].exiting = processes[s].exiting
                         /\ processes'[s].just = processes[s].just
    BY <1>4 DEF GetStatus, GetStatusOf, TypeOK, TableType, Slot
  <2>2. \A s \in Slots : Held(s) => processes[s].pid \in Pids
    BY DEF Held, TypeOK, TableType, Slot
  <2>3. \A s \in Slots : processes[s].respawn => processes'[s].respawn
    BY <1>4, <2>2 DEF GetStatus, GetStatusOf, EnoughInv, TypeOK, TableType, Slot
  <2>4. \A q \in Pids : os'[q].st # "fatal"
    BY <1>4 DEF GetStatus, GetStatusOf, EnoughInv, NoProcess
  <2> QED
    BY <1>1, <1>2, <2>1, <2>3, <2>4, SamePidsEnough
<1> QED
  BY <1>3, <1>4 DEF Wake

(* Every step keeps enough workers.                                        *)
LEMMA EnoughNext ==
  ForksSucceed /\ ~FatalExit /\ HasRoom
    /\ TypeOK /\ SupervisionInv /\ AccountInv /\ OneInv /\ EnoughInv /\ [Next]_vars
    => EnoughInv'
<1> SUFFICES ASSUME ForksSucceed, ~FatalExit, HasRoom,
                    TypeOK, SupervisionInv, AccountInv, OneInv, EnoughInv, [Next]_vars
             PROVE  EnoughInv'
  OBVIOUS
<1>1. CASE Spawn
  BY <1>1, SpawnEnough
<1>2. CASE SpawnDone
  <2>1. /\ pc = "spawn" /\ todo = <<>> /\ pc' = ret
        /\ UNCHANGED <<processes, last, os, ccf, flags, ret, todo>>
    BY <1>2 DEF SpawnDone, EndBatch, table
  <2>2. /\ Starting' => Starting
        /\ ~Recounting' => ~Recounting
        /\ Stopping' <=> Stopping
    BY <2>1 DEF Starting, Recounting, Stopping
  <2>3. WorkersDue' = WorkersDue /\ \A i \in DOMAIN todo' : todo'[i].just
    BY <2>1 DEF WorkersDue, Wanted
  <2>4. \A q \in Pids : os'[q].st # "fatal"
    BY <2>1 DEF EnoughInv
  <2> QED
    BY <2>1, <2>2, <2>3, <2>4, SameTableEnough
<1>3. CASE Boot
  BY <1>3, CheckCountEnough DEF Boot, Starting, Recounting, Stopping
<1>4. CASE Top \/ Exit \/ NoReload \/ Reconfigure
  <2>1. /\ pc \in {"top", "decide"} /\ UNCHANGED <<processes, last, os, todo>>
        /\ Stopping' <=> Stopping
        /\ \/ pc' \in {"wait", "exited", "rtc", "top"} /\ ccf' = ccf
           \/ pc' = "count"
    BY <1>4 DEF Top, Exit, NoReload, Reconfigure, table, Stopping
  <2>2. ~Starting' /\ ~Recounting
    BY <2>1 DEF Starting, Recounting
  <2>3. WorkersDue' = WorkersDue /\ \A q \in Pids : os'[q].st # "fatal"
    BY <2>1 DEF WorkersDue, Wanted, EnoughInv
  <2>4. ~Recounting' => ccf' = ccf
    BY <2>1 DEF Recounting
  <2> QED
    BY <2>1, <2>2, <2>3, <2>4, SameTableEnough
<1>5. CASE Wake
  BY <1>5, WakeEnough
<1>6. CASE ReapEmpty \/ ReapLive \/ ReapRespawn \/ ReapCrash \/ ReapRelease \/ ReapEnd
  BY <1>6, ReapEnough
<1>7. CASE Terminate \/ Quit
  <2>1. pc = "decide" /\ pc' = "top" /\ UNCHANGED <<last, ccf, todo>>
    BY <1>7 DEF Terminate, Quit
  <2>2. Stopping' /\ ~Starting'
    <3>1. Stopping /\ flags \subseteq flags'
      BY <1>7 DEF Terminate, Quit, SignalWorkers, Stopping
    <3> QED
      BY <2>1, <3>1 DEF Stopping, Starting
  <2>3. CASE UNCHANGED <<processes, os>>
    <3>1. \A q \in Pids : os'[q].st # "fatal"
      BY <2>3 DEF EnoughInv
    <3> QED
      BY <2>1, <2>2, <2>3, <3>1, SameTableEnough
  <2>4. ASSUME NEW sig, SignalWorkers(sig) PROVE EnoughInv'
    <3> DEFINE T == {s \in Slots : /\ Held(s) /\ ~processes[s].just
                                   /\ sig = "QUIT" => ~processes[s].exiting}
    <3>1. Tell(T, IF sig = "KILL" THEN Killed ELSE Quitting) /\ T \in SUBSET Slots
      BY <2>4 DEF SignalWorkers
    <3> HIDE DEF T
    <3> QED
      BY <2>1, <2>2, <3>1, TellEnough
  <2> QED
    BY <1>7, <2>3, <2>4 DEF Terminate, Quit
<1>8. CASE Recount
  BY <1>8, CheckCountEnough DEF Recount, Starting, Recounting, Stopping
<1>9. CASE StartNew
  <2>1. /\ UNCHANGED <<processes, last, os, ccf>> /\ todo' = WorkerRequests(ccf, TRUE)
        /\ ccf \in Nat
    BY <1>9 DEF StartNew, table, TypeOK, CountType
  <2>2. WorkersDue' = ccf
    BY <2>1, WorkersWanted
  <2>3. \A i \in DOMAIN todo' : todo'[i].just
    BY <2>1 DEF WorkerRequests, Request
  <2>4. /\ \A s \in WorkerSlots' : processes'[s].respawn
        /\ \A q \in Pids : os'[q].st # "fatal"
    BY <2>1 DEF EnoughInv, WorkerSlots, Held
  <2>5. Cardinality(Serving') + WorkersDue' >= ccf'
    BY <2>1, <2>2, FiniteServingAfter
  <2> QED
    BY <2>3, <2>4, <2>5 DEF EnoughInv
<1>10. CASE RestartCmd
  <2>1. /\ pc = "cmd" /\ pc' = "rtc" /\ UNCHANGED <<last, ccf, todo>>
        /\ flags \subseteq flags'
    BY <1>10 DEF RestartCmd
  <2>2. Starting /\ ~Recounting /\ ~Starting' /\ (~Stopping' => ~Stopping)
    BY <2>1 DEF Starting, Recounting, Stopping
  <2>3. PICK T \in SUBSET Slots : /\ Tell(T, Quitting)
                                  /\ \A s \in T : ~processes[s].just
    BY <1>10 DEF RestartCmd
  <2>4. \A s \in Serving : s \notin T
    BY <2>2, <2>3 DEF Serving
  <2> QED
    BY <2>1, <2>2, <2>3, <2>4, TellEnough
<1>11. CASE RuntimeCount
  <2>1. /\ pc = "rtc" /\ flags' = flags \ {"CONF"} /\ ~Starting /\ ~Recounting
        /\ Stopping' <=> Stopping
    BY <1>11 DEF RuntimeCount, Starting, Recounting, Stopping
  <2>2. CASE kv > 0 /\ UpdateWorkers(kv, "agent", "agent")
    <3>1. kv \in Nat \ {0}
      BY <2>2 DEF TypeOK, CountType
    <3> QED
      BY <2>1, <2>2, <3>1, UpdateWorkersEnough
  <2>3. CASE pc' = "agent" /\ UNCHANGED <<table, os, ccf, todo>>
    <3>1. ~Starting' /\ WorkersDue' = WorkersDue /\ \A q \in Pids : os'[q].st # "fatal"
      BY <2>3 DEF Starting, WorkersDue, Wanted, EnoughInv
    <3> QED
      BY <2>1, <2>3, <3>1, SameTableEnough DEF table
  <2> QED
    BY <1>11, <2>2, <2>3 DEF RuntimeCount
<1>12. CASE RestartAgent
  <2>1. /\ pc = "agent" /\ UNCHANGED <<processes, last, os, flags, ccf>> /\ todo = <<>>
        /\ ~Starting' /\ ~Recounting /\ todo' \in {todo, AgentRequests}
    BY <1>12 DEF RestartAgent, table, Starting, Recounting, OneInv
  <2>2. WorkersDue' = WorkersDue /\ \A q \in Pids : os'[q].st # "fatal"
    BY <2>1, NoneWanted, NoWorkersWanted DEF EnoughInv
  <2>3. Stopping' <=> Stopping
    BY <2>1 DEF Stopping
  <2> QED
    BY <2>1, <2>2, <2>3, SameTableEnough
<1>13. CASE Environment
  <2>1. UNCHANGED <<processes, last, ccf, flags, todo, pc, ret>>
    BY <1>13
    DEF Environment, ChildExit, ChildCrash, Alarm, SetCount, Reload, Stop, masterVars, table
  <2>2. \A q \in Pids : os'[q].st # "fatal"
    <3>1. CASE \E p \in Pids : ChildExit(p) \/ ChildCrash(p)
      BY <3>1 DEF ChildExit, ChildCrash, EnoughInv, TypeOK, TableType, Process
    <3>2. CASE UNCHANGED os
      BY <3>2 DEF EnoughInv
    <3> QED
      BY <1>13, <3>1, <3>2 DEF Environment, Alarm, SetCount, Reload, Stop
  <2>3. /\ Starting' <=> Starting
        /\ Recounting' <=> Recounting
        /\ Stopping' <=> Stopping
        /\ WorkersDue' = WorkersDue
    BY <2>1 DEF Starting, Recounting, Stopping, WorkersDue, Wanted
  <2>4. Starting' => \A i \in DOMAIN todo' : todo'[i].just
    BY <2>1, <2>3 DEF EnoughInv
  <2> QED
    BY <2>1, <2>2, <2>3, <2>4, SameTableEnough
<1>14. CASE UNCHANGED vars
  <2>1. UNCHANGED <<processes, last, os, ccf, flags, todo, pc, ret>>
    BY <1>14 DEF vars
  <2>2. /\ Starting' <=> Starting
        /\ Recounting' <=> Recounting
        /\ Stopping' <=> Stopping
        /\ WorkersDue' = WorkersDue
    BY <2>1 DEF Starting, Recounting, Stopping, WorkersDue, Wanted
  <2>3. \A q \in Pids : os'[q].st # "fatal"
    BY <2>1 DEF EnoughInv
  <2>4. Starting' => \A i \in DOMAIN todo' : todo'[i].just
    BY <2>1, <2>2 DEF EnoughInv
  <2> QED
    BY <2>1, <2>2, <2>3, <2>4, SameTableEnough
<1> QED
  BY <1>1, <1>2, <1>3, <1>4, <1>5, <1>6, <1>7, <1>8, <1>9, <1>10, <1>11, <1>12, <1>13, <1>14 DEF Next, MasterStep

(* The first batch asks for as many workers as are configured.             *)
LEMMA InitWorkersDue == Init => WorkersDue = ccf
<1> SUFFICES ASSUME Init PROVE WorkersDue = ccf
  OBVIOUS
<1>1. /\ Request("worker", FALSE, FALSE) \in AskedFor("worker")
      /\ Request("helper", FALSE, FALSE) \notin AskedFor("worker")
      /\ Request("helper", FALSE, TRUE) \notin AskedFor("worker")
      /\ Request("agent", FALSE, FALSE) \notin AskedFor("worker")
  BY DEF Request, Requests, Names, AskedFor
<1>2. WorkersDue = (IF TRUE THEN ccf ELSE 0) + (IF FALSE THEN NKeep ELSE 0)
                   + (IF FALSE THEN NReload ELSE 0) + (IF FALSE THEN 1 ELSE 0)
  BY <1>1, FirstBatch DEF WorkersDue
<1> QED
  BY <1>2, InitType DEF TypeOK, CountType

(* So there are enough at the start.                                       *)
LEMMA InitEnough == Init => EnoughInv
<1> SUFFICES ASSUME Init PROVE EnoughInv
  OBVIOUS
<1>1. ccf \in Nat
  BY InitType DEF TypeOK, CountType
<1>2. WorkersDue = ccf
  BY InitWorkersDue
<1>3. \A q \in Pids : os[q].st # "fatal"
  BY DEF Init, NoProcess
<1>4. WorkerSlots = {}
  BY DEF Init, WorkerSlots, Held, FreeSlot
<1>5. ~Starting
  BY DEF Init, Starting
<1>6. WorkersDue \in Nat
  BY InitType, FiniteWanted DEF WorkersDue
<1> QED
  BY <1>1, <1>2, <1>3, <1>4, <1>5, <1>6, FiniteServing DEF EnoughInv

(* So they always are as many.                                             *)
LEMMA EnoughKept ==
  ASSUME ForksSucceed, FatalExit = FALSE
  PROVE  Spec /\ []HasRoom => [](AccountInv /\ OneInv /\ EnoughInv)
<1>1. Spec => []AccountInv
  BY AccountKept
<1>2. Spec => []OneInv
  BY TypeCorrect, InitOne, OneNext, PTL DEF Spec
<1>3. HasRoom /\ TypeOK /\ SupervisionInv /\ AccountInv /\ OneInv /\ EnoughInv /\ [Next]_vars
        => EnoughInv'
  BY EnoughNext
<1> QED
  BY <1>1, <1>2, <1>3, InitEnough, TypeCorrect, SupervisionInvHolds, PTL DEF Spec

(* As long as the table has a slot and the kernel a process for whoever    *)
(* is to be spawned, and no child dies for good, a master at rest has at   *)
(* least as many workers taking connections as it was last asked for:      *)
(* whatever order reloads, changes of the count, deaths and shrinks come   *)
(* in, and however many configurations are still running.                  *)
THEOREM EnoughWorkersHolds ==
  ASSUME MaxForkFail = 0, MaxPid > 2 * MaxProcesses, FatalExit = FALSE
  PROVE  Spec /\ []HasRoom => []EnoughWorkers
<1>1. Spec /\ []HasRoom => [](AccountInv /\ OneInv /\ EnoughInv)
  BY EnoughKept DEF ForksSucceed
<1>2. TypeOK /\ OneInv /\ EnoughInv => EnoughWorkers
  <2>1. SUFFICES ASSUME TypeOK, OneInv, EnoughInv, Quiet
                 PROVE  Cardinality({s \in WorkerSlots : ~processes[s].exiting}) >= ccf
    BY DEF EnoughWorkers
  <2>2. ~Starting /\ ~Recounting /\ ~Stopping /\ todo = <<>>
    BY <2>1 DEF Quiet, Starting, Recounting, OneInv
  <2>3. Serving = {s \in WorkerSlots : ~processes[s].exiting}
    BY <2>2 DEF Serving
  <2>4. WorkersDue = 0 /\ ccf \in Nat
    BY <2>1, <2>2, NoneWanted DEF TypeOK, CountType
  <2>5. Cardinality(Serving) >= ccf
    BY <2>1, <2>2, <2>4, FiniteServing DEF EnoughInv
  <2> QED
    BY <2>3, <2>5
<1> QED
  BY <1>1, <1>2, TypeCorrect, PTL

-----------------------------------------------------------------------------
(* Who outlives the master.                                                *)

(* Once the master has been told to stop it stays in this part of its      *)
(* loop.                                                                   *)
Ending == pc \in {"top", "wait", "reap", "decide", "exited", "crashed"}
            \/ (pc = "spawn" /\ ret = "decide")
EmptyTable == \A s \in Slots : ~Held(s)

(* `live` is set whenever a process is left in the table: during a reap,   *)
(* in the part of the table it has passed.                                 *)
LiveInv ==
  /\ Stopping => Ending
  /\ pc \notin {"reap", "crashed"} /\ ~live => Stopping /\ todo = <<>> /\ EmptyTable
  /\ pc = "reap" => \A s \in Slots : Held(s) /\ s < idx => live
  /\ pc = "exited" => EmptyTable

(* The reap comes to its end without having seen a process only if the     *)
(* master is stopping: otherwise there is a worker left.                   *)
LEMMA ReapLiveness ==
  ForksSucceed /\ TypeOK /\ SupervisionInv /\ AccountInv /\ OneInv /\ EnoughInv /\ LiveInv
    /\ (ReapEmpty \/ ReapLive \/ ReapRespawn \/ ReapCrash \/ ReapRelease \/ ReapEnd)
    => LiveInv'
<1> SUFFICES ASSUME ForksSucceed, TypeOK, SupervisionInv, AccountInv, OneInv, EnoughInv,
                    LiveInv,
                    \/ ReapEmpty \/ ReapLive \/ ReapRespawn
                    \/ ReapCrash \/ ReapRelease \/ ReapEnd
             PROVE  LiveInv'
  OBVIOUS
<1>1. /\ pc = "reap" /\ UNCHANGED <<flags, ccf>> /\ todo = <<>>
      /\ \A s \in Slots : Held(s) /\ s < idx => live
  BY DEF ReapEmpty, ReapLive, ReapRespawn, ReapCrash, ReapRelease, ReapEnd, Reaping,
         NextSlot, OneInv, LiveInv
<1>2. /\ \A s \in Slots : s \in Nat
      /\ idx \in Nat /\ last \in Nat
  BY DEF Slots, TypeOK, TableType, CountType
<1>3. CASE ReapCrash
  BY <1>3 DEF ReapCrash, LiveInv, Ending
<1>4. CASE ReapEmpty \/ ReapLive \/ ReapRespawn \/ ReapRelease
  <2>1. pc' = "reap" /\ idx' = idx + 1 /\ idx <= last
    BY <1>1, <1>4 DEF ReapEmpty, ReapLive, ReapRespawn, ReapRelease, NextSlot, Reaping
  <2>2. \A s \in Slots : Held(s)' /\ s <= idx => live'
    <3>1. CASE ReapEmpty
      <4>1. UNCHANGED <<processes, last, live>> /\ processes[idx].pid = NoPid
        BY <3>1 DEF ReapEmpty, table
      <4> QED
        BY <1>1, <1>2, <2>1, <4>1 DEF Held
    <3>2. CASE ReapLive
      BY <3>2 DEF ReapLive
    <3>3. CASE ReapRespawn
      BY <3>3, NoForkFails DEF ReapRespawn
    <3>4. CASE ReapRelease
      <4>1. /\ processes' = [processes EXCEPT ![idx] = FreeSlot]
            /\ last' = IF idx = last THEN last - 1 ELSE last
            /\ live' = live
        BY <3>4 DEF ReapRelease
      <4>2. \A s \in Slots : Held(s)' => Held(s) /\ s # idx
        BY <1>2, <4>1 DEF Held, FreeSlot, TypeOK, TableType
      <4> QED
        BY <1>1, <1>2, <2>1, <4>1, <4>2
    <3> QED
      BY <1>4, <3>1, <3>2, <3>3, <3>4
  <2> QED
    BY <1>2, <2>1, <2>2 DEF LiveInv, Ending
<1>5. CASE ReapEnd
  <2>1. pc' = "spawn" /\ ret' = "decide" /\ idx > last
    BY <1>5 DEF ReapEnd
  <2>2. ASSUME ~live'
        PROVE  /\ ~live /\ todo' = <<>>
    <3>1. CASE ~reapHelper
      BY <1>5, <2>2, <3>1 DEF ReapEnd
    <3>2. CASE RestartLater
      BY <2>2, <3>2 DEF RestartLater
    <3>3. CASE RestartNow
      <4>1. /\ live' = (live \/ NReload + NKeep > 0)
            /\ todo' = HelperRequests(NReload, TRUE)
        BY <3>3 DEF RestartNow, StartHelpers
      <4>2. ~live /\ ~(NReload + NKeep > 0)
        BY ONLY <2>2, <4>1, ZenonT(30)
      <4>4. NReload = 0
        BY <4>2, MasterConstants
      <4>3. HelperRequests(0, TRUE) = <<>>
        BY DEF HelperRequests
      <4> QED
        BY <4>1, <4>2, <4>3, <4>4
    <3> QED
      BY <1>5, <3>1, <3>2, <3>3 DEF ReapEnd
  <2>3. ASSUME ~live PROVE EmptyTable
    BY <1>1, <1>2, <2>1, <2>3 DEF EmptyTable, Held
  <2>4. ASSUME EmptyTable PROVE EmptyTable' /\ Stopping'
    <3>5. SameSlots
      BY <1>5, ReapEndSlots
    <3>1. EmptyTable'
      BY <2>4, <3>5 DEF EmptyTable, Held, SameSlots
    <3>2. Serving = {} /\ Cardinality(Serving) = 0
      BY <2>4, FS_EmptySet DEF EmptyTable, Serving, WorkerSlots
    <3>3. WorkersDue = 0 /\ ~Recounting /\ ccf \in Nat \ {0}
      BY <1>1, NoneWanted DEF Recounting, TypeOK, CountType
    <3>4. Stopping
      BY <3>2, <3>3 DEF EnoughInv
    <3> QED
      BY <1>1, <3>1, <3>4 DEF Stopping
  <2> QED
    BY <2>1, <2>2, <2>3, <2>4 DEF LiveInv, Ending
<1> QED
  BY <1>3, <1>4, <1>5

(* Every step keeps `live` true to the table.                              *)
LEMMA LiveNext ==
  ForksSucceed /\ TypeOK /\ SupervisionInv /\ Published /\ AccountInv /\ OneInv
    /\ EnoughInv /\ LiveInv /\ [Next]_vars => LiveInv'
<1> SUFFICES ASSUME ForksSucceed, TypeOK, SupervisionInv, Published, AccountInv, OneInv,
                    EnoughInv, LiveInv, [Next]_vars
             PROVE  LiveInv'
  OBVIOUS
<1>1. ASSUME live', pc' # "exited", Stopping' => Ending'
      PROVE  LiveInv'
  BY <1>1 DEF LiveInv
<1>2. CASE Spawn
  <2>1. /\ pc = "spawn" /\ todo # <<>> /\ UNCHANGED <<pc, ret, live, flags>>
    BY <1>2 DEF Spawn
  <2>2. live /\ (Stopping' => Ending')
    BY <2>1 DEF LiveInv, Stopping, Ending
  <2> QED
    BY <1>1, <2>1, <2>2
<1>3. CASE SpawnDone \/ Top \/ Exit
  <2>1. /\ pc \in {"spawn", "top", "decide"} /\ UNCHANGED <<processes, last, live, todo, ret>>
        /\ \/ pc = "spawn" /\ pc' = ret
           \/ pc' = "wait"
           \/ pc' = "exited" /\ ~live
        /\ Stopping' <=> Stopping
    BY <1>3 DEF SpawnDone, EndBatch, Top, Exit, table, Stopping
  <2>2. EmptyTable' <=> EmptyTable
    BY <2>1 DEF EmptyTable, Held
  <2>3. /\ Stopping' => Ending'
        /\ ~live => Stopping /\ todo = <<>> /\ EmptyTable
    BY <2>1 DEF LiveInv, Ending
  <2>4. pc' # "reap" /\ (pc' = "exited" => ~live)
    BY <2>1 DEF Published, Batches
  <2>5. live => LiveInv'
    BY <1>1, <2>1, <2>3, <2>4
  <2> QED
    BY <2>1, <2>2, <2>3, <2>4, <2>5 DEF LiveInv
<1>4. CASE Wake
  <2>1. /\ pc = "wait" /\ UNCHANGED <<last, todo>> /\ (Stopping => Stopping')
        /\ \/ pc' = "reap" /\ idx' = 1
           \/ pc' = "decide" /\ live' = live
    BY <1>4 DEF Wake, Stopping
  <2>2. SameSlots
    BY <1>4, <2>1, StatusSlots, SameTable DEF Wake
  <2>3. EmptyTable' <=> EmptyTable
    BY <2>2 DEF SameSlots, EmptyTable, Held
  <2>4. \A s \in Slots : ~(s < 1)
    BY DEF Slots
  <2> QED
    BY <2>1, <2>3, <2>4 DEF LiveInv, Ending
<1>5. CASE ReapEmpty \/ ReapLive \/ ReapRespawn \/ ReapCrash \/ ReapRelease \/ ReapEnd
  BY <1>5, ReapLiveness
<1>6. CASE Terminate \/ Quit
  BY <1>1, <1>6 DEF Terminate, Quit, Ending
<1>7. CASE Boot \/ Reconfigure \/ Recount \/ StartNew \/ RestartCmd \/ NoReload
             \/ RuntimeCount \/ RestartAgent
  <2>1. /\ pc \in {"boot", "decide", "count", "start", "cmd", "rtc", "agent"}
        /\ pc = "decide" => ~Stopping
        /\ live' = live \/ live'
        /\ Stopping' => Stopping
        /\ pc' # "exited"
    <3>1. CASE Boot \/ Recount
      <4>1. \E next, skip : CheckCount(next, skip) /\ skip # "exited"
        BY <3>1 DEF Boot, Recount
      <4>2. pc' # "exited"
        BY <4>1 DEF CheckCount, UpdateWorkers
      <4> QED
        BY <3>1, <4>2 DEF Boot, Recount, Stopping
    <3>2. CASE RuntimeCount
      <4>1. pc' # "exited"
        BY <3>2 DEF RuntimeCount, UpdateWorkers
      <4> QED
        BY <3>2, <4>1 DEF RuntimeCount, Stopping
    <3>3. CASE RestartCmd
      BY <3>3 DEF RestartCmd, ReapIfGone, Stopping
    <3>4. CASE Reconfigure \/ StartNew \/ NoReload \/ RestartAgent
      BY <3>4 DEF Reconfigure, StartNew, NoReload, RestartAgent, Stopping
    <3> QED
      BY <1>7, <3>1, <3>2, <3>3, <3>4
  <2>2. ~Stopping
    BY <2>1 DEF LiveInv, Ending
  <2>3. live
    BY <2>1, <2>2 DEF LiveInv
  <2> QED
    BY <1>1, <2>1, <2>2, <2>3
<1>8. CASE Environment \/ UNCHANGED vars
  <2>1. UNCHANGED <<processes, last, flags, pc, ret, idx, live, todo>>
    BY <1>8 DEF Environment, ChildExit, ChildCrash, Alarm, SetCount, Reload, Stop,
                masterVars, table, vars
  <2>2. /\ EmptyTable' <=> EmptyTable
        /\ \A s \in Slots : Held(s)' <=> Held(s)
        /\ Stopping' <=> Stopping
        /\ Ending' <=> Ending
    BY <2>1 DEF EmptyTable, Held, Stopping, Ending
  <2> QED
    BY <2>1, <2>2 DEF LiveInv
<1> QED
  BY <1>2, <1>3, <1>4, <1>5, <1>6, <1>7, <1>8 DEF Next, MasterStep

(* At the start the master takes somebody for living.                      *)
LEMMA InitLive == Init => LiveInv
BY DEF Init, LiveInv, Ending, Stopping

(* Under the same conditions the master exits last: it leaves its loop     *)
(* only with an empty table, so that of its processes only workers that a  *)
(* change of the count has shrunk away can still be there.                 *)
THEOREM OnlyShrunkOutliveHolds ==
  ASSUME MaxForkFail = 0, MaxPid > 2 * MaxProcesses, FatalExit = FALSE
  PROVE  Spec /\ []HasRoom => []OnlyShrunkOutlive
<1>1. Spec /\ []HasRoom => [](AccountInv /\ OneInv /\ EnoughInv)
  BY EnoughKept DEF ForksSucceed
<1>2. Spec => []Published
  BY TypeCorrect, InitPublished, PublishedNext, PTL DEF Spec
<1>3. TypeOK /\ SupervisionInv /\ Published /\ AccountInv /\ OneInv /\ EnoughInv /\ LiveInv
        /\ [Next]_vars => LiveInv'
  BY LiveNext DEF ForksSucceed
<1>4. Spec /\ []HasRoom => []LiveInv
  BY <1>1, <1>2, <1>3, InitLive, TypeCorrect, SupervisionInvHolds, PTL DEF Spec
<1>5. SupervisionInv /\ LiveInv => OnlyShrunkOutlive
  BY DEF SupervisionInv, Supervised, InTable, LiveInv, EmptyTable, OnlyShrunkOutlive
<1> QED
  BY <1>4, <1>5, SupervisionInvHolds, PTL

-----------------------------------------------------------------------------
(* Room for everybody.  A table is large enough for good if it has a slot  *)
(* for every directive, the agent and the workers of every configuration:  *)
(* at a reload those that the stored count adds to the old ones, then the  *)
(* new ones, before any of the old ones is told to quit.                   *)

(* The slots of one kind of process, and the requests for more of them.    *)
Places(n) == Cardinality(SlotsOf(n)) + Cardinality(Wanted(AskedFor(n)))

(* The numbers are numbers, in this state and in the next.                 *)
LEMMA SlotsFinite ==
  ASSUME NEW n
  PROVE  /\ IsFiniteSet(SlotsOf(n)) /\ Cardinality(SlotsOf(n)) \in Nat
         /\ IsFiniteSet(SlotsOf(n)') /\ Cardinality(SlotsOf(n)') \in Nat
<1>1. IsFiniteSet(Slots)
  BY MasterConstants, FS_Interval DEF Slots
<1>2. SlotsOf(n) \in SUBSET Slots /\ SlotsOf(n)' \in SUBSET Slots
  BY DEF SlotsOf
<1> QED
  BY <1>1, <1>2, FS_Subset, FS_CardinalityType

(* So are their sums.                                                     *)
LEMMA PlacesFinite ==
  ASSUME TypeOK, NEW n
  PROVE  /\ Cardinality(SlotsOf(n)) \in Nat /\ Cardinality(Wanted(AskedFor(n))) \in Nat
         /\ Places(n) \in Nat
BY SlotsFinite, FiniteWanted DEF Places

(* A spawn takes a place from the batch to the table, or gives it up.      *)
LEMMA SpawnPlaces ==
  ASSUME TypeOK, Spawn, NEW n
  PROVE  Places(n)' \in Nat /\ Places(n)' <= Places(n)
<1> DEFINE due == Head(todo).name = n
<1>1. /\ todo # <<>> /\ todo' = Tail(todo) /\ Head(todo) \in Requests
  BY HeadTailProperties DEF Spawn, TypeOK
<1>2. Cardinality(Wanted(AskedFor(n))') = IF due THEN Cardinality(Wanted(AskedFor(n))) - 1
                                                 ELSE Cardinality(Wanted(AskedFor(n)))
  <2>1. Head(todo) \in AskedFor(n) <=> due
    BY <1>1 DEF AskedFor
  <2> HIDE DEF due
  <2> QED
    BY <1>1, <2>1, TailWanted
<1>3. \/ Cardinality(SlotsOf(n)') = Cardinality(SlotsOf(n))
      \/ due /\ Cardinality(SlotsOf(n)') = Cardinality(SlotsOf(n)) + 1
  <2>1. CASE SameSlots
    <3>1. SlotsOf(n)' = SlotsOf(n)
      BY <2>1, SameSlotsSets
    <3> QED
      BY <3>1
  <2>2. ASSUME NEW s \in Slots, ~Held(s), Held(s)',
               processes'[s].name = Head(todo).name,
               \A t \in Slots \ {s} : processes'[t] = processes[t] /\ (Held(t)' <=> Held(t))
        PROVE  \/ SlotsOf(n)' = SlotsOf(n)
               \/ due /\ s \notin SlotsOf(n) /\ SlotsOf(n)' = SlotsOf(n) \union {s}
    BY <2>2 DEF SlotsOf
  <2>3. ASSUME NEW s, due, s \notin SlotsOf(n), SlotsOf(n)' = SlotsOf(n) \union {s}
        PROVE  Cardinality(SlotsOf(n)') = Cardinality(SlotsOf(n)) + 1
    BY <2>3, SlotsFinite, FS_AddElement
  <2>4. ASSUME SlotsOf(n)' = SlotsOf(n)
        PROVE  Cardinality(SlotsOf(n)') = Cardinality(SlotsOf(n))
    BY <2>4
  <2> HIDE DEF due
  <2> QED
    BY <2>1, <2>2, <2>3, <2>4, SpawnSlots DEF due
<1>4. 1 \in Wanted(AskedFor(n)) \/ ~due
  <2>1. 1 \in DOMAIN todo /\ todo[1] = Head(todo)
    BY <1>1, HeadTailProperties, LenProperties, EmptySeq DEF TypeOK
  <2> QED
    BY <1>1, <2>1 DEF Wanted, AskedFor
<1>5. due => Cardinality(Wanted(AskedFor(n))) # 0
  BY <1>4, FiniteWanted, FS_EmptySet
<1> HIDE DEF due
<1>6. Cardinality(Wanted(AskedFor(n))') \in Nat
  BY <1>2, <1>5, PlacesFinite
<1> QED
  BY <1>2, <1>3, <1>6, PlacesFinite, SlotsFinite DEF Places

(* Nobody new, and nobody more asked for.                                  *)
LEMMA FewerPlaces ==
  ASSUME TypeOK, NEW n, SlotsOf(n)' \subseteq SlotsOf(n),
         Wanted(AskedFor(n))' \subseteq Wanted(AskedFor(n))
  PROVE  Places(n)' \in Nat /\ Places(n)' <= Places(n)
<1>1. /\ Cardinality(SlotsOf(n)') <= Cardinality(SlotsOf(n))
      /\ Cardinality(Wanted(AskedFor(n))') <= Cardinality(Wanted(AskedFor(n)))
      /\ Cardinality(Wanted(AskedFor(n))') \in Nat
  BY SlotsFinite, FiniteWanted, FS_Subset, FS_CardinalityType
<1> QED
  BY <1>1, SlotsFinite, PlacesFinite DEF Places

(* A table of which the last j slots of workers are taken has j fewer, or  *)
(* none.                                                                   *)
LEMMA ManyVictims ==
  ASSUME NEW j \in Nat
  PROVE  LET rest == WorkerSlots \ Victims(j)
         IN  Cardinality(rest) = 0 \/ Cardinality(rest) <= Cardinality(WorkerSlots) - j
<1> DEFINE After(s) == {t \in WorkerSlots : t > s}
           U == WorkerSlots \ Victims(j)
           D == {MaxProcesses - s : s \in U}
<1>1. IsFiniteSet(WorkerSlots) /\ Cardinality(WorkerSlots) \in Nat
      /\ \A s \in WorkerSlots : s \in Nat /\ MaxProcesses - s \in Nat
  <2>1. IsFiniteSet(Slots) /\ WorkerSlots \in SUBSET Slots
    BY MasterConstants, FS_Interval DEF Slots, WorkerSlots
  <2> QED
    <3>1. IsFiniteSet(WorkerSlots) /\ Cardinality(WorkerSlots) \in Nat
      BY <2>1, FS_Subset, FS_CardinalityType
    <3>2. \A s \in WorkerSlots : s \in 1..MaxProcesses
      BY <2>1 DEF Slots
    <3>3. \A s \in WorkerSlots : s \in Nat /\ MaxProcesses - s \in Nat
      BY <3>2, MasterConstants
    <3> QED
      BY <3>1, <3>3
<1>2. CASE U = {}
  BY <1>2, FS_EmptySet
<1>3. CASE U # {}
  <2>1. D \subseteq Nat /\ D # {}
    BY <1>1, <1>3
  <2>2. PICK x \in D : \A y \in D : x <= y
    <3> HIDE DEF D
    <3> QED
      BY <2>1, Least
  <2>3. PICK m \in U : \A s \in U : s <= m
    <3>1. PICK m \in U : x = MaxProcesses - m
      OBVIOUS
    <3>2. ASSUME NEW s \in U PROVE s <= m
      <4>1. MaxProcesses - m <= MaxProcesses - s
        BY <2>2, <3>1
      <4>2. MaxProcesses \in Nat /\ m \in Nat /\ s \in Nat
        BY <1>1, MasterConstants
      <4> QED
        BY <4>1, <4>2
    <3> QED
      BY <3>2
  <2>4. /\ IsFiniteSet(After(m)) /\ Cardinality(After(m)) \in Nat
        /\ After(m) \in SUBSET WorkerSlots
    BY <1>1, FS_Subset, FS_CardinalityType
  <2>5. Cardinality(After(m)) >= j
    BY <2>4 DEF Victims
  <2>6. U \in SUBSET (WorkerSlots \ After(m))
    BY <1>1, <2>3
  <2>7. /\ IsFiniteSet(WorkerSlots \ After(m))
        /\ Cardinality(WorkerSlots \ After(m)) =
             Cardinality(WorkerSlots) - Cardinality(WorkerSlots \intersect After(m))
    <3> HIDE DEF After
    <3> QED
      BY <1>1, FS_Difference
  <2>8. WorkerSlots \intersect After(m) = After(m)
    BY <2>4
  <2>9. Cardinality(U) <= Cardinality(WorkerSlots \ After(m)) /\ Cardinality(U) \in Nat
    <3> HIDE DEF U, After
    <3> QED
      BY <2>6, <2>7, FS_Subset, FS_CardinalityType
  <2> HIDE DEF U, After
  <2>10. Cardinality(U) <= Cardinality(WorkerSlots) - j
    BY <1>1, <2>4, <2>5, <2>7, <2>8, <2>9
  <2> QED
    BY <2>10 DEF U
<1> QED
  BY <1>2, <1>3

(* njt_update_worker_processes(): the places follow the count.             *)
LEMMA UpdateWorkersPlaces ==
  ASSUME TypeOK, OneInv, pc # "spawn", NEW c \in Nat \ {0}, NEW next, NEW skip,
         UpdateWorkers(c, next, skip)
  PROVE  /\ Places("worker")' \in Nat
         /\ \/ ccf' = ccf /\ Places("worker")' = Places("worker")
            \/ c > ccf /\ ccf' = c /\ Places("worker")' = Places("worker") + (c - ccf)
            \/ /\ c < ccf /\ ccf' = c
               /\ \/ Places("worker")' = 0
                  \/ Places("worker")' <= Places("worker") - (ccf - c)
<1>1. todo = <<>> /\ ccf \in Nat
  BY DEF OneInv, TypeOK, CountType
<1>2. Cardinality(Wanted(AskedFor("worker"))) = 0
  BY <1>1, NoneWanted DEF WorkersDue
<1>3. WorkerSlots = SlotsOf("worker") /\ WorkerSlots' = SlotsOf("worker")'
  BY DEF WorkerSlots, SlotsOf
<1>4. CASE UNCHANGED <<table, ccf>> /\ todo' = <<>>
  <2>1. SlotsOf("worker")' = SlotsOf("worker")
    BY <1>4, SameTable, SameSlotsSets DEF table
  <2>2. Cardinality(Wanted(AskedFor("worker"))') = 0
    BY <1>4, NoWorkersWanted DEF WorkersDue
  <2> QED
    BY <1>2, <1>4, <2>1, <2>2, SlotsFinite DEF Places
<1>5. CASE /\ c > ccf /\ UNCHANGED table /\ ccf' = c
           /\ todo' = WorkerRequests(c - ccf, FALSE)
  <2>1. SlotsOf("worker")' = SlotsOf("worker")
    BY <1>5, SameTable, SameSlotsSets DEF table
  <2>2. c - ccf \in Nat
    BY <1>1, <1>5
  <2>3. Cardinality(Wanted(AskedFor("worker"))') = c - ccf
    BY <1>5, <2>2, WorkersWanted DEF WorkersDue
  <2> QED
    BY <1>2, <1>5, <2>1, <2>2, <2>3, SlotsFinite DEF Places
<1>6. CASE /\ c < ccf /\ todo' = <<>> /\ ccf' = c
           /\ \E l \in 0..MaxProcesses : last' = l /\ Shrink(Victims(ccf - c))
  <2>1. Victims(ccf - c) \in SUBSET WorkerSlots /\ ccf - c \in Nat
    BY <1>1, <1>6 DEF Victims
  <2>2. WorkerSlots' = WorkerSlots \ Victims(ccf - c)
    BY <1>6, <2>1, ShrinkSlots
  <2>3. \/ Cardinality(WorkerSlots') = 0
        \/ Cardinality(WorkerSlots') <= Cardinality(WorkerSlots) - (ccf - c)
    BY <2>1, <2>2, ManyVictims
  <2>4. Cardinality(Wanted(AskedFor("worker"))') = 0
    BY <1>6, NoWorkersWanted DEF WorkersDue
  <2> QED
    BY <1>2, <1>3, <1>6, <2>3, <2>4, SlotsFinite DEF Places
<1> QED
  BY <1>4, <1>5, <1>6 DEF UpdateWorkers

(* What the configurations and the stored count ask for is W at most.      *)
CountsWithin(W) == MaxDynWorker <= W /\ \A c \in ConfCounts : c <= W

(* The workers of older configurations that may still be there.            *)
Older(W) == 2 * W * gen

(* There are at most twice W workers, or requests for one, of every older  *)
(* configuration, and ccf of the present one; those that a reload asks for *)
(* are counted before they are put in the batch.                           *)
WorkersFit(W) ==
  /\ gen <= MaxGen /\ ccf <= W
  /\ pc = "count" => Places("worker") <= Older(W) - W
  /\ Recounting => Places("worker") <= Older(W)
  /\ Places("worker") <= Older(W) + ccf

(* No new configuration, no new count, and no worker more.                 *)
LEMMA SameFit ==
  ASSUME TypeOK, NEW W \in Nat, WorkersFit(W), gen' = gen, ccf' = ccf,
         Places("worker")' \in Nat, Places("worker")' <= Places("worker"),
         pc' = "count" => pc = "count", Recounting' => Recounting
  PROVE  WorkersFit(W)'
<1>1. Older(W) \in Nat /\ Older(W)' = Older(W) /\ ccf \in Nat /\ Places("worker") \in Nat
  BY PlacesFinite DEF Older, TypeOK, CountType
<1>2. /\ ccf' <= W /\ gen' <= MaxGen
      /\ pc' = "count" => Places("worker") <= Older(W) - W
      /\ Recounting' => Places("worker") <= Older(W)
      /\ Places("worker") <= Older(W) + ccf
  BY DEF WorkersFit
<1> QED
  BY <1>1, <1>2 DEF WorkersFit

(* A new count within W.                                                   *)
LEMMA UpdateWorkersFit ==
  ASSUME TypeOK, OneInv, NEW W \in Nat, WorkersFit(W), NEW c \in Nat \ {0}, c <= W,
         NEW next, NEW skip, UpdateWorkers(c, next, skip), gen' = gen, pc # "spawn",
         next # "count", skip # "count",
         IF pc = "count" THEN next = "start" ELSE ~Recounting /\ next # "start" /\ skip # "start"
  PROVE  WorkersFit(W)'
<1>1. /\ Older(W) \in Nat /\ Older(W)' = Older(W) /\ ccf \in Nat /\ Places("worker") \in Nat
      /\ Places("worker")' \in Nat
  BY PlacesFinite, UpdateWorkersPlaces DEF Older, TypeOK, CountType
<1>2. /\ gen <= MaxGen /\ ccf <= W /\ Places("worker") <= Older(W) + ccf
      /\ pc = "count" => Places("worker") <= Older(W) - W
  BY DEF WorkersFit
<1>3. ret' = next /\ pc' \in {skip, "spawn"}
  BY DEF UpdateWorkers
<1>4. pc' # "count" /\ (Recounting' => pc = "count")
  BY <1>3 DEF Recounting
<1>5. /\ ccf' <= W
      /\ pc = "count" => Places("worker")' <= Older(W)
      /\ Places("worker")' <= Older(W) + ccf'
  BY <1>1, <1>2, UpdateWorkersPlaces
<1> QED
  BY <1>1, <1>2, <1>4, <1>5 DEF WorkersFit

(* The count of a new configuration comes on top of the stored one.        *)
LEMMA CheckCountFit ==
  ASSUME TypeOK, OneInv, NEW W \in Nat, CountsWithin(W), WorkersFit(W),
         NEW next, NEW skip, CheckCount(next, skip), gen' = gen, pc # "spawn",
         next # "count", skip # "count",
         IF pc = "count" THEN next = "start" ELSE ~Recounting /\ next # "start" /\ skip # "start"
  PROVE  WorkersFit(W)'
<1>1. CASE kv > 0 /\ kv < MaxDynWorker /\ UpdateWorkers(kv, next, skip)
  <2>1. kv \in Nat \ {0} /\ kv <= W
    BY <1>1, MasterConstants DEF CountsWithin, TypeOK, CountType
  <2> QED
    BY <1>1, <2>1, UpdateWorkersFit
<1>2. CASE ret' = next /\ pc' = skip /\ todo' = <<>> /\ UNCHANGED <<table, ccf>>
  <2>1. SlotsOf("worker")' = SlotsOf("worker") /\ Wanted(AskedFor("worker"))' = {}
    BY <1>2, SameTable, SameSlotsSets DEF table, Wanted
  <2>2. Places("worker")' \in Nat /\ Places("worker")' <= Places("worker")
    BY <2>1, FewerPlaces
  <2>3. pc' # "count" /\ (Recounting' => Recounting)
    BY <1>2 DEF Recounting
  <2> QED
    BY <1>2, <2>2, <2>3, SameFit
<1> QED
  BY <1>1, <1>2 DEF CheckCount

(* Every step keeps the workers within these bounds.                       *)
LEMMA FitNext ==
  ASSUME NEW W \in Nat, CountsWithin(W)
  PROVE  TypeOK /\ Published /\ OneInv /\ WorkersFit(W) /\ [Next]_vars => WorkersFit(W)'
<1> SUFFICES ASSUME TypeOK, Published, OneInv, WorkersFit(W), [Next]_vars
             PROVE  WorkersFit(W)'
  OBVIOUS
<1>1. ASSUME SameSlots, todo' = todo \/ todo' = <<>>,
             gen' = gen, ccf' = ccf, pc' = "count" => pc = "count", Recounting' => Recounting
      PROVE  WorkersFit(W)'
  <2>1. /\ SlotsOf("worker")' = SlotsOf("worker")
        /\ Wanted(AskedFor("worker"))' \subseteq Wanted(AskedFor("worker"))
    BY <1>1, SameSlotsSets DEF Wanted
  <2>2. Places("worker")' \in Nat /\ Places("worker")' <= Places("worker")
    BY <2>1, FewerPlaces
  <2> QED
    BY <1>1, <2>2, SameFit
<1>2. CASE Spawn
  <2>1. Places("worker")' \in Nat /\ Places("worker")' <= Places("worker")
    BY <1>2, SpawnPlaces
  <2>2. UNCHANGED <<gen, ccf, pc, ret>>
    BY <1>2 DEF Spawn
  <2>3. Recounting' => Recounting
    BY <2>2 DEF Recounting
  <2> QED
    BY <2>1, <2>2, <2>3, SameFit
<1>3. CASE SpawnDone \/ Top \/ Exit \/ NoReload
  <2>1. /\ UNCHANGED <<processes, last, todo, gen, ccf, ret>>
        /\ \/ pc = "spawn" /\ pc' = ret
           \/ pc' \in {"wait", "exited", "rtc"}
    BY <1>3 DEF SpawnDone, EndBatch, Top, Exit, NoReload, table
  <2>2. pc' # "count" /\ (Recounting' => Recounting)
    BY <2>1 DEF Published, Batches, Recounting
  <2> QED
    BY <1>1, <2>1, <2>2, SameTable
<1>4. CASE Boot
  <2>1. ~Recounting /\ pc = "boot" /\ gen' = gen /\ CheckCount("agent", "spawn")
    BY <1>4 DEF Boot, Recounting
  <2> QED
    BY <2>1, CheckCountFit
<1>5. CASE Wake
  <2>1. UNCHANGED <<last, gen, ccf, todo>> /\ pc' \in {"reap", "decide"}
    BY <1>5 DEF Wake
  <2>2. SameSlots
    BY <1>5, <2>1, StatusSlots, SameTable DEF Wake
  <2> QED
    BY <1>1, <2>1, <2>2 DEF Recounting
<1>6. CASE ReapEmpty \/ ReapLive \/ ReapCrash
  <2>1. UNCHANGED <<processes, last, gen, ccf, todo>> /\ pc' \in {"reap", "crashed"}
    BY <1>6 DEF ReapEmpty, ReapLive, ReapCrash, NextSlot, Reaping, table
  <2> QED
    BY <1>1, <2>1, SameTable DEF Recounting
<1>7. CASE ReapRespawn \/ ReapRelease
  <2>1. UNCHANGED <<gen, ccf, todo>> /\ pc' = "reap"
    BY <1>7 DEF ReapRespawn, ReapRelease, NextSlot, Reaping
  <2>2. SlotsOf("worker")' \subseteq SlotsOf("worker")
    BY <1>7, ReapSlots
  <2>3. Wanted(AskedFor("worker"))' \subseteq Wanted(AskedFor("worker"))
    BY <2>1 DEF Wanted
  <2>4. Places("worker")' \in Nat /\ Places("worker")' <= Places("worker")
    BY <2>2, <2>3, FewerPlaces
  <2>5. pc' # "count" /\ ~Recounting'
    BY <2>1 DEF Recounting
  <2> QED
    BY <2>1, <2>4, <2>5, SameFit
<1>8. CASE ReapEnd \/ RestartAgent
  <2>1. /\ UNCHANGED <<gen, ccf>>
        /\ \/ todo' = <<>> \/ todo' = todo \/ todo' = AgentRequests
           \/ todo' = HelperRequests(NReload, TRUE)
        /\ \/ pc' = "top"
           \/ pc' = "spawn" /\ ret' \in {"decide", "top"}
    BY <1>8 DEF ReapEnd, RestartAgent, RestartLater, RestartNow, StartHelpers
  <2>2. SameSlots
    BY <1>8, ReapEndSlots, SameTable DEF RestartAgent, table
  <2>3. Wanted(AskedFor("worker"))' \subseteq Wanted(AskedFor("worker"))
    <3>1. CASE todo' = AgentRequests
      BY <3>1 DEF Wanted, AgentRequests, Request, AskedFor
    <3>2. CASE todo' = HelperRequests(NReload, TRUE)
      BY <3>2 DEF Wanted, HelperRequests, Request, AskedFor
    <3>3. CASE todo' = <<>> \/ todo' = todo
      BY <3>3 DEF Wanted
    <3> QED
      BY <2>1, <3>1, <3>2, <3>3
  <2>4. Places("worker")' \in Nat /\ Places("worker")' <= Places("worker")
    BY <2>2, <2>3, SameSlotsSets, FewerPlaces
  <2>5. pc' # "count" /\ ~Recounting'
    BY <2>1 DEF Recounting
  <2> QED
    BY <2>1, <2>4, <2>5, SameFit
<1>9. CASE Terminate \/ Quit
  <2>1. UNCHANGED <<last, gen, ccf, todo>> /\ pc' = "top"
    BY <1>9 DEF Terminate, Quit
  <2>2. SameSlots
    BY <1>9, <2>1, SignalSlots, SameTable DEF Terminate, Quit
  <2> QED
    BY <1>1, <2>1, <2>2 DEF Recounting
<1>10. CASE Reconfigure
  <2>1. UNCHANGED <<processes, last, todo>> /\ pc = "decide" /\ ~Recounting
    BY <1>10 DEF Reconfigure, table, Recounting
  <2>2. CASE pc' = "top" /\ UNCHANGED <<gen, ccf>>
    BY <1>1, <2>1, <2>2, SameTable DEF Recounting
  <2>3. CASE gen < MaxGen /\ gen' = gen + 1 /\ ccf' \in ConfCounts /\ pc' = "count"
    <3>1. SlotsOf("worker")' = SlotsOf("worker")
      BY <2>1, SameTable, SameSlotsSets
    <3>2. Wanted(AskedFor("worker"))' = Wanted(AskedFor("worker"))
      BY <2>1 DEF Wanted
    <3>3. Places("worker")' = Places("worker") /\ Places("worker") \in Nat
      BY <3>1, <3>2, PlacesFinite DEF Places
    <3>4. gen \in Nat /\ MaxGen \in Nat /\ ccf \in Nat /\ ccf' \in Nat /\ ccf' <= W
      BY <2>3, MasterConstants DEF TypeOK, CountType, CountsWithin
    <3>5. Older(W) \in Nat /\ Older(W)' = Older(W) + 2 * W
      BY <2>3, <3>4 DEF Older
    <3>6. Places("worker") <= Older(W) + ccf /\ ccf <= W
      BY DEF WorkersFit
    <3> QED
      BY <2>3, <3>3, <3>4, <3>5, <3>6 DEF WorkersFit
  <2> QED
    BY <1>10, <2>2, <2>3 DEF Reconfigure
<1>11. CASE Recount
  <2>1. pc = "count" /\ gen' = gen /\ CheckCount("start", "start")
    BY <1>11 DEF Recount
  <2> QED
    BY <2>1, CheckCountFit
<1>12. CASE StartNew
  <2>1. /\ UNCHANGED <<processes, last, gen, ccf>> /\ todo' = WorkerRequests(ccf, TRUE)
        /\ pc = "start" /\ pc' = "spawn" /\ ret' = "cmd" /\ ccf \in Nat /\ gen \in Nat
        /\ todo = <<>>
    BY <1>12 DEF StartNew, table, TypeOK, CountType, OneInv
  <2>2. Cardinality(Wanted(AskedFor("worker"))') = ccf
    BY <2>1, WorkersWanted DEF WorkersDue
  <2>3. Cardinality(Wanted(AskedFor("worker"))) = 0
    BY <2>1, NoneWanted DEF WorkersDue
  <2>4. SlotsOf("worker")' = SlotsOf("worker")
    BY <2>1, SameTable, SameSlotsSets
  <2>5. Places("worker")' = Places("worker") + ccf /\ Places("worker") \in Nat
    BY <2>1, <2>2, <2>3, <2>4, SlotsFinite DEF Places
  <2>6. Older(W) \in Nat /\ Older(W)' = Older(W)
    BY <2>1 DEF Older
  <2>7. Places("worker") <= Older(W) /\ ccf <= W /\ gen <= MaxGen
    BY <2>1 DEF WorkersFit, Recounting
  <2> QED
    BY <2>1, <2>5, <2>6, <2>7 DEF WorkersFit, Recounting
<1>13. CASE RestartCmd
  <2>1. PICK T, st : Tell(T, st)
    BY <1>13 DEF RestartCmd
  <2>2. UNCHANGED <<last, gen, ccf, todo>> /\ pc' = "rtc"
    BY <1>13 DEF RestartCmd
  <2>3. SameSlots
    BY <2>1, <2>2, TellSlots
  <2> QED
    BY <1>1, <2>2, <2>3 DEF Recounting
<1>14. CASE RuntimeCount
  <2>1. gen' = gen /\ pc = "rtc" /\ ~Recounting
    BY <1>14 DEF RuntimeCount, Recounting
  <2>2. CASE kv > 0 /\ kv <= MaxDynWorker /\ UpdateWorkers(kv, "agent", "agent")
    <3>1. kv \in Nat \ {0} /\ kv <= W
      BY <2>2, MasterConstants DEF CountsWithin, TypeOK, CountType
    <3> QED
      BY <2>1, <2>2, <3>1, UpdateWorkersFit
  <2>3. CASE pc' = "agent" /\ UNCHANGED <<table, ccf, todo>>
    BY <1>1, <2>1, <2>3, SameTable DEF table, Recounting
  <2> QED
    BY <1>14, <2>2, <2>3 DEF RuntimeCount
<1>15. CASE Environment \/ UNCHANGED vars
  <2>1. UNCHANGED <<processes, last, gen, ccf, todo, pc, ret>>
    BY <1>15
    DEF Environment, ChildExit, ChildCrash, Alarm, SetCount, Reload, Stop, masterVars, table,
        vars
  <2>2. Recounting' => Recounting
    BY <2>1 DEF Recounting
  <2> QED
    BY <1>1, <2>1, <2>2, SameTable
<1> QED
  BY <1>2, <1>3, <1>4, <1>5, <1>6, <1>7, <1>8, <1>9, <1>10, <1>11, <1>12, <1>13, <1>14, <1>15 DEF Next, MasterStep

(* The first batch asks for the workers of one configuration.              *)
LEMMA InitFit ==
  ASSUME NEW W \in Nat, CountsWithin(W)
  PROVE  Init => WorkersFit(W)
<1> SUFFICES ASSUME Init PROVE WorkersFit(W)
  OBVIOUS
<1>1. /\ gen = 0 /\ ccf \in Nat /\ ccf <= W /\ pc = "spawn" /\ ret = "boot" /\ MaxGen \in Nat
  BY MasterConstants DEF Init, CountsWithin
<1>2. Cardinality(Wanted(AskedFor("worker"))) = ccf
  BY InitWorkersDue DEF WorkersDue
<1>3. SlotsOf("worker") = {} /\ Cardinality(SlotsOf("worker")) = 0
  BY FS_EmptySet DEF Init, SlotsOf, Held, FreeSlot
<1>4. Older(W) = 0
  BY <1>1 DEF Older
<1> QED
  BY <1>1, <1>2, <1>3, <1>4 DEF WorkersFit, Places, Recounting

(* There is one privileged agent, or one to be spawned: it is asked for    *)
(* again only after a reap has taken the last one off the table.           *)
AgentInv ==
  /\ Places("agent") <= 1
  /\ \A s \in SlotsOf("agent") : ~processes[s].respawn
  /\ agentExited => Wanted(AskedFor("agent")) = {}
  /\ agentExited /\ pc # "crashed" =>
       \A s \in SlotsOf("agent") : pc = "reap" /\ idx <= s /\ processes[s].exited

(* The agent stays or goes.                                                *)
LEMMA AgentKept ==
  ASSUME TypeOK, AgentInv, SlotsOf("agent")' \subseteq SlotsOf("agent"),
         Wanted(AskedFor("agent"))' \subseteq Wanted(AskedFor("agent")),
         \A s \in SlotsOf("agent")' : /\ processes'[s].respawn => processes[s].respawn
                                      /\ processes[s].exited => processes'[s].exited,
         agentExited' => agentExited,
         agentExited /\ pc' # "crashed" => pc # "crashed",
         agentExited /\ pc' # "crashed" /\ pc = "reap" =>
           \A s \in SlotsOf("agent")' : idx <= s => pc' = "reap" /\ idx' <= s
  PROVE  AgentInv'
<1>1. Places("agent")' \in Nat /\ Places("agent")' <= Places("agent") /\ Places("agent") <= 1
  BY FewerPlaces DEF AgentInv
<1>2. Places("agent")' <= 1
  BY <1>1, PlacesFinite
<1>3. agentExited' => Wanted(AskedFor("agent"))' = {}
  BY DEF AgentInv
<1>4. ASSUME agentExited', pc' # "crashed", NEW s \in SlotsOf("agent")'
      PROVE  pc' = "reap" /\ idx' <= s /\ processes'[s].exited
  BY <1>4 DEF AgentInv
<1>5. \A s \in SlotsOf("agent")' : ~processes'[s].respawn
  BY DEF AgentInv
<1> QED
  BY <1>2, <1>3, <1>4, <1>5 DEF AgentInv

(* There are not two agents.                                               *)
LEMMA OneAgent ==
  ASSUME TypeOK, AgentInv
  PROVE  /\ \A s, t \in SlotsOf("agent") : s = t
         /\ SlotsOf("agent") # {} => Wanted(AskedFor("agent")) = {}
<1>1. /\ Cardinality(SlotsOf("agent")) + Cardinality(Wanted(AskedFor("agent"))) <= 1
      /\ Cardinality(SlotsOf("agent")) \in Nat /\ Cardinality(Wanted(AskedFor("agent"))) \in Nat
      /\ IsFiniteSet(SlotsOf("agent")) /\ IsFiniteSet(Wanted(AskedFor("agent")))
  BY PlacesFinite, SlotsFinite, FiniteWanted DEF AgentInv, Places
<1>2. ASSUME NEW s \in SlotsOf("agent"), NEW t \in SlotsOf("agent"), s # t PROVE FALSE
  <2>1. /\ IsFiniteSet({s}) /\ Cardinality({s}) = 1
    BY FS_Singleton
  <2>2. Cardinality({s} \union {t}) = 2
    BY <1>2, <2>1, FS_AddElement
  <2>3. {s} \union {t} \subseteq SlotsOf("agent")
    OBVIOUS
  <2> QED
    BY <1>1, <2>2, <2>3, FS_Subset
<1>3. ASSUME SlotsOf("agent") # {} PROVE Wanted(AskedFor("agent")) = {}
  BY <1>1, <1>3, FS_EmptySet
<1> QED
  BY <1>2, <1>3

(* Nothing in the steps that only go on, or that replace the batch by one  *)
(* of workers or copilots, concerns the agent.                             *)
LEMMA AgentAlone ==
  ASSUME TypeOK, AgentInv, SlotsOf("agent")' = SlotsOf("agent"),
         \A s \in SlotsOf("agent") : /\ processes'[s].respawn = processes[s].respawn
                                     /\ processes[s].exited => processes'[s].exited,
         \/ todo' = todo \/ todo' = <<>> \/ \E n, r : todo' = HelperRequests(n, r)
         \/ \E n, r : todo' = WorkerRequests(n, r),
         agentExited' = agentExited, pc # "crashed", pc # "reap"
  PROVE  AgentInv'
<1>1. Wanted(AskedFor("agent"))' \subseteq Wanted(AskedFor("agent"))
  <2>1. ASSUME NEW n, NEW r, todo' = HelperRequests(n, r)
        PROVE  Wanted(AskedFor("agent"))' = {}
    BY <2>1 DEF Wanted, AskedFor, HelperRequests, Request
  <2>3. ASSUME NEW n, NEW r, todo' = WorkerRequests(n, r)
        PROVE  Wanted(AskedFor("agent"))' = {}
    BY <2>3 DEF Wanted, AskedFor, WorkerRequests, Request
  <2>2. CASE todo' = todo \/ todo' = <<>>
    BY <2>2 DEF Wanted
  <2> QED
    BY <2>1, <2>2, <2>3
<1> QED
  BY <1>1, AgentKept

(* Signals and quit commands change neither mark.                          *)
LEMMA TellAgents ==
  ASSUME TypeOK, NEW T, NEW st, Tell(T, st)
  PROVE  \A s \in Slots : /\ processes'[s].respawn = processes[s].respawn
                          /\ processes[s].exited => processes'[s].exited
<1>1. \A s \in Slots :
        \/ processes'[s] = [processes[s] EXCEPT !.just = FALSE]
        \/ processes'[s] = [processes[s] EXCEPT !.exiting = ~Gone(s), !.exited = @ \/ Gone(s)]
        \/ processes'[s] = processes[s]
  BY DEF Tell, Marked
<1> QED
  BY <1>1 DEF TypeOK, TableType, Slot

(* The count and the shrink are about workers.                             *)
LEMMA CountAgents ==
  ASSUME TypeOK, NEW c, NEW next, NEW skip, UpdateWorkers(c, next, skip)
  PROVE  \A s \in SlotsOf("agent") : processes'[s] = processes[s]
<1>1. CASE UNCHANGED processes
  BY <1>1
<1>2. ASSUME Shrink(Victims(ccf - c))
      PROVE  \A s \in SlotsOf("agent") : processes'[s] = processes[s]
  BY <1>2 DEF Shrink, Remove, Victims, WorkerSlots, SlotsOf
<1> QED
  BY <1>1, <1>2 DEF UpdateWorkers, table

(* A spawn of the agent ends the request for it.                           *)
LEMMA SpawnAgent == TypeOK /\ AgentInv /\ Spawn => AgentInv'
<1> SUFFICES ASSUME TypeOK, AgentInv, Spawn PROVE AgentInv'
  OBVIOUS
<1>1. /\ todo # <<>> /\ todo' = Tail(todo) /\ Head(todo) \in Requests
      /\ pc = "spawn" /\ pc' = "spawn" /\ agentExited' = agentExited
  BY HeadTailProperties DEF Spawn, TypeOK
<1>2. Places("agent")' <= 1
  BY SpawnPlaces, PlacesFinite DEF AgentInv
<1>3. \A s \in SlotsOf("agent")' :
        \/ s \in SlotsOf("agent") /\ processes'[s] = processes[s]
        \/ Head(todo).name = "agent" /\ ~processes'[s].respawn
  <2>1. CASE UNCHANGED table
    BY <2>1 DEF table, SlotsOf, Held
  <2>2. ASSUME NEW s \in Slots, NEW p \in Pids, FirstFreeSlot(s), SpawnInto(s, p, Head(todo)),
               NEW t \in SlotsOf("agent")'
        PROVE  \/ t \in SlotsOf("agent") /\ processes'[t] = processes[t]
               \/ Head(todo).name = "agent" /\ ~processes'[t].respawn
    <3>1. /\ processes'[s] = Spawned(p, Head(todo))
          /\ \A u \in Slots \ {s} : processes'[u] = processes[u]
          /\ last' = IF s = last + 1 THEN s ELSE last
          /\ s <= last + 1 /\ ~Held(s)
      BY <2>2 DEF SpawnInto, FirstFreeSlot, TypeOK, TableType
    <3>2. CASE t = s
      <4>1. processes'[s].name = "agent"
        BY <2>2, <3>2 DEF SlotsOf
      <4>2. /\ Spawned(p, Head(todo)).name = Head(todo).name
            /\ Spawned(p, Head(todo)).respawn = (Head(todo).name # "agent")
        BY DEF Spawned
      <4>3. Head(todo).name = "agent" /\ ~Spawned(p, Head(todo)).respawn
        BY <3>1, <4>1, <4>2
      <4> QED
        BY <3>1, <3>2, <4>3
    <3>3. CASE t # s
      <4>1. processes'[t] = processes[t] /\ t <= last' /\ t \in Slots /\ processes'[t].pid # NoPid
        BY <2>2, <3>1, <3>3 DEF SlotsOf, Held
      <4>2. t <= last
        BY <3>1, <3>3, <4>1 DEF Slots, TypeOK, TableType
      <4> QED
        BY <2>2, <4>1, <4>2 DEF SlotsOf, Held
    <3> QED
      BY <3>2, <3>3
  <2> QED
    BY <2>1, <2>2 DEF Spawn
<1>4. ASSUME Wanted(AskedFor("agent")) = {}
      PROVE  Wanted(AskedFor("agent"))' = {} /\ Head(todo).name # "agent"
  <2>1. /\ 1 \in DOMAIN todo /\ Head(todo) = todo[1]
        /\ \A i \in DOMAIN todo' : i + 1 \in DOMAIN todo /\ todo'[i] = todo[i + 1]
    <3>1. todo \in Seq(Requests) /\ Len(todo) \in Nat \ {0} /\ DOMAIN todo = 1..Len(todo)
      BY <1>1, LenProperties, EmptySeq DEF TypeOK
    <3>2. /\ todo' \in Seq(Requests) /\ Len(todo') = Len(todo) - 1
          /\ \A i \in 1..Len(todo') : todo'[i] = todo[i + 1]
          /\ Head(todo) = todo[1]
      BY <1>1, <3>1, HeadTailProperties
    <3>3. DOMAIN todo' = 1..Len(todo')
      BY <3>2, LenProperties
    <3> QED
      BY <3>1, <3>2, <3>3
  <2> QED
    BY <1>1, <1>4, <2>1 DEF Wanted, AskedFor
<1>5. \A s \in SlotsOf("agent")' : ~processes'[s].respawn
  BY <1>3 DEF AgentInv
<1>6. ASSUME agentExited
      PROVE  Wanted(AskedFor("agent"))' = {} /\ SlotsOf("agent")' = {}
  <2>1. Wanted(AskedFor("agent")) = {} /\ SlotsOf("agent") = {}
    BY <1>1, <1>6 DEF AgentInv
  <2> QED
    BY <1>3, <1>4, <2>1
<1> QED
  BY <1>1, <1>2, <1>5, <1>6 DEF AgentInv

(* The status of an agent that ended marks its slot.                       *)
LEMMA WakeAgent == TypeOK /\ AgentInv /\ Wake => AgentInv'
<1> SUFFICES ASSUME TypeOK, AgentInv, Wake PROVE AgentInv'
  OBVIOUS
<1>1. pc = "wait" /\ todo' = todo /\ last' = last
  BY DEF Wake
<1>2. CASE UNCHANGED <<processes, agentExited>>
  <2>1. SlotsOf("agent")' = SlotsOf("agent")
    BY <1>1, <1>2, SameTable, SameSlotsSets
  <2> QED
    BY <1>1, <1>2, <2>1, AgentAlone
<1>3. CASE GetStatus /\ pc' = "reap" /\ idx' = 1
  <2>1. SlotsOf("agent")' = SlotsOf("agent")
    BY <1>1, <1>3, StatusSlots, SameSlotsSets
  <2>2. Wanted(AskedFor("agent"))' = Wanted(AskedFor("agent"))
    BY <1>1 DEF Wanted
  <2>3. \A s \in Slots : /\ processes'[s].respawn => processes[s].respawn
                         /\ processes[s].exited => processes'[s].exited
    BY <1>3 DEF GetStatus, GetStatusOf, TypeOK, TableType, Slot
  <2>4. CASE agentExited' => agentExited
    <3>1. \A s \in SlotsOf("agent") : s \in Slots
      BY DEF SlotsOf
    <3> QED
      BY <1>1, <2>1, <2>2, <2>3, <2>4, <3>1, AgentKept
  <2>5. CASE ~agentExited /\ agentExited'
    <3>1. PICK s \in SlotsOf("agent") : processes'[s].exited
      BY <1>3, <2>5 DEF GetStatus, GetStatusOf, SlotsOf, TypeOK, TableType, Slot
    <3>2. /\ Wanted(AskedFor("agent")) = {}
          /\ \A t \in SlotsOf("agent") : t = s
      BY <3>1, OneAgent
    <3>3. \A t \in SlotsOf("agent") : t \in Slots /\ 1 <= t
      BY DEF SlotsOf, Slots
    <3>4. \A t \in SlotsOf("agent") : ~processes'[t].respawn
      BY <2>3, <3>3 DEF AgentInv
    <3>5. Places("agent")' = Places("agent") /\ Places("agent") <= 1
      BY <2>1, <2>2 DEF Places, AgentInv
    <3> QED
      BY <1>3, <2>1, <2>2, <3>1, <3>2, <3>3, <3>4, <3>5 DEF AgentInv
  <2> QED
    BY <2>4, <2>5
<1> QED
  BY <1>2, <1>3 DEF Wake

(* A slot whose agent ended is freed before the reap is over.              *)
LEMMA ReapAgent ==
  TypeOK /\ OneInv /\ AgentInv
    /\ (ReapEmpty \/ ReapLive \/ ReapRespawn \/ ReapCrash \/ ReapRelease \/ ReapEnd)
    => AgentInv'
<1> SUFFICES ASSUME TypeOK, OneInv, AgentInv,
                    \/ ReapEmpty \/ ReapLive \/ ReapRespawn
                    \/ ReapCrash \/ ReapRelease \/ ReapEnd
             PROVE  AgentInv'
  OBVIOUS
<1>1. pc = "reap" /\ agentExited' = agentExited /\ todo = <<>>
  BY DEF ReapEmpty, ReapLive, ReapRespawn, ReapCrash, ReapRelease, ReapEnd, Reaping,
         NextSlot, OneInv
<1>2. /\ \A s \in SlotsOf("agent") : s \in Nat /\ s \in Slots /\ s <= last
      /\ idx \in Nat /\ last \in Nat
  BY DEF SlotsOf, Held, Slots, TypeOK, TableType, CountType
<1>3. CASE ReapCrash
  <2>1. UNCHANGED <<processes, last, todo>> /\ pc' = "crashed"
    BY <1>3 DEF ReapCrash, table
  <2>2. SlotsOf("agent")' = SlotsOf("agent")
    BY <2>1, SameTable, SameSlotsSets
  <2>3. Wanted(AskedFor("agent"))' = Wanted(AskedFor("agent"))
    BY <2>1 DEF Wanted
  <2> QED
    BY <1>1, <2>1, <2>2, <2>3, AgentKept
<1>4. CASE ReapEmpty \/ ReapLive \/ ReapRespawn \/ ReapRelease
  <2>1. /\ pc' = "reap" /\ idx' = idx + 1 /\ todo' = todo /\ idx <= last
    BY <1>1, <1>4 DEF ReapEmpty, ReapLive, ReapRespawn, ReapRelease, NextSlot, Reaping
  <2>2. idx \in Slots
    BY <1>2, <2>1, MasterConstants DEF Slots, TypeOK, TableType, CountType
  <2>3. /\ SlotsOf("agent")' \subseteq SlotsOf("agent")
        /\ \A s \in SlotsOf("agent")' : processes'[s] = processes[s]
        /\ agentExited => idx \notin SlotsOf("agent")'
    <3>1. CASE ReapEmpty \/ ReapLive
      <4>1. UNCHANGED <<processes, last>>
        BY <3>1 DEF ReapEmpty, ReapLive, table
      <4>2. SlotsOf("agent")' = SlotsOf("agent")
        BY <4>1, SameTable, SameSlotsSets
      <4>3. agentExited => idx \notin SlotsOf("agent")
        BY <1>1, <3>1 DEF ReapEmpty, ReapLive, AgentInv, SlotsOf, Held
      <4> QED
        BY <4>1, <4>2, <4>3
    <3>2. CASE ReapRespawn
      <4>1. processes[idx].respawn
        BY <3>2 DEF ReapRespawn, MustRespawn
      <4>2. idx \notin SlotsOf("agent")
        BY <4>1 DEF AgentInv
      <4>3. \A s \in Slots : s # idx => processes'[s] = processes[s]
        BY <3>2 DEF ReapRespawn, TypeOK, TableType
      <4>4. SlotsOf("agent")' \subseteq SlotsOf("agent")
        BY <3>2, ReapSlots
      <4> QED
        BY <1>2, <4>2, <4>3, <4>4
    <3>3. CASE ReapRelease
      <4>1. \A s \in Slots : s # idx => processes'[s] = processes[s]
        BY <3>3 DEF ReapRelease, TypeOK, TableType
      <4>2. idx \notin SlotsOf("agent")'
        BY <2>2, <3>3 DEF ReapRelease, SlotsOf, Held, FreeSlot, TypeOK, TableType
      <4>3. SlotsOf("agent")' \subseteq SlotsOf("agent")
        BY <3>3, ReapSlots
      <4> QED
        BY <1>2, <4>1, <4>2, <4>3
    <3> QED
      BY <1>4, <3>1, <3>2, <3>3
  <2>4. Wanted(AskedFor("agent"))' = Wanted(AskedFor("agent"))
    BY <2>1 DEF Wanted
  <2>5. agentExited => \A s \in SlotsOf("agent")' : idx <= s => idx' <= s
    BY <1>2, <2>1, <2>3
  <2> QED
    BY <1>1, <2>1, <2>3, <2>4, <2>5, AgentKept
<1>5. CASE ReapEnd
  <2>1. SlotsOf("agent")' = SlotsOf("agent")
    BY <1>5, ReapEndSlots, SameSlotsSets
  <2>2. \A s \in SlotsOf("agent") : processes'[s] = processes[s]
    BY <1>2, <1>5 DEF ReapEnd, RestartLater, RestartNow, StartHelpers, KeptHelper, SlotsOf
  <2>3. Wanted(AskedFor("agent"))' = {}
    <3>1. todo' = <<>> \/ todo' = HelperRequests(NReload, TRUE)
      BY <1>5 DEF ReapEnd, RestartLater, RestartNow, StartHelpers
    <3>2. CASE todo' = HelperRequests(NReload, TRUE)
      BY <3>2 DEF Wanted, AskedFor, HelperRequests, Request
    <3>3. CASE todo' = <<>>
      BY <3>3 DEF Wanted
    <3> QED
      BY <3>1, <3>2, <3>3
  <2>4. idx > last
    BY <1>5 DEF ReapEnd
  <2>5. \A s \in SlotsOf("agent") : ~(idx <= s)
    BY <1>2, <2>4
  <2> QED
    BY <1>1, <2>1, <2>2, <2>3, <2>5, AgentKept
<1> QED
  BY <1>3, <1>4, <1>5

(* Every step keeps it at one agent.                                       *)
LEMMA AgentNext == TypeOK /\ OneInv /\ AgentInv /\ [Next]_vars => AgentInv'
<1> SUFFICES ASSUME TypeOK, OneInv, AgentInv, [Next]_vars PROVE AgentInv'
  OBVIOUS
<1>1. ASSUME UNCHANGED <<processes, last, agentExited>>, pc # "crashed", pc # "reap",
             \/ todo' = todo \/ todo' = <<>> \/ \E n, r : todo' = HelperRequests(n, r)
             \/ \E n, r : todo' = WorkerRequests(n, r)
      PROVE  AgentInv'
  <2>1. SlotsOf("agent")' = SlotsOf("agent")
    BY <1>1, SameTable, SameSlotsSets
  <2> QED
    BY <1>1, <2>1, AgentAlone
<1>2. ASSUME NEW T, NEW st, Tell(T, st), UNCHANGED <<last, agentExited, todo>>,
             pc # "crashed", pc # "reap"
      PROVE  AgentInv'
  <2>1. SlotsOf("agent")' = SlotsOf("agent")
    BY <1>2, TellSlots, SameSlotsSets
  <2>2. \A s \in SlotsOf("agent") : /\ processes'[s].respawn = processes[s].respawn
                                    /\ processes[s].exited => processes'[s].exited
    BY <1>2, TellAgents DEF SlotsOf
  <2> QED
    BY <1>2, <2>1, <2>2, AgentAlone
<1>3. ASSUME NEW c, NEW next, NEW skip, UpdateWorkers(c, next, skip),
             agentExited' = agentExited, pc # "crashed", pc # "reap"
      PROVE  AgentInv'
  <2>1. SlotsOf("agent")' = SlotsOf("agent")
    BY <1>3, UpdateWorkersSlots
  <2>2. \A s \in SlotsOf("agent") : processes'[s] = processes[s]
    BY <1>3, CountAgents
  <2>3. todo' = <<>> \/ \E n, r : todo' = WorkerRequests(n, r)
    BY <1>3 DEF UpdateWorkers
  <2> QED
    BY <1>3, <2>1, <2>2, <2>3, AgentAlone
<1>4. CASE Spawn
  BY <1>4, SpawnAgent
<1>5. CASE SpawnDone \/ Top \/ Exit \/ Reconfigure \/ NoReload
  BY <1>1, <1>5 DEF SpawnDone, EndBatch, Top, Exit, Reconfigure, NoReload, table
<1>6. CASE Boot \/ Recount
  <2>1. PICK next, skip : CheckCount(next, skip)
    BY <1>6 DEF Boot, Recount
  <2>2. agentExited' = agentExited /\ pc # "crashed" /\ pc # "reap"
    BY <1>6 DEF Boot, Recount
  <2>3. CASE UpdateWorkers(kv, next, skip)
    BY <1>3, <2>2, <2>3
  <2>4. CASE UNCHANGED table /\ todo' = <<>>
    BY <1>1, <2>2, <2>4 DEF table
  <2> QED
    BY <2>1, <2>3, <2>4 DEF CheckCount
<1>7. CASE Wake
  BY <1>7, WakeAgent
<1>8. CASE ReapEmpty \/ ReapLive \/ ReapRespawn \/ ReapCrash \/ ReapRelease \/ ReapEnd
  BY <1>8, ReapAgent
<1>9. CASE Terminate \/ Quit
  <2>1. UNCHANGED <<last, agentExited, todo>> /\ pc = "decide"
    BY <1>9 DEF Terminate, Quit
  <2>2. CASE UNCHANGED processes
    BY <1>1, <2>1, <2>2
  <2>3. ASSUME NEW sig, SignalWorkers(sig) PROVE AgentInv'
    <3>1. PICK T, st : Tell(T, st)
      BY <2>3 DEF SignalWorkers
    <3> QED
      BY <1>2, <2>1, <3>1
  <2> QED
    BY <1>9, <2>2, <2>3 DEF Terminate, Quit
<1>10. CASE StartNew
  BY <1>1, <1>10 DEF StartNew, table
<1>11. CASE RestartCmd
  <2>1. PICK T, st : Tell(T, st)
    BY <1>11 DEF RestartCmd
  <2>2. UNCHANGED <<last, agentExited, todo>> /\ pc = "cmd"
    BY <1>11 DEF RestartCmd
  <2> QED
    BY <1>2, <2>1, <2>2
<1>12. CASE RuntimeCount
  <2>1. agentExited' = agentExited /\ pc = "rtc"
    BY <1>12 DEF RuntimeCount
  <2>2. CASE UpdateWorkers(kv, "agent", "agent")
    BY <1>3, <2>1, <2>2
  <2>3. CASE UNCHANGED <<table, todo>>
    BY <1>1, <2>1, <2>3 DEF table
  <2> QED
    BY <1>12, <2>2, <2>3 DEF RuntimeCount
<1>13. CASE RestartAgent
  <2>1. UNCHANGED <<processes, last>> /\ pc = "agent"
    BY <1>13 DEF RestartAgent, table
  <2>2. CASE UNCHANGED <<agentExited, todo>>
    BY <1>1, <2>1, <2>2
  <2>3. CASE agentExited /\ PrivilegedAgent /\ agentExited' = FALSE /\ todo' = AgentRequests
    <3>1. SlotsOf("agent") = {} /\ SlotsOf("agent")' = SlotsOf("agent")
      BY <2>1, <2>3, SameTable, SameSlotsSets DEF AgentInv
    <3>2. Wanted(AskedFor("agent"))' = 1..1
      BY <2>3 DEF Wanted, AskedFor, AgentRequests, Request, Requests, Names
    <3>3. Cardinality(1..1) = 1 /\ Cardinality({}) = 0
      <4>1. 1..1 = {1} /\ Cardinality({1}) = 1
        BY FS_Singleton
      <4> QED
        BY <4>1, FS_EmptySet
    <3>4. Places("agent")' <= 1
      BY <3>1, <3>2, <3>3 DEF Places
    <3> QED
      BY <2>3, <3>1, <3>4 DEF AgentInv
  <2> QED
    BY <1>13, <2>2, <2>3 DEF RestartAgent
<1>14. CASE Environment \/ UNCHANGED vars
  <2>1. UNCHANGED <<processes, last, agentExited, todo, pc, idx>>
    BY <1>14
    DEF Environment, ChildExit, ChildCrash, Alarm, SetCount, Reload, Stop, masterVars, table,
        vars
  <2>2. SlotsOf("agent")' = SlotsOf("agent")
    BY <2>1, SameTable, SameSlotsSets
  <2>3. Wanted(AskedFor("agent"))' = Wanted(AskedFor("agent"))
    BY <2>1 DEF Wanted
  <2> QED
    BY <2>1, <2>2, <2>3, AgentKept
<1> QED
  BY <1>4, <1>5, <1>6, <1>7, <1>8, <1>9, <1>10, <1>11, <1>12, <1>13, <1>14 DEF Next, MasterStep

(* The first batch asks for one agent at most.                             *)
LEMMA InitAgent == Init => AgentInv
<1> SUFFICES ASSUME Init PROVE AgentInv
  OBVIOUS
<1>1. /\ Request("worker", FALSE, FALSE) \notin AskedFor("agent")
      /\ Request("helper", FALSE, FALSE) \notin AskedFor("agent")
      /\ Request("helper", FALSE, TRUE) \notin AskedFor("agent")
  BY DEF Request, AskedFor
<1>2. Cardinality(Wanted(AskedFor("agent"))) <= 1
  <2> DEFINE mine == PrivilegedAgent /\ Request("agent", FALSE, FALSE) \in AskedFor("agent")
  <2>1. Cardinality(Wanted(AskedFor("agent"))) =
          (IF FALSE THEN ccf ELSE 0) + (IF FALSE THEN NKeep ELSE 0)
          + (IF FALSE THEN NReload ELSE 0) + (IF mine THEN 1 ELSE 0)
    BY <1>1, FirstBatch
  <2> HIDE DEF mine
  <2> QED
    BY <2>1
<1>3. SlotsOf("agent") = {} /\ Cardinality(SlotsOf("agent")) = 0
  BY FS_EmptySet DEF Init, SlotsOf, Held, FreeSlot
<1>4. Cardinality(Wanted(AskedFor("agent"))) \in Nat
  BY InitType, FiniteWanted
<1>5. Places("agent") <= 1
  BY <1>2, <1>3, <1>4 DEF Places
<1>6. ~agentExited
  BY DEF Init
<1> QED
  BY <1>3, <1>5, <1>6 DEF AgentInv

(* A union has at most as many elements as its parts.                      *)
LEMMA UnionAtMost ==
  ASSUME NEW S, NEW T, IsFiniteSet(S), IsFiniteSet(T)
  PROVE  /\ IsFiniteSet(S \union T) /\ Cardinality(S \union T) \in Nat
         /\ Cardinality(S \union T) <= Cardinality(S) + Cardinality(T)
<1>1. /\ IsFiniteSet(S \union T)
      /\ Cardinality(S \union T) =
           Cardinality(S) + Cardinality(T) - Cardinality(S \intersect T)
  BY FS_Union, Zenon
<1>2. /\ Cardinality(S \intersect T) \in Nat /\ Cardinality(S) \in Nat /\ Cardinality(T) \in Nat
      /\ Cardinality(S \union T) \in Nat
  BY <1>1, FS_Subset, FS_CardinalityType
<1> QED
  BY <1>1, <1>2

(* If everybody who may be in the table or is asked for fits in it, the    *)
(* next one to be spawned finds a slot.                                    *)
LEMMA SlotLeft ==
  ASSUME TypeOK, OneInv, AgentInv, NEW W \in Nat, WorkersFit(W),
         2 * W * MaxGen + W + NReload + NKeep + 1 <= MaxProcesses
  PROVE  HasRoom
<1> SUFFICES ASSUME pc = "spawn", todo # <<>> PROVE \E s \in Slots : FirstFreeSlot(s)
  BY DEF HasRoom
<1> DEFINE H == {s \in Slots : Held(s)}
           w == SlotsOf("worker")
           a == SlotsOf("agent")
           h == Helpers(TRUE)
           k == Helpers(FALSE)
<1>1. H \subseteq w \union a \union h \union k
  <2>1. \A s \in Slots : processes[s].name \in Names /\ processes[s].reload \in BOOLEAN
    BY DEF TypeOK, TableType, Slot
  <2> QED
    BY <2>1 DEF Names, SlotsOf, Helpers
<1>2. /\ IsFiniteSet(w) /\ IsFiniteSet(a) /\ IsFiniteSet(h) /\ IsFiniteSet(k)
      /\ Cardinality(w) \in Nat /\ Cardinality(a) \in Nat
      /\ Cardinality(h) \in Nat /\ Cardinality(k) \in Nat
  BY SlotsFinite, CountedSets
<1>3. /\ Cardinality(w) + Cardinality(Wanted(AskedFor("worker"))) <= 2 * W * MaxGen + W
      /\ Cardinality(a) + Cardinality(Wanted(AskedFor("agent"))) <= 1
      /\ Cardinality(h) + Cardinality(DueTo(TRUE)) <= NReload
      /\ Cardinality(k) + Cardinality(DueTo(FALSE)) <= NKeep
  <2>1. Older(W) <= 2 * W * MaxGen /\ Older(W) \in Nat
    <3>1. gen \in Nat /\ MaxGen \in Nat /\ gen <= MaxGen
      BY MasterConstants DEF WorkersFit, TypeOK, CountType
    <3>2. 2 * W * gen <= 2 * W * MaxGen
      <4>1. PICK d \in Nat : MaxGen = gen + d
        <5>1. MaxGen - gen \in Nat /\ MaxGen = gen + (MaxGen - gen)
          BY <3>1
        <5> QED
          BY <5>1
      <4>2. 2 * W * MaxGen = 2 * W * gen + 2 * W * d /\ 2 * W * d \in Nat /\ 2 * W * gen \in Nat
        BY <3>1, <4>1
      <4> QED
        BY <4>2
    <3> QED
      BY <3>1, <3>2 DEF Older
  <2>2. Places("worker") <= Older(W) + ccf /\ ccf <= W /\ ccf \in Nat /\ Places("worker") \in Nat
    BY PlacesFinite DEF WorkersFit, TypeOK, CountType
  <2>3. 2 * W * MaxGen \in Nat
    BY MasterConstants
  <2>4. Places("worker") <= 2 * W * MaxGen + W
    BY <2>1, <2>2, <2>3
  <2> QED
    BY <2>4 DEF Places, AgentInv, OneInv, Directives
<1>4. \/ Cardinality(Wanted(AskedFor("worker"))) >= 1
      \/ Cardinality(Wanted(AskedFor("agent"))) >= 1
      \/ Cardinality(DueTo(TRUE)) >= 1 \/ Cardinality(DueTo(FALSE)) >= 1
  <2>1. 1 \in DOMAIN todo /\ todo[1] \in Requests
    BY LenProperties, EmptySeq, ElementOfSeq DEF TypeOK
  <2>2. \/ 1 \in Wanted(AskedFor("worker")) \/ 1 \in Wanted(AskedFor("agent"))
        \/ 1 \in DueTo(TRUE) \/ 1 \in DueTo(FALSE)
    BY <2>1 DEF Wanted, AskedFor, DueTo, Requests, Names
  <2>3. ASSUME NEW S, IsFiniteSet(S), 1 \in S PROVE Cardinality(S) >= 1
    <3>1. Cardinality(S) \in Nat /\ Cardinality(S) # 0
      BY <2>3, FS_EmptySet, FS_CardinalityType
    <3> QED
      BY <3>1
  <2>4. /\ IsFiniteSet(Wanted(AskedFor("worker"))) /\ IsFiniteSet(Wanted(AskedFor("agent")))
        /\ IsFiniteSet(DueTo(TRUE)) /\ IsFiniteSet(DueTo(FALSE))
    BY FiniteWanted, CountedSets
  <2> QED
    BY <2>2, <2>3, <2>4
<1>5. /\ Cardinality(Wanted(AskedFor("worker"))) \in Nat
      /\ Cardinality(Wanted(AskedFor("agent"))) \in Nat
      /\ Cardinality(DueTo(TRUE)) \in Nat /\ Cardinality(DueTo(FALSE)) \in Nat
  BY FiniteWanted, CountedSets
<1> HIDE DEF H, w, a, h, k
<1>6. Cardinality(w) + Cardinality(a) + Cardinality(h) + Cardinality(k) < MaxProcesses
  <2>1. 2 * W * MaxGen \in Nat /\ NReload \in Nat /\ NKeep \in Nat /\ MaxProcesses \in Nat
    BY MasterConstants
  <2>2. ASSUME NEW w1 \in Nat, NEW w2 \in Nat, NEW a1 \in Nat, NEW a2 \in Nat,
               NEW h1 \in Nat, NEW h2 \in Nat, NEW k1 \in Nat, NEW k2 \in Nat,
               NEW m \in Nat, m + W + NReload + NKeep + 1 <= MaxProcesses,
               w1 + w2 <= m + W, a1 + a2 <= 1, h1 + h2 <= NReload, k1 + k2 <= NKeep,
               w2 >= 1 \/ a2 >= 1 \/ h2 >= 1 \/ k2 >= 1
        PROVE  w1 + a1 + h1 + k1 < MaxProcesses
    BY <2>1, <2>2
  <2> QED
    BY <1>2, <1>3, <1>4, <1>5, <2>1, <2>2
<1>7. IsFiniteSet(H) /\ Cardinality(H) < MaxProcesses
  <2>1. /\ IsFiniteSet(w \union a)
        /\ Cardinality(w \union a) <= Cardinality(w) + Cardinality(a)
        /\ Cardinality(w \union a) \in Nat
    BY <1>2, UnionAtMost
  <2>2. /\ IsFiniteSet(w \union a \union h)
        /\ Cardinality(w \union a \union h) <= Cardinality(w \union a) + Cardinality(h)
        /\ Cardinality(w \union a \union h) \in Nat
    BY <1>2, <2>1, UnionAtMost
  <2>3. /\ IsFiniteSet(w \union a \union h \union k)
        /\ Cardinality(w \union a \union h \union k)
             <= Cardinality(w \union a \union h) + Cardinality(k)
        /\ Cardinality(w \union a \union h \union k) \in Nat
    BY <1>2, <2>2, UnionAtMost
  <2>4. /\ IsFiniteSet(H) /\ Cardinality(H) \in Nat
        /\ Cardinality(H) <= Cardinality(w \union a \union h \union k)
    BY <1>1, <2>3, FS_Subset, FS_CardinalityType
  <2> QED
    BY <1>2, <1>6, <2>1, <2>2, <2>3, <2>4, MasterConstants
<1>8. Slots \ H # {} /\ Slots \ H \subseteq Nat
  <2>1. Cardinality(Slots) = MaxProcesses /\ IsFiniteSet(Slots) /\ Slots \subseteq Nat
    BY MasterConstants, FS_Interval DEF Slots
  <2>2. ASSUME Slots \subseteq H PROVE FALSE
    <3>1. Cardinality(Slots) <= Cardinality(H) /\ Cardinality(H) \in Nat
      BY <1>7, <2>2, FS_Subset, FS_CardinalityType
    <3> QED
      BY <1>7, <2>1, <3>1, MasterConstants
  <2> QED
    BY <2>1, <2>2
<1>9. PICK s \in Slots \ H : \A t \in Slots \ H : s <= t
  BY <1>8, Least
<1>10. ~Held(s) /\ \A t \in Slots : t < s => Held(t)
  BY <1>8, <1>9 DEF H
<1>11. s <= last + 1
  <2>1. SUFFICES ASSUME last + 1 < s PROVE FALSE
    BY <1>9 DEF Slots, TypeOK, TableType
  <2>2. last + 1 \in Slots /\ ~Held(last + 1)
    BY <1>9, <2>1, MasterConstants DEF Slots, Held, TypeOK, TableType
  <2> QED
    BY <1>10, <2>1, <2>2
<1> QED
  BY <1>9, <1>10, <1>11 DEF FirstFreeSlot

(* A table with a slot for every directive, the agent and, of every        *)
(* configuration, twice the largest count of workers is never full when a  *)
(* process is to be spawned: whatever dies, hangs or is refused, and       *)
(* however the changes of the count fall between the reloads.              *)
THEOREM RoomHolds ==
  ASSUME NEW W \in Nat, CountsWithin(W),
         2 * W * MaxGen + W + NReload + NKeep + 1 <= MaxProcesses
  PROVE  Spec => []HasRoom
<1>1. Spec => []Published
  BY TypeCorrect, InitPublished, PublishedNext, PTL DEF Spec
<1>2. Spec => []OneInv
  BY TypeCorrect, InitOne, OneNext, PTL DEF Spec
<1>3. Spec => []AgentInv
  BY <1>2, TypeCorrect, InitAgent, AgentNext, PTL DEF Spec
<1>4. TypeOK /\ Published /\ OneInv /\ WorkersFit(W) /\ [Next]_vars => WorkersFit(W)'
  BY FitNext
<1>5. Init => WorkersFit(W)
  BY InitFit
<1>6. Spec => []WorkersFit(W)
  BY <1>1, <1>2, <1>4, <1>5, TypeCorrect, PTL DEF Spec
<1>7. TypeOK /\ OneInv /\ AgentInv /\ WorkersFit(W) => HasRoom
  BY SlotLeft
<1> QED
  BY <1>2, <1>3, <1>6, <1>7, TypeCorrect, PTL

(* In such a table the number of workers and the last exit of the master   *)
(* need nothing else than that no fork fails and no child dies for good.   *)
THEOREM LargeTableServes ==
  ASSUME MaxForkFail = 0, MaxPid > 2 * MaxProcesses, FatalExit = FALSE,
         NEW W \in Nat, CountsWithin(W),
         2 * W * MaxGen + W + NReload + NKeep + 1 <= MaxProcesses
  PROVE  Spec => []EnoughWorkers /\ []OnlyShrunkOutlive
<1>1. Spec => []HasRoom
  BY RoomHolds
<1>2. Spec /\ []HasRoom => []EnoughWorkers
  BY EnoughWorkersHolds
<1>3. Spec /\ []HasRoom => []OnlyShrunkOutlive
  BY OnlyShrunkOutliveHolds
<1> QED
  BY <1>1, <1>2, <1>3, PTL

=============================================================================
