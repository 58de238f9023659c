------------------------------- MODULE Master -------------------------------
(***************************************************************************)
(* The OpenNJet master process: the process table njt_processes[], the     *)
(* signals it waits for in sigsuspend(), the reaping and respawning of     *)
(* children, reload, stop, the privileged agent, the copilot ("helper")    *)
(* processes and the dynamic worker count kept in the KV store.            *)
(*                                                                         *)
(* njt_master_process_cycle() runs with its signals blocked, except while  *)
(* it sleeps in sigsuspend().  A signal that arrives meanwhile stays in    *)
(* `pend`; Wake delivers all of them, runs the handlers (which set the     *)
(* njt_reap, njt_quit, ... flags, here the set `flags`) and the body of    *)
(* the loop then runs label by label, `pc`, with the children running      *)
(* concurrently.                                                           *)
(*                                                                         *)
(* Abstractions.  A pid is reused only when neither the kernel nor the     *)
(* master's tables hold it.  A slot at or above njt_last_process is never  *)
(* read before njt_spawn_process() overwrites it: it is kept as FreeSlot.  *)
(* A quit command written to a child's channel takes effect at once: the   *)
(* child drains ("quit") and exits later.  Binary upgrade (USR2, WINCH),   *)
(* log reopening and the cache processes are left out.                     *)
(***************************************************************************)
EXTENDS Integers, Sequences, FiniteSets

CONSTANTS
  MaxProcesses,    \* NJT_MAX_PROCESSES
  MaxPid,          \* the kernel's pids are 1..MaxPid
  MaxDynWorker,    \* MAX_DYN_WORKER_C
  MaxSaved,        \* the pids that make a text longer than 4000 bytes, i.e. all
                   \* that go into the list of pids; they are of one width
  ConfCounts,      \* the values worker_processes takes in configuration files
  KvCounts,        \* the values written to kv_http___master_worker_count
  NReload, NKeep,  \* helper directives: reloadable ones and ones to be kept
  PrivilegedAgent, \* is privileged_agent on?
  CrashNames,      \* the kinds of process that may die unasked
  FatalExit,       \* may they die with exit code 2?
  ChannelMayFail,  \* may a write to a helper's channel fail?
  KillDelay,       \* the `delay > 1000` of the terminate branch, in 50 ms units
  MaxGen,          \* bound: reloads
  MaxRefused,      \* bound: reloads whose configuration njt_init_cycle() refuses
  MaxCrash, MaxSet, MaxForkFail, \* bounds: crashes, count changes, failed forks
  MayStop          \* the stop signals that are sent, a subset of StopSignals

StopSignals == {"QUIT", "TERM"}
Names == {"worker", "agent", "helper"}

ASSUME MasterConstants ==
  /\ MaxProcesses \in Nat \ {0} /\ MaxPid \in Nat \ {0}
  /\ MaxDynWorker \in Nat \ {0} /\ MaxSaved \in Nat \ {0}
  /\ ConfCounts \subseteq Nat \ {0} /\ ConfCounts # {}
  /\ KvCounts \subseteq Nat
  /\ NReload \in Nat /\ NKeep \in Nat
  /\ PrivilegedAgent \in BOOLEAN /\ FatalExit \in BOOLEAN
  /\ ChannelMayFail \in BOOLEAN /\ MaxRefused \in Nat
  /\ CrashNames \subseteq Names
  /\ KillDelay \in Nat \ {0} /\ MaxGen \in Nat
  /\ MaxCrash \in Nat /\ MaxSet \in Nat /\ MaxForkFail \in Nat
  /\ MayStop \subseteq StopSignals

VARIABLES
  processes,    \* njt_processes[]
  last,         \* njt_last_process
  shrink,       \* the pids of njt_shrink_processes[0 .. njt_shrink_count - 1]
  shrinkFinish, \* njt_shrink_finish_count
  os,           \* the kernel's view of every pid
  gen,          \* the configuration the master runs (njt_current_seq)
  ccf,          \* ccf->worker_processes
  kv,           \* kv_http___master_worker_count; 0 when absent or not a number
  pidsKv,       \* kv_http___sysguard_pids
  pend,         \* signals pending for the master
  flags,        \* the njt_xxx flags set by the signal handler
  pc, idx,      \* where the master is; the slot njt_reap_children() is at
  todo, ret,    \* processes still to spawn, and where to go on afterwards
  live,         \* the `live` of the master loop
  reapHelper,   \* njt_reap_helper
  agentExited,  \* njt_privileged_agent_exited
  delay, sigio, \* the escalation of the terminate branch
  budget        \* what is left of the bounds

table == <<processes, last>>
shrinkVars == <<shrink, shrinkFinish>>
stopVars == <<delay, sigio>>
vars == <<processes, last, shrink, shrinkFinish, os, gen, ccf, kv, pidsKv, pend,
          flags, pc, idx, todo, ret, live, reapHelper, agentExited, delay,
          sigio, budget>>

-----------------------------------------------------------------------------
(* Processes and slots.                                                    *)

NoPid == 0
NoData == -1         \* the NULL of njt_processes[].data
Pids == 1..MaxPid
Slots == 1..MaxProcesses

FreeSlot == [pid |-> NoPid, name |-> "worker", respawn |-> FALSE,
             just |-> FALSE, exiting |-> FALSE, exited |-> FALSE,
             reload |-> FALSE, data |-> NoData]
NoProcess == [st |-> "none", name |-> "worker", gen |-> 0]

Held(s) == s <= last /\ processes[s].pid # NoPid
InTable(p) == \E s \in Slots : Held(s) /\ processes[s].pid = p
Dead == {p \in Pids : os[p].st \in {"dead", "fatal"}}
Stopping == "TERM" \in flags \/ "QUIT" \in flags
NeverPending == FALSE       \* mutant: a shrink may start during another
ShrinkPending == Cardinality(shrink) # shrinkFinish
WorkerSlots == {s \in Slots : Held(s) /\ processes[s].name = "worker"}
WorkerPids == {processes[s].pid : s \in WorkerSlots}

(* What njt_save_pids_to_kv() saves: it goes through the table until the   *)
(* text is longer than 4000 bytes.                                         *)
SavedPids ==
  {processes[s].pid :
     s \in {u \in WorkerSlots : Cardinality({t \in WorkerSlots : t < u}) < MaxSaved}}
KeptHelper(s) == processes[s].name = "helper" /\ ~processes[s].reload
ReloadableHelper(s) == processes[s].name = "helper" /\ processes[s].reload

(* Requests to njt_spawn_process().                                        *)
Request(name, just, reload) == [name |-> name, just |-> just, reload |-> reload]
(* Mutant: the first workers are taken for those of a reload.              *)
AlwaysJust(n, just) == [i \in 1..n |-> Request("worker", TRUE, FALSE)]
WorkerRequests(n, just) == [i \in 1..n |-> Request("worker", just, FALSE)]
HelperRequests(n, reload) == [i \in 1..n |-> Request("helper", FALSE, reload)]
AgentRequests ==
  [i \in 1..(IF PrivilegedAgent THEN 1 ELSE 0) |-> Request("agent", FALSE, FALSE)]

(* The kernel hands out an unused pid: which one does not matter.          *)
UnusedPid(p) == os[p].st = "none" /\ ~InTable(p) /\ p \notin shrink
NewPid(p) == UnusedPid(p) /\ \A q \in Pids : UnusedPid(q) => p <= q

(* The loop of njt_spawn_process() over njt_processes[].                   *)
FirstFreeSlot(s) ==
  /\ s <= last + 1
  /\ ~Held(s)
  /\ \A t \in Slots : t < s => Held(t)

ForkFails ==
  \/ budget.fork > 0 /\ budget' = [budget EXCEPT !.fork = @ - 1]
  \/ (\A p \in Pids : ~NewPid(p)) /\ UNCHANGED budget

-----------------------------------------------------------------------------
Init ==
  /\ processes = [s \in Slots |-> FreeSlot]
  /\ last = 0
  /\ shrink = {} /\ shrinkFinish = 0
  /\ os = [p \in Pids |-> NoProcess]
  /\ gen = 0
  /\ ccf \in ConfCounts
  /\ kv \in KvCounts \union {0}
  /\ pidsKv = {}
  /\ pend = {} /\ flags = {}
  /\ pc = "spawn" /\ idx = 1
  /\ todo = WorkerRequests(ccf, FALSE) \o HelperRequests(NKeep, FALSE)
              \o HelperRequests(NReload, TRUE) \o AgentRequests
  /\ ret = "boot"
  /\ live = TRUE
  /\ reapHelper = FALSE /\ agentExited = FALSE
  /\ delay = 0 /\ sigio = 0
  /\ budget = [crash |-> MaxCrash, set |-> MaxSet, fork |-> MaxForkFail,
               refuse |-> MaxRefused]

-----------------------------------------------------------------------------
(* njt_spawn_process() for the next request, with respawn < 0.             *)
Spawned(p, r) ==
  [pid |-> p, name |-> r.name, respawn |-> r.name # "agent", just |-> r.just,
   exiting |-> FALSE, exited |-> FALSE, reload |-> r.reload,
   data |-> IF r.name = "helper" THEN gen ELSE NoData]

(* Mutant: njt_last_process follows every spawn.                           *)
SpawnIntoLast(s, p, r) ==
  /\ processes' = [processes EXCEPT ![s] = Spawned(p, r)]
  /\ last' = s
  /\ os' = [os EXCEPT ![p] = [st |-> "run", name |-> r.name, gen |-> gen]]

SpawnInto(s, p, r) ==
  /\ processes' = [processes EXCEPT ![s] = Spawned(p, r)]
  /\ last' = IF s = last + 1 THEN s ELSE last
  /\ os' = [os EXCEPT ![p] = [st |-> "run", name |-> r.name, gen |-> gen]]

Spawn ==
  /\ pc = "spawn" /\ todo # <<>>
  /\ \/ /\ \E s \in Slots, p \in Pids :
             FirstFreeSlot(s) /\ NewPid(p) /\ SpawnInto(s, p, Head(todo))
        /\ UNCHANGED budget
     \/ ForkFails /\ UNCHANGED <<table, os>>
     \/ /\ \A s \in Slots : ~FirstFreeSlot(s)   \* the table is full
        /\ UNCHANGED <<table, os, budget>>
  /\ todo' = Tail(todo)
  /\ UNCHANGED <<shrinkVars, gen, ccf, kv, pidsKv, pend, flags, pc, idx, ret,
                 live, reapHelper, agentExited, stopVars>>

(* The end of a batch; most batches are followed by njt_save_pids_to_kv(). *)
EndBatch ==
  /\ pc = "spawn" /\ todo = <<>>
  /\ pc' = ret
  /\ UNCHANGED <<table, shrinkVars, os, gen, ccf, kv, pend, flags, idx, todo,
                 ret, live, reapHelper, agentExited, stopVars, budget>>

(* Mutant: the pids are not saved after a change of the count.             *)
SpawnDoneUnsaved == EndBatch /\ UNCHANGED pidsKv

SpawnDone ==
  /\ EndBatch
  /\ pidsKv' = IF ret \in {"decide", "start", "agent"} THEN SavedPids ELSE pidsKv

-----------------------------------------------------------------------------
(* njt_update_worker_processes(): the batch of spawns or the shrink that   *)
(* brings the number of workers from ccf to c; `skip` when nothing changes.*)

(* The j worker slots nearest the end of the table.                        *)
VictimsOneMore(j) ==   \* mutant: the loop ends one slot late
  {s \in WorkerSlots : Cardinality({t \in WorkerSlots : t > s}) <= j}
Victims(j) ==
  {s \in WorkerSlots : Cardinality({t \in WorkerSlots : t > s}) < j}

(* The last slot in use once the slots of V are freed.                     *)
LastHeld(V, l) ==
  IF \A s \in Slots : Held(s) => s \in V THEN l = last
  ELSE /\ l \in Slots /\ Held(l) /\ l \notin V
       /\ \A s \in Slots : (Held(s) /\ s \notin V) => s <= l

Asked(st) == IF st = "run" THEN "quit" ELSE st

Remove(V) ==
  /\ shrink' = {processes[s].pid : s \in V}
  /\ processes' = [s \in Slots |-> IF s \in V THEN FreeSlot ELSE processes[s]]
  /\ LastHeld(V, last')
  /\ os' = [p \in Pids |-> IF p \in shrink' THEN [os[p] EXCEPT !.st = Asked(@)]
                                            ELSE os[p]]

ShrinkCounted(V) == Remove(V) /\ UNCHANGED shrinkFinish   \* mutant: no reset
Shrink(V) == Remove(V) /\ shrinkFinish' = 0

UpdateWorkers(c, next, skip) ==
  /\ ret' = next
  /\ \/ /\ ShrinkPending \/ c = ccf
        /\ pc' = skip /\ todo' = <<>>
        /\ UNCHANGED <<table, shrinkVars, os, ccf>>
     \/ /\ ~ShrinkPending /\ c > ccf
        /\ pc' = "spawn" /\ todo' = WorkerRequests(c - ccf, FALSE)
        /\ ccf' = c
        /\ UNCHANGED <<table, shrinkVars, os>>
     \/ /\ ~ShrinkPending /\ c < ccf
        /\ pc' = "spawn" /\ todo' = <<>>
        /\ ccf' = c
        /\ \E l \in 0..MaxProcesses : last' = l /\ Shrink(Victims(ccf - c))

(* njt_check_and_update_worker_count().                                    *)
(* Mutant: zero, or a text that is no number, is a count like any other.   *)
CheckCountAny(next, skip) ==
  /\ kv < MaxDynWorker
  /\ UpdateWorkers(kv, next, skip)
  /\ UNCHANGED kv

CheckCount(next, skip) ==
  \/ /\ kv > 0 /\ kv < MaxDynWorker
     /\ UpdateWorkers(kv, next, skip)
     /\ UNCHANGED kv
  \/ /\ ~(kv > 0 /\ kv < MaxDynWorker)
     /\ kv' = ccf
     /\ ret' = next /\ pc' = skip /\ todo' = <<>>
     /\ UNCHANGED <<table, shrinkVars, os, ccf>>

(* The end of the start-up: the count left in the KV store by an earlier   *)
(* run is applied.                                                         *)
Boot ==
  /\ pc = "boot"
  /\ CheckCount("agent", "spawn")
  /\ UNCHANGED <<gen, pidsKv, pend, flags, idx, live, reapHelper, agentExited,
                 stopVars, budget>>

-----------------------------------------------------------------------------
(* The top of the loop: setitimer() and sigsuspend().                      *)
SameDelay(d) == d       \* mutant: the delay is never doubled
NextDelay(d) == IF d > KillDelay THEN d ELSE 2 * d

Top ==
  /\ pc = "top"
  /\ IF delay > 0 /\ "ALRM" \in flags
       THEN /\ sigio' = 0
            /\ delay' = NextDelay(delay)
            /\ flags' = flags \ {"ALRM"}
       ELSE UNCHANGED <<stopVars, flags>>
  /\ pc' = "wait"
  /\ UNCHANGED <<table, shrinkVars, os, gen, ccf, kv, pidsKv, pend, idx, todo,
                 ret, live, reapHelper, agentExited, budget>>

(* njt_process_get_status(), run by the SIGCHLD handler: waitpid() until   *)
(* no child is left to wait for; D: the children it finds.                 *)
GetStatusOf(D) ==
  /\ processes' = [s \in Slots |->
       IF Held(s) /\ processes[s].pid \in D
         THEN [processes[s] EXCEPT !.exited = TRUE,
                                   !.respawn = @ /\ os[processes[s].pid].st # "fatal"]
         ELSE processes[s]]
  /\ shrinkFinish' =
       shrinkFinish + Cardinality({p \in D : p \in shrink /\ ~InTable(p)})
  /\ agentExited' =
       (agentExited \/ \E s \in Slots : /\ Held(s)
                                        /\ processes[s].name = "agent"
                                        /\ processes[s].pid \in D
                                        /\ os[processes[s].pid].st = "dead")
  /\ os' = [p \in Pids |-> IF p \in D THEN NoProcess ELSE os[p]]

GetStatusOne ==       \* mutant: waitpid() is called once per signal
  \/ Dead = {} /\ GetStatusOf({})
  \/ \E p \in Dead : GetStatusOf({p})
GetStatus == GetStatusOf(Dead)

(* sigsuspend() returns: every pending signal has been handled.            *)
Wake ==
  /\ pc = "wait" /\ pend # {}
  /\ pend' = {}
  /\ flags' = (flags \union pend) \ {"CHLD"}
  /\ IF "CHLD" \in pend
       THEN GetStatus
       ELSE UNCHANGED <<processes, shrinkFinish, agentExited, os>>
  /\ IF "CHLD" \in flags \union pend
       THEN pc' = "reap" /\ idx' = 1 /\ live' = FALSE
       ELSE pc' = "decide" /\ UNCHANGED <<idx, live>>
  /\ UNCHANGED <<last, shrink, gen, ccf, kv, pidsKv, todo, ret, reapHelper,
                 stopVars, budget>>

-----------------------------------------------------------------------------
(* njt_reap_children(), one slot at a time.                                *)
Reaping == pc = "reap" /\ idx <= last
MustRespawn(e) == e.exited /\ e.respawn /\ ~e.exiting /\ ~Stopping

NextSlot ==
  /\ idx' = idx + 1
  /\ UNCHANGED <<shrinkVars, gen, ccf, kv, pidsKv, pend, flags, pc, todo, ret,
                 reapHelper, agentExited, stopVars>>

ReapEmpty ==
  /\ Reaping /\ processes[idx].pid = NoPid
  /\ NextSlot
  /\ UNCHANGED <<table, os, live, budget>>

ReapLiveUnlessExiting ==       \* mutant: a child told to quit is not live
  /\ Reaping /\ processes[idx].pid # NoPid /\ ~processes[idx].exited
  /\ live' = (live \/ ~processes[idx].exiting)
  /\ NextSlot
  /\ UNCHANGED <<table, os, budget>>

ReapLive ==
  /\ Reaping /\ processes[idx].pid # NoPid /\ ~processes[idx].exited
  /\ live' = TRUE
  /\ NextSlot
  /\ UNCHANGED <<table, os, budget>>

(* njt_spawn_process() into the same slot.  A helper is started from its   *)
(* `data`: the preprocess hook dereferences it, so NULL kills the master   *)
(* and a directive of a destroyed configuration may (freed memory).        *)
ReapRespawn ==
  /\ Reaping /\ processes[idx].pid # NoPid /\ MustRespawn(processes[idx])
  /\ ~(processes[idx].name = "helper" /\ processes[idx].data = NoData)
  /\ \/ /\ \E p \in Pids :
             /\ NewPid(p)
             /\ processes' = [processes EXCEPT ![idx].pid = p, ![idx].exited = FALSE]
             /\ os' = [os EXCEPT ![p] = [st |-> "run", name |-> processes[idx].name,
                                         gen |-> gen]]
        /\ live' = TRUE
        /\ UNCHANGED budget
     \/ ForkFails /\ UNCHANGED <<processes, os, live>>
  /\ NextSlot
  /\ UNCHANGED last

ReapCrash ==
  /\ Reaping /\ processes[idx].pid # NoPid /\ MustRespawn(processes[idx])
  /\ processes[idx].name = "helper" /\ processes[idx].data # gen
  /\ pc' = "crashed"
  /\ UNCHANGED <<table, shrinkVars, os, gen, ccf, kv, pidsKv, pend, flags, idx,
                 todo, ret, live, reapHelper, agentExited, stopVars, budget>>

ReapRelease ==
  /\ Reaping /\ processes[idx].pid # NoPid
  /\ processes[idx].exited /\ ~MustRespawn(processes[idx])
  /\ processes' = [processes EXCEPT ![idx] = FreeSlot]
  /\ last' = IF idx = last THEN last - 1 ELSE last
  /\ NextSlot
  /\ UNCHANGED <<os, live, budget>>

(* njt_restart_helper_processes() when a reloadable helper is still there: *)
(* the kept helpers met before it have lost their directive.               *)
RestartLater ==
  /\ \E s \in Slots : Held(s) /\ ReloadableHelper(s)
  /\ processes' = [s \in Slots |->
       IF /\ Held(s) /\ KeptHelper(s)
          /\ \A t \in Slots : (Held(t) /\ ReloadableHelper(t)) => s < t
         THEN [processes[s] EXCEPT !.data = NoData]
         ELSE processes[s]]
  /\ live' = TRUE
  /\ todo' = <<>>
  /\ UNCHANGED reapHelper

(* ... and when none is: kept helpers get the new directive, the others    *)
(* are started.                                                            *)
StartHelpers ==
  /\ processes' = [s \in Slots |->
       IF Held(s) /\ KeptHelper(s) THEN [processes[s] EXCEPT !.data = gen]
                                   ELSE processes[s]]
  /\ live' = (live \/ NReload + NKeep > 0)
  /\ todo' = HelperRequests(NReload, TRUE)
  /\ reapHelper' = FALSE

RestartAnyway == StartHelpers       \* mutant: the old ones are not waited for
RestartNow ==
  /\ \A s \in Slots : ~(Held(s) /\ ReloadableHelper(s))
  /\ StartHelpers

ReapEnd ==
  /\ pc = "reap" /\ idx > last
  /\ IF reapHelper THEN RestartLater \/ RestartNow
     ELSE todo' = <<>> /\ UNCHANGED <<processes, live, reapHelper>>
  /\ pc' = "spawn" /\ ret' = "decide"
  /\ UNCHANGED <<last, shrinkVars, os, gen, ccf, kv, pidsKv, pend, flags, idx,
                 agentExited, stopVars, budget>>

-----------------------------------------------------------------------------
(* Telling children to go: njt_signal_worker_processes() and               *)
(* njt_cmd_worker_processes() skip just spawned children once, mark the    *)
(* others `exiting`, and find out about pids that are gone (ESRCH).        *)
Gone(s) == os[processes[s].pid].st = "none"

(* T: the slots addressed; st: what becomes of a process in each state.    *)
Signalled(T, st) ==
  os' = [p \in Pids |->
       IF \E s \in T : processes[s].pid = p THEN [os[p] EXCEPT !.st = st[@]]
                                            ELSE os[p]]
MarkedExited(s) == [processes[s] EXCEPT !.exited = TRUE]   \* mutant: errno is not looked at
Marked(s) == [processes[s] EXCEPT !.exiting = ~Gone(s), !.exited = @ \/ Gone(s)]

TellStillJust(T, st) ==       \* mutant: just_spawn is not cleared
  /\ processes' = [s \in Slots |-> IF s \in T THEN Marked(s) ELSE processes[s]]
  /\ Signalled(T, st)

Tell(T, st) ==
  /\ processes' = [s \in Slots |->
       IF Held(s) /\ processes[s].just THEN [processes[s] EXCEPT !.just = FALSE]
       ELSE IF s \in T THEN Marked(s) ELSE processes[s]]
  /\ Signalled(T, st)

(* njt_reap = 1 when kill() finds no process.                              *)
ReapIfGone(T) == IF \E s \in T : Gone(s) THEN {"CHLD"} ELSE {}

States == {"none", "run", "quit", "dead", "fatal"}
Quitting == [st \in States |-> Asked(st)]
Killed == [st \in States |-> IF st \in {"run", "quit"} THEN "dead" ELSE st]

SignalWorkers(sig) ==
  LET T == {s \in Slots : /\ Held(s) /\ ~processes[s].just
                          /\ sig = "QUIT" => ~processes[s].exiting}
      killed == sig = "KILL" /\ \E s \in T : os[processes[s].pid].st \in {"run", "quit"}
  IN /\ Tell(T, IF sig = "KILL" THEN Killed ELSE Quitting)
     /\ flags' = flags \union ReapIfGone(T)
     /\ pend' = IF killed THEN pend \union {"CHLD"} ELSE pend

Exit ==
  /\ pc = "decide" /\ Stopping /\ ~live
  /\ pc' = "exited"
  /\ UNCHANGED <<table, shrinkVars, os, gen, ccf, kv, pidsKv, pend, flags, idx,
                 todo, ret, live, reapHelper, agentExited, stopVars, budget>>

Terminate ==
  /\ pc = "decide" /\ "TERM" \in flags /\ live
  /\ delay' = IF delay = 0 THEN 1 ELSE delay
  /\ IF sigio > 0
       THEN sigio' = sigio - 1 /\ UNCHANGED <<processes, os, flags, pend>>
       ELSE /\ sigio' = ccf + 2
            /\ SignalWorkers(IF delay' > KillDelay THEN "KILL" ELSE "TERM")
  /\ pc' = "top"
  /\ UNCHANGED <<last, shrinkVars, gen, ccf, kv, pidsKv, idx, todo, ret, live,
                 reapHelper, agentExited, budget>>

Quit ==
  /\ pc = "decide" /\ "QUIT" \in flags /\ "TERM" \notin flags /\ live
  /\ SignalWorkers("QUIT")
  /\ pc' = "top"
  /\ UNCHANGED <<last, shrinkVars, gen, ccf, kv, pidsKv, idx, todo, ret, live,
                 reapHelper, agentExited, stopVars, budget>>

(* Reload: a new cycle, its worker count, its workers, and only then are   *)
(* the processes of the old configuration told to quit.                    *)
Reconfigure ==
  /\ pc = "decide" /\ ~Stopping /\ "HUP" \in flags
  /\ flags' = flags \ {"HUP"}
  /\ \/ /\ budget.refuse > 0
        /\ budget' = [budget EXCEPT !.refuse = @ - 1]
        /\ pc' = "top"
        /\ UNCHANGED <<gen, ccf>>
     \/ /\ gen < MaxGen
        /\ gen' = gen + 1
        /\ ccf' \in ConfCounts
        /\ pc' = "count"
        /\ UNCHANGED budget
  /\ UNCHANGED <<table, shrinkVars, os, kv, pidsKv, pend, idx, todo, ret, live,
                 reapHelper, agentExited, stopVars>>

Recount ==
  /\ pc = "count"
  /\ CheckCount("start", "start")
  /\ UNCHANGED <<gen, pidsKv, pend, flags, idx, live, reapHelper, agentExited,
                 stopVars, budget>>

StartNew ==
  /\ pc = "start"
  /\ todo' = WorkerRequests(ccf, TRUE)
  /\ pc' = "spawn" /\ ret' = "cmd"
  /\ UNCHANGED <<table, shrinkVars, os, gen, ccf, kv, pidsKv, pend, flags, idx,
                 live, reapHelper, agentExited, stopVars, budget>>

RestartCmd ==
  /\ pc = "cmd"
  /\ \E lost \in SUBSET {s \in Slots : Held(s) /\ ReloadableHelper(s)} :
       LET T == {s \in Slots : /\ Held(s) /\ ~processes[s].just
                               /\ ~processes[s].exiting
                               /\ processes[s].name = "helper" =>
                                    processes[s].reload /\ ~Gone(s) /\ s \notin lost}
       IN /\ ~ChannelMayFail => lost = {}
          /\ Tell(T, Quitting)
          /\ flags' = flags \union ReapIfGone(T)
  /\ reapHelper' = TRUE
  /\ live' = TRUE
  /\ pidsKv' = SavedPids
  /\ pc' = "rtc"
  /\ UNCHANGED <<last, shrinkVars, gen, ccf, kv, pend, idx, todo, ret,
                 agentExited, stopVars, budget>>

NoReload ==
  /\ pc = "decide" /\ ~Stopping /\ "HUP" \notin flags
  /\ pc' = "rtc"
  /\ UNCHANGED <<table, shrinkVars, os, gen, ccf, kv, pidsKv, pend, flags, idx,
                 todo, ret, live, reapHelper, agentExited, stopVars, budget>>

(* SIGCONF: the worker count in the KV store has been written.             *)
RuntimeCount ==
  /\ pc = "rtc"
  /\ IF "CONF" \in flags /\ kv > 0 /\ kv <= MaxDynWorker
       THEN UpdateWorkers(kv, "agent", "agent")
       ELSE pc' = "agent" /\ UNCHANGED <<table, shrinkVars, os, ccf, todo, ret>>
  /\ flags' = flags \ {"CONF"}
  /\ UNCHANGED <<gen, kv, pidsKv, pend, idx, live, reapHelper, agentExited,
                 stopVars, budget>>

(* njt_start_privileged_agent_processes() at the end of the loop.          *)
RestartAgent ==
  /\ pc = "agent"
  /\ IF agentExited /\ PrivilegedAgent
       THEN /\ agentExited' = FALSE
            /\ todo' = AgentRequests /\ ret' = "top" /\ pc' = "spawn"
       ELSE pc' = "top" /\ UNCHANGED <<agentExited, todo, ret>>
  /\ UNCHANGED <<table, shrinkVars, os, gen, ccf, kv, pidsKv, pend, flags, idx,
                 live, reapHelper, stopVars, budget>>

-----------------------------------------------------------------------------
(* The environment: children, the timer, operators and the control plane.  *)
Up == pc \notin {"exited", "crashed"}

masterVars == <<table, shrinkVars, gen, ccf, pidsKv, flags, pc, idx, todo, ret,
                live, reapHelper, agentExited, stopVars>>

ChildExit(p) ==      \* a child told to quit has finished its connections
  /\ Up
  /\ os[p].st = "quit"
  /\ os' = [os EXCEPT ![p].st = "dead"]
  /\ pend' = pend \union {"CHLD"}
  /\ UNCHANGED <<masterVars, kv, budget>>

ChildCrash(p) ==
  /\ Up
  /\ os[p].st \in {"run", "quit"} /\ os[p].name \in CrashNames
  /\ budget.crash > 0
  /\ budget' = [budget EXCEPT !.crash = @ - 1]
  /\ \E st \in {"dead"} \union (IF FatalExit THEN {"fatal"} ELSE {}) :
       os' = [os EXCEPT ![p].st = st]
  /\ pend' = pend \union {"CHLD"}
  /\ UNCHANGED <<masterVars, kv>>

Alarm ==
  /\ pc = "wait" /\ delay > 0 /\ "ALRM" \notin pend
  /\ pend' = pend \union {"ALRM"}
  /\ UNCHANGED <<masterVars, os, kv, budget>>

(* The sendmsg API (keys "__master_...") or the CPU guard set the count.   *)
SetCount(c) ==
  /\ Up
  /\ budget.set > 0
  /\ budget' = [budget EXCEPT !.set = @ - 1]
  /\ kv' = c
  /\ pend' = pend \union {"CONF"}
  /\ UNCHANGED <<masterVars, os>>

Reload ==            \* SIGHUP from the command line
  /\ Up
  /\ gen < MaxGen /\ "HUP" \notin flags \union pend
  /\ pend' = pend \union {"HUP"}
  /\ UNCHANGED <<masterVars, os, kv, budget>>

Stop(sig) ==
  /\ Up
  /\ sig \notin flags \union pend
  /\ pend' = pend \union {sig}
  /\ UNCHANGED <<masterVars, os, kv, budget>>

MasterStep ==
  \/ Spawn \/ SpawnDone \/ Boot \/ Top \/ Wake
  \/ ReapEmpty \/ ReapLive \/ ReapRespawn \/ ReapCrash \/ ReapRelease \/ ReapEnd
  \/ Exit \/ Terminate \/ Quit
  \/ Reconfigure \/ Recount \/ StartNew \/ RestartCmd \/ NoReload
  \/ RuntimeCount \/ RestartAgent

Environment ==
  \/ \E p \in Pids : ChildExit(p) \/ ChildCrash(p)
  \/ Alarm
  \/ \E c \in KvCounts : SetCount(c)
  \/ Reload
  \/ \E sig \in MayStop : Stop(sig)

Next == MasterStep \/ Environment

Spec == Init /\ [][Next]_vars

(* The master keeps running and setitimer() goes off.                      *)
MasterFairSpec == Spec /\ WF_vars(MasterStep) /\ WF_vars(Alarm)

(* Besides, a child told to quit ends once its connections do.             *)
FairSpec == MasterFairSpec /\ \A p \in Pids : WF_vars(ChildExit(p))

-----------------------------------------------------------------------------
(* The slots of the table and the requests hold what the code puts there.  *)
Slot == [pid : Pids \union {NoPid}, name : Names, respawn : BOOLEAN,
         just : BOOLEAN, exiting : BOOLEAN, exited : BOOLEAN,
         reload : BOOLEAN, data : Nat \union {NoData}]
Requests == [name : Names, just : BOOLEAN, reload : BOOLEAN]
Process == [st : States, name : Names, gen : Nat]
Signals == {"CHLD", "ALRM", "HUP", "CONF"} \union StopSignals
Labels == {"spawn", "boot", "top", "wait", "reap", "decide", "count", "start",
           "cmd", "rtc", "agent", "exited", "crashed"}

Budgets == [crash : Nat, set : Nat, fork : Nat, refuse : Nat]

TableType ==
  /\ processes \in [Slots -> Slot] /\ last \in 0..MaxProcesses
  /\ shrink \subseteq Pids /\ shrinkFinish \in Nat
  /\ os \in [Pids -> Process]
CountType ==
  /\ gen \in Nat /\ ccf \in Nat \ {0} /\ kv \in Nat
  /\ pidsKv \subseteq Pids /\ idx \in 1..(MaxProcesses + 1)
  /\ delay \in Nat /\ sigio \in Nat
  /\ budget \in Budgets
ControlType ==
  /\ pend \subseteq Signals /\ flags \subseteq Signals
  /\ pc \in Labels /\ ret \in Labels
  /\ live \in BOOLEAN /\ reapHelper \in BOOLEAN /\ agentExited \in BOOLEAN

(* Every variable of the master has the type the code gives it.            *)
TypeOK == TableType /\ CountType /\ ControlType /\ todo \in Seq(Requests)

(* No child is lost: every process the kernel still has, a zombie          *)
(* included, is in exactly one slot of njt_processes[] or is one of the    *)
(* shrunk workers whose end njt_process_get_status() still counts.         *)
Supervised ==
  /\ \A p \in Pids : os[p].st # "none" => InTable(p) \/ p \in shrink
  /\ \A s \in Slots : Held(s) => processes[s].pid \notin shrink
  /\ \A s, t \in Slots :
       (Held(s) /\ Held(t) /\ processes[s].pid = processes[t].pid) => s = t

(* What Supervised rests on: a slot marked `exited` holds no process any   *)
(* more, and a shrink is never taken for finished too early.               *)
ExitedGone ==
  \A s \in Slots :
    Held(s) /\ processes[s].exited => os[processes[s].pid].st = "none"
ShrunkGone == {p \in shrink : os[p].st = "none"}
NotOvercounted == shrinkFinish <= Cardinality(ShrunkGone)

(* No child is lost, in the form in which every step preserves it, failed  *)
(* forks included.                                                         *)
SupervisionInv == Supervised /\ ExitedGone /\ NotOvercounted

(* A dynamic change of the worker count is refused only while a worker of  *)
(* the previous shrink is still there: the two counters never get out of   *)
(* step, which would refuse every later change.                            *)
ShrinkAccounted ==
  shrinkFinish = Cardinality(ShrunkGone)

Quiet == pc = "wait" /\ pend = {} /\ ~Stopping

(* Whatever order reloads, count changes and crashes come in, a master at  *)
(* rest has at least as many workers taking connections as it was last     *)
(* asked for.                                                              *)
EnoughWorkers ==
  Quiet => Cardinality({s \in WorkerSlots : ~processes[s].exiting}) >= ccf

(* Once a reload is over, whoever still runs an older configuration has    *)
(* been told to quit; helpers that are never reloaded are the exception.   *)
OldGenerationLeaves ==
  Quiet => \A p \in Pids : os[p].st = "run" /\ os[p].gen < gen =>
             \E s \in Slots : Held(s) /\ processes[s].pid = p /\ KeptHelper(s)

(* What the CPU guard reads in kv_http___sysguard_pids whenever the master *)
(* sleeps are workers of the table, and all of them unless the list of     *)
(* their pids is longer than 4000 bytes.                                   *)
PidsPublished ==
  pc = "wait" => /\ pidsKv \subseteq WorkerPids
                 /\ Cardinality(WorkerSlots) <= MaxSaved => pidsKv = WorkerPids

(* The master exits last: only workers shrunk away may outlive it, since   *)
(* it no longer looks after those.                                         *)
OnlyShrunkOutlive ==
  pc = "exited" => \A p \in Pids : os[p].st # "none" => p \in shrink

(* A reload starts the new copilot processes only after the old ones are   *)
(* gone: never two instances of one directive.                             *)
Instances(T) ==
  Cardinality({s \in T : os[processes[s].pid].st \in {"run", "quit"}})
OneInstance ==
  /\ Instances({s \in Slots : Held(s) /\ ReloadableHelper(s)}) <= NReload
  /\ Instances({s \in Slots : Held(s) /\ KeptHelper(s)}) <= NKeep

(* A shrink comes to its end, and the next change is accepted again.       *)
ShrinkEnds == ShrinkPending ~> (~ShrinkPending \/ ~Up)

(* A reload comes to its end: of the old configuration's processes only    *)
(* the helpers that are never reloaded are left.                           *)
Superseded(g) ==
  \A p \in Pids : os[p].st # "none" /\ os[p].gen < g =>
    \E s \in Slots : Held(s) /\ processes[s].pid = p /\ KeptHelper(s)

ReloadEnds ==
  \A g \in 1..MaxGen : (gen = g) ~> (~Up \/ Stopping \/ gen > g \/ Superseded(g))

(* A stop by SIGTERM ends the master even if no child ever obeys: the      *)
(* alarms escalate to SIGKILL.                                             *)
TerminateEnds == "TERM" \in flags ~> pc = "exited"

(* A graceful stop ends once the children have finished.                   *)
QuitEnds == "QUIT" \in flags ~> pc = "exited"

(* Unless it died fatally, a privileged agent that ended, on its own or in *)
(* a reload, is replaced even when its SIGCHLD is merged with others.      *)
AgentUp == \E p \in Pids : os[p].name = "agent" /\ os[p].st = "run"
AgentReplaced == (PrivilegedAgent /\ ~AgentUp) ~> (~Up \/ Stopping \/ AgentUp)

-----------------------------------------------------------------------------
(* What the program says of itself and does not do.                        *)

(* "woker processes count (%V) is not valid, it should be within (0, %d])" *)
(* (njt_process_cycle.c:392): a count in that range is left in the store   *)
(* by the master when a start or a reload looks at it.                     *)
ValidCountKept ==
  [][(pc \in {"boot", "count"} /\ pc' # pc /\ kv \in 1..MaxDynWorker) => kv' = kv]_vars

(* "Wrong helper directive!" (njt_process_cycle.c:1097, level EMERG): no   *)
(* copilot process that outlives a reload is left without its directive.   *)
HelperHasDirective ==
  pc = "wait" => \A s \in Slots : (Held(s) /\ KeptHelper(s)) =>
                                     processes[s].data # NoData
=============================================================================
