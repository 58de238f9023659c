# OpenNJet: a verification development

OpenNJet is an application engine derived from nginx: a master process, worker
processes that serve requests, a *privileged agent* that receives dynamic
configuration, and *copilots* ("helper" processes: the MQTT broker, the control
API, rsync, monitoring) that the master starts from `helper` directives. This
directory holds TLA+ models of its process core and of the three places where
its own modules share state between processes or nodes, TLC configurations for
small instances, and theorems checked by TLAPS.

All source paths below are relative to `src/`; the C core is in `src/src/`, the
modules of OpenNJet's own in `src/modules/`.

1. [Inventory](#1-inventory)
2. [Plan](#2-plan)
3. [Master](#3-module-master)
4. [Shmtx and OwnedLock](#4-modules-shmtx-and-ownedlock)
5. [Rwlock and VtsZone](#5-modules-rwlock-and-vtszone)
6. [Gossip](#6-module-gossip)
7. [KvConfig](#7-module-kvconfig)
8. [Runs](#8-runs)
9. [Proofs](#9-proofs)
10. [Where the code and what is said of it disagree](#10-where-the-code-and-what-is-said-of-it-disagree)
11. [What is not modelled](#11-what-is-not-modelled)

## 1. Inventory

| component | source | state | operations | module |
|---|---|---|---|---|
| master process | `src/os/unix/njt_process_cycle.c`, `njt_process.c` | `njt_processes[]`, `njt_last_process`, `njt_shrink_processes[]` and its two counters, the `njt_reap`, `njt_quit`, ... flags, `ccf->worker_processes`, `njt_reap_helper`, `njt_privileged_agent_exited` | spawn, reap, respawn, reload, quit, terminate, change of the worker count, restart of the agent and the copilots | `Master` |
| worker, agent, copilot | same files | run, draining, gone | obey a channel command or a signal, finish connections, exit | `Master` |
| shared memory mutex | `src/core/njt_shmtx.c` | the lock word, `wait`, the semaphore | trylock, lock, unlock, wakeup, force_unlock | `Shmtx`, `OwnedLock` |
| read-write locks | `src/core/njt_shmtx.c`, `njt_rwlock.c` | the word: free, the number of readers, or written | read lock, write lock, unlock, rd2wr, wr2rd | `Rwlock` |
| traffic statistics (vts) | `modules/njet-vts-module` | the tree of nodes in the zone, the slots of each node, the caches of the workers | find or insert, count, delete, reset | `VtsZone` |
| gossip | `modules/njet-gossip-module` | the member list in shared memory, the last announced master, the boot time of the node | ON, HEARTBEAT, OFF, clean up, elect, announce | `Gossip` |
| KV store and messages | `modules/njet-http-kv-module`, `njet-http-sendmsg-module`, `njet-http-location-module`, `njet-http-dyn-header-module`, the broker | retained messages per topic, the configuration of every process, the sessions and timers of the API | rpc, change, publication, answer, timeout, retained replay | `KvConfig` |
| slab allocator | `src/core/njt_slab.c` | pages, bitmaps | alloc, free | |
| channels | `src/os/unix/njt_channel.c` | a socket pair per slot | write and read of a command, passing of descriptors | |
| CPU guard | `modules/njet-sysguard-cpu-module` | the pids it watches, the count of workers it last asked for | sample, grow, shrink, SIGCONF | |
| cluster limits, token sync, app sticky | the modules of these names | counters and tables in shared memory | merge of what gossip brings from the other nodes | |
| thread pool | `src/core/njt_thread_pool.c` | task queue, its length, the list of done tasks | post, run, notify, exit | |
| cycle, configuration | `src/core/njt_cycle.c` | the current cycle and its pools, zones and sockets | `njt_init_cycle()`: accepted or refused; destroys the old pool | |
| health checks, dynamic upstreams, HTTP, stream, mail, events | `modules/`, `src/http`, `src/stream`, `src/mail`, `src/event` | per connection | the proxy itself | |

### How they interact

* The master **forks** children and learns of their end by **SIGCHLD**; it tells
  them to go by **signals** and **channel commands**. Signals merge while they
  are blocked, which is always except in `sigsuspend()`.
* The command line, the control API and the CPU guard steer the master by
  **signals**: SIGHUP (reload), SIGQUIT, SIGTERM, SIGCONF (the worker count in the KV
  store has been written). The count itself goes through the **KV store**.
* Every process of one cycle shares **zones** protected by `njt_shmtx`. The
  SIGCHLD handler of the master takes the mutexes from a child that died. The
  statistics zone uses the **read-write lock** instead, which nobody takes
  from a dead holder.
* Dynamic configuration goes from the control API to the agent and from there to
  the workers as **messages** of the broker; the agent publishes a whole
  configuration as a retained message so that later workers find it. The agent
  subscribes to those topics as well and does not hear itself, because it
  connects with MQTT's `no_local`. The copilots live through reloads, or not,
  according to their directive.
* Nodes exchange **UDP datagrams** (gossip); the node elected master is announced
  to the local processes through the broker.

### What is hard, and what makes each component correct

* **Master.** Reload, stop, reaping, a crash, a dynamic change of the worker
  count and a restart of agent or copilots interleave at every sleep of the
  master. Correct: no child is ever lost or counted twice; the number of workers is
  what was asked for; after a reload no process of the old configuration stays;
  one copilot runs once; a stop ends, and ends last; a change of the count is not
  refused for ever.
* **Mutex.** Death of an owner, of a waiter or of a process that is waking another, at any
  step. Correct: it excludes, no live owner loses it, a dead one does, no
  wake-up is lost.
* **Read-write locks, statistics.** The upgrade gives the read lock up before it
  takes the write lock; several workers may share a slot; a node may be deleted
  while a worker still has a pointer to it; a dead holder stays. Correct: a
  writer is alone, a key has one node, no request is lost or counted twice, a
  tree whose holder died is not touched again.
* **Gossip.** Lost and late datagrams, two worker 0 of one node during a reload,
  restarts with a new boot time, clean-up timers, announcements that fail.
  Correct: the lists settle on the members that are there, and every node announces
  the same master.
* **Dynamic configuration.** A process starts or comes back between a retained message and
  a live one; a publication, an answer or both are lost with a connection; an answer
  races its timer. Correct: what was answered is kept for later workers, a worker never goes
  back, all workers converge, a caller is called once.
* **Thread pool.** The queue at its limit, completion against notification.
  Correct: no task lost or run twice.

The hazards, each with its source line and the properties meant for it, are
listed in `PROJECT.json`.

## 2. Plan

| order | module | what | state |
|---|---|---|---|
| 1 | `Master` | the master process, its table, signals and dynamic worker count | written, checked; all safety properties of the runs proved |
| 2 | `OwnedLock`, `Shmtx` | a lock with an owner, and the mutex that implements it | written, checked; all safety properties and the refinement proved |
| 3 | `Gossip` | member lists, heartbeats, clean-up and election over lossy UDP, with reloads, deaths and stops of nodes | written, checked; types, the election and `RecordKeepsUp` proved |
| 4 | `Rwlock`, `VtsZone` | the read-write lock, and the zone of the statistics that is built on it | written, checked; all safety properties proved |
| 5 | `KvConfig` | rpcs, retained and live messages, processes that join, break and die | written, checked; types, `AnsweredKept`, `NeverBack` and the safety half of `CalledOnce` proved |
| 6 | `ZoneLocks` | `Shmtx` for the zones of two generations together with the reaping of `Master`: which zones `njt_unlock_mutexes()` looks at | left |
| 7 | `CpuGuard` with `Master` | the guard's decision against counts that a pending shrink refuses | left |
| 8 | `ThreadPool`, `Channel` | queue limit and completion; partial writes | left |
| 9 | `Upgrade` | USR2, WINCH and the old binary's return | left |

The abstract specifications are `OwnedLock` for the mutex and `Rwlock` for the
zone (section 9); each component of state that several actors share has one
owner in the models, and the modules meet where the code does: `VtsZone` extends
`Rwlock`, `Shmtx` implements `OwnedLock`, and `Master` leaves to `SetCount` what
the API and the guard may do to it.

## 3. Module Master

### State

| variable | code |
|---|---|
| `processes`, `last` | `njt_processes[]` (pid, name, `respawn`, `just_spawn`, `exiting`, `exited`, `reload`, `data`) and `njt_last_process` |
| `shrink`, `shrinkFinish` | the pids in `njt_shrink_processes[]`, `njt_shrink_finish_count`; `njt_shrink_count` is the size of the set |
| `os` | the kernel's process table: none, run, quit (draining), dead or fatal (a zombie; fatal = exit code 2, which turns `respawn` off) |
| `gen` | `njt_current_seq`, and the cycle that goes with it |
| `ccf`, `kv`, `pidsKv` | `ccf->worker_processes` and the keys `kv_http___master_worker_count` (0 stands for absent or not a number) and `kv_http___sysguard_pids` |
| `pend`, `flags` | signals the kernel holds for the master; the flags set by `njt_signal_handler()` |
| `pc`, `idx`, `todo`, `ret` | where the master is; the slot `njt_reap_children()` looks at; the `njt_spawn_process()` calls left in a loop, and where to go on after it |
| `live`, `reapHelper`, `agentExited`, `delay`, `sigio` | the variables of these names in the loop |
| `budget` | what is left of the bounds on crashes, changes, failed forks and refused reloads |

### Actions

The master runs with its signals blocked, so that nothing but its children and
the kernel moves while it is not in `sigsuspend()`. One action is one stretch of the loop that
touches shared state once: `Spawn` (one `njt_spawn_process()`), `SpawnDone`,
`Boot` (the stored count is applied at start-up), `Top` (timer, `sigsuspend`),
`Wake` (all handlers, `njt_process_get_status()` included), one action per slot and
outcome of `njt_reap_children()` (`ReapEmpty`, `ReapLive`, `ReapRespawn`, `ReapCrash`,
`ReapRelease`), `ReapEnd` with `njt_restart_helper_processes()`, `Exit`,
`Terminate`, `Quit`, the reload as `Reconfigure`, `Recount`, `StartNew`,
`RestartCmd`, then `RuntimeCount` (SIGCONF) and `RestartAgent`. Around it:
`ChildExit`, `ChildCrash`, `Alarm`, `SetCount`, `Reload`, `Stop`.

Each of these is interleaved with the end of children and with the signals: a
child that dies between `fork()` of one worker and the next, or while the
master is half-way through its table, is an ordinary behaviour of the model.

### Abstractions

* A pid is handed out again only when neither the kernel nor a table of
  the master holds it. A recycled pid that the master still remembers is outside
  the model.
* A slot at or above `njt_last_process` is never read before
  `njt_spawn_process()` overwrites it, and is kept as `FreeSlot`.
* The pids of one table are written with the same number of digits, so that `MaxSaved` of them make the list of
  pids longer than 4000 bytes.
* A channel command takes effect at once: the child drains and ends at some
  later time. `ChannelMayFail` lets the write to a copilot fail, as `EAGAIN` does.
* The configuration is known by its generation; of its content, only
  `worker_processes` varies. The number of `helper` directives does not change.
* The start-up assumes that the KV store can be read (`master_evt_ctx` is set).
* Time is the number of alarms; `KillDelay` is the 1000 ms threshold in units of
  the first 50 ms delay. The runs use 1, so that the second alarm kills.

## 4. Modules Shmtx and OwnedLock

`lock`, `wait` and `sem` are the words of `njt_shmtx_t`, `pc[p]` the line of
`njt_shmtx.c` at which process `p` is. There is one step per atomic access; the spin loop is
`TryAgain` repeated. `Crash` takes a process away at any label of `CrashLabels`,
`ForceUnlock` is what the SIGCHLD handler of the master does for it, after which
the master itself walks through the wake-up, and `Respawn` lets a new process
of that role begin. `Semaphore = FALSE` gives the variant without POSIX
semaphores, which only spins.

A process that dies between its unlock and its post takes the wake-up of the next
one along, and so does one that was awoken and has not yet taken the free lock:
the forced unlock finds a word that is not the dead process's and does nothing. `lost` counts
those deaths, and only those: `Credits` and `NoLostWakeup` say that no other
death, and no interleaving, costs a wake-up.

`OwnedLock` is what callers rely on: the lock passes from one process to
another by being free; the owner alone gives it back, and the master does when
the owner is dead. `Shmtx` implements it under
`owner <- lock, dead <- {p : pc[p] is "dead" or "gone"}`.

The scope is one zone of the current cycle. That the master looks only at
the zones of its current cycle is a hazard on the list and left to `ZoneLocks`.

## 5. Modules Rwlock and VtsZone

`Rwlock` is the lock by itself: `word` is the C word, `hold` says who holds what, which the code
does not record. A step is a successful compare and swap; a failed attempt
changes nothing, so spinning is waiting for the guard. The lock of a zone
lies in the same word as the slab allocator's mutex and is free at 2^32
(`NJT_RWLOCK_LOCK_BASE`), the lock of a slot is free at 0: `Free`.

`VtsZone` extends it with the statistics zone:

| variable | code |
|---|---|
| `tree`, `key`, `count` | the nodes linked in `ctx->rbtree`, their keys, the counters of each of their `njt_ncpu` slots |
| `want`, `slot` | `shpool->rwlock.want` and `njt_cpu_id` of each worker |
| `cached` | `vtscf->node_caches[type]`: the node a worker counted in last |
| `pc`, `arg`, `found`, `read` | where a worker is in `shm_add_node()`, deletion or reset, with its local variables |
| `done` | history: how often a key was counted |

`AddNode` is the lookup under the read lock; a miss goes through `UnlockZone`
(the first half of `rd2wrlock`), `Upgrade` (the second half, and the second
lookup), `Insert` and the two halves of `wr2rdlock`; then `MapNode` (the slot
of the worker), `ReadCount` and `WriteCount` under the lock of the slot, and `Return`. `Delete`, `Redeem`,
`DeleteNode` and `Reset`, `ResetNode` are the control interface on one key. `Die`
takes a worker away in the middle of any of them.

Abstractions: what is read under a lock is read in the step that takes it and
what is written is written in the step that gives it up, where nobody else can
look; keys stand for their hashes; the counters of a node are one counter;
memory that was freed keeps its contents until it is allocated again.

## 6. Module Gossip

| variable | code |
|---|---|
| `gens`, `leaving` | the worker 0 of each node with its pid and boot time: two of them during a reload; those that drain: they receive and send nothing any more but OFF |
| `cache` | the pid of worker 0 that another worker read when it first sent something |
| `list` | `sh->members->next` of each node |
| `last`, `behind` | `last_master_ip`; whether the topic `/gossip/nodeinfo` says something else |
| `cleaning`, `waiting` | timers by the worker 0 they belong to: `nc_timer` where it is not set again, i.e. of one that drains; `wait_master_timer` with the repetitions left |
| `net` | datagrams on their way that may arrive when things have changed |
| `nextPid` | the kernel's next pid |
| `outdated` | history: nodes that have elected with a boot time that is not their present one |

Actions: `Deliver` (a datagram arrives in some worker of some generation: ON is
answered by a HEARTBEAT, OFF drops the sender), `Beat` and `OldBeat` (a
heartbeat is sent and received), `Clean` and `CleanLive` (the clean-up timer, the latter
after lost heartbeats), `LastClean` (the same timer once more, in a worker 0 that drains),
`WaitMaster` (of any worker 0, one that drains included; given up after `MaxSend`
repetitions), `Start`, `Reload`, `Drain`, `Leave`, `Respawn`
(worker 0 dies), `Down` (the node goes, with OFF or without), `Lose`. Every
one of the handlers contains the election and the announcement it makes in
the code: `Seen` is `njt_gossip_upd_member()` as a whole, `Drop` the removal of
members with the election before and after it.

`Elect` is `njt_gossip_get_master_node()` literally: a walk along the list with
the flag `changed_by_nodename`. What it should compute is `Eldest`; the runs
show where the two agree (distinct boot times) and where they do not (section 10).

Abstractions: the network delays, reorders and loses; time is abstract, so that
the clean-up timer may find silent members at any moment. A heartbeat says the
same for as long as its sender lives, which is why it is one step. The boot time of
the own node is read before the zone is locked: during a reload `BootRead` is
either one. A boot time is what the clock of a host shows when a configuration is
read, any number of `BootTimes`: hosts need not agree, a clock may be set back, and two
nodes may show the same time. Only pids are never given twice.

A reload leaves more behind than an OFF. `njt_exiting` only keeps `nc_timer` of a draining worker 0 from being
set again; the one that is pending expires, and so does `wait_master_timer`, and both elect with
the boot time of the old configuration (`LastClean`, `WaitMaster`). With it the node may take itself for the master
that it was before the reload. If the true master has fallen silent, it is then dropped from the list without a
new election, and `last` goes on naming it. Whoever else is heard after that repairs it,
since `Seen` compares `last` with the election each time; a node left alone hears nobody.

## 7. Module KvConfig

| variable | code |
|---|---|
| `conf` | the configuration of each process: its locations, each with the id of the change that set it |
| `linked`, `inbox`, `outbox` | connected and subscribed; what the broker has for a process, and the agent for the broker |
| `keptAdds`, `keptFull` | retained messages: locations under `/ins`, the full configuration under `/dyn` |
| `requests`, `sessions`, `timers`, `calls` | the API: what was sent, registered handlers (`rpc_msg_handler` entries), their timers, and how often each was called |
| `answered`, `done`, `clearing`, `torn` | history: successes the API was told, changes carried out, deletions under way, locations whose creation or deletion was cut off by a broken connection |

Actions: `SendRpc` (the API), `CarryOut` (the agent's handler as a whole: change,
publication, answer), `RoutePublished` and `RouteReply` (the broker takes the
agent's next message), `Receive` (any process), `Connect` with the replay of
what is retained, in the order of the subscriptions, `TimerFired`, `Break` and
`Die`.

External, modelled from how the code uses it: the broker. A connection keeps the order, and what
is on its way is lost when it breaks (QoS 0, clean session). The broker has
read what a dead process left in its connection before the replacement
subscribes. The link of the API is folded into the agent's: a request or an
answer lost on either looks the same to both ends.

`torn` names what the design does not repair: a deletion is not retained, and an
agent that loses its connection between a change and its publication does not
publish it again. The properties are about all other locations; sections 10 and
`PROJECT.json` say what happens to these.

## 8. Runs

| run | cfg | states | question |
|---|---|---|---|
| `master_scale` | `MasterScale.cfg` | 523 000 | two changes of the count, up, down or to something invalid, a reload and a crash: is anybody lost, is the count served, are changes accepted again, does the CPU guard read the right pids, also where the list of them is cut off? |
| `master_services` | `MasterServices.cfg` | 132 000 | two reloads with an agent, a reloadable and a kept copilot and a crash: does the old generation leave, does the agent return, is a copilot run twice? |
| `master_stop` | `MasterStop.cfg` | 257 000 | SIGTERM and SIGQUIT with children that need not obey, a crash, a shrink under way and a failed fork: does the escalation end the master, and who outlives it? |
| `master_quit` | `MasterQuit.cfg` | 105 000 | SIGQUIT with a reload, a refused reload, a fatal exit, a failed channel write and a process table of four slots that a reload overfills |
| `master_quit_hang`, `master_count`, `master_directive` | the same names | few | the violations of section 10 |
| `shmtx` | `Shmtx.cfg` | 55 000 | three processes, two deaths anywhere |
| `vts_zone` | `VtsZone.cfg` | 268 000 | three workers, two keys, two places, two slots, three calls, one deletion or reset, one death |
| `gossip` | `Gossip.cfg` | 203 000 | two nodes, one that reloads and one that may crash, go and return, with a clock that has been set back; three nodes with either of the two; instead of a crash a lost datagram, missed heartbeats or a refused announcement |
| `gossip_tie` | `GossipTie.cfg` | few | the violation of section 10 |
| `kv_config` | `KvConfig.cfg` | 981 000 | three changes of two locations, one of them dynamic, with two broken connections or deaths |

### What the passing runs show

* `Supervised`, `SupervisionInv`: every process the kernel knows is in exactly one slot or
  among the shrunk ones whose end is still counted.
* `ShrinkAccounted`, `ShrinkEnds`: the two counters of the shrink stay in step with the
  processes they stand for, and a pending shrink ends. Otherwise the count could never be changed again.
* `EnoughWorkers`: a master at rest has as many workers taking connections as it was last asked for.
* `OldGenerationLeaves`, `ReloadEnds`: no process of an old configuration escapes being told to quit; all
  but the kept copilots end. One crash is allowed during the reload itself.
* `OneInstance`: no directive is run twice. `AgentReplaced`: the agent comes back, merged SIGCHLDs included.
* `PidsPublished`: what the CPU guard reads are workers of the table, and all of them unless the list of pids is
  longer than 4000 bytes, where `njt_save_pids_to_kv()` stops (`SavedPids`). With pids of seven digits these are
  501 workers; `MAX_DYN_WORKER_C` allows as many, and a reload doubles them. The guard then does not see the others.
* `TerminateEnds`, `QuitEnds`, `OnlyShrunkOutlive`: a stop ends the master, after all but the shrunk workers.
* `MutualExclusion`, `LockIsOwned`, `ImplementsOwnedLock`, `DeadOwnerFreed`,
  `Credits`, `NoLostWakeup`: see section 4.
* `Exclusion`, `WordCounts`: a writer is alone and the word never disagrees with its holders, the zeroing of a new
  node's slot locks included. `OneNodePerKey`: the second look after the upgrade is enough.
  `Counted`: nothing is counted twice or lost as long as nothing is deleted or reset. `TreeFrozen`: the tree under a dead holder of
  the lock stays as it is. `Served`: no call waits for ever as long as nobody dies.
* `RecordKeepsUp`: a node that has recorded the master it elects goes on to do so, from when no worker 0 of an older
  configuration has a timer left until the next reload. `MembersSettle`: what late, lost or outdated datagrams did to
  a list is repaired. `MasterAgreed`: all nodes announce the eldest, whatever old worker 0 have elected meanwhile;
  except that a node left alone may stay with a master that is gone. The run reaches that exception: without
  it `MasterAgreed` is violated by a reload, the master's death, and the clean-up in the old worker 0.
* `AnsweredKept`: a change whose success was answered is in what the broker keeps for later
  workers. `NeverBack`: no worker goes back to an older setting. `WorkersConverge`: all workers come to what is kept.
  `CalledOnce`: answer and timer together call the handler exactly once.

Each property was also checked against a version of the code with one plausible
bug (the definitions marked "mutant" in the modules): every one is violated
there.

### Bounds

* `Master`: two workers are the least that lets a shrink pick between a draining slot and a new one, and two changes the
  least in which a second can meet an unfinished first. A reload doubles the
  workers: seven slots hold both generations, one shrunk batch and a respawn. One reload beside the changes, or two reloads alone,
  exercise `just_spawn` through two generations. One crash, placed anywhere, suffices for each
  race between a death and a step of the master; a second one adds deaths but no new pair.
  `MaxSaved` is 3 in `master_scale`, so that the list of pids is cut off at times, and 501 elsewhere.
  `master_stop` runs with one worker of the configuration and one added at
  run time, because every child may refuse to obey there.
* `Shmtx`: three processes are a holder, a sleeper and a process
  that barges in; two deaths allow the death of an owner and of the process it woke.
* `VtsZone`: three workers on two slots share a slot in one case and have their own in another; two
  that miss one key and a third that deletes or reads meet at the upgrade. Three calls are one for
  each worker, or all by one, whose cache then matters. 4096 stands for 2^32: it only has to exceed any number of readers.
* `Gossip`: a cluster of `Clusters` is what may be there to begin with, and takes its share off the bounds. With two
  nodes, the master's reload and one piece of trouble (a crash, a stop, a loss, a failed announcement) come in either
  order, with the returning node's clock set back; this is where an old worker 0 and a dead master meet, and where a
  node may be left alone. With three nodes a list has an order and an election a third party, and either the
  reload or the trouble happens, the latter to the master; both at once are too many states. `Clocks`
  never show one time on two hosts: ties are the matter of `gossip_tie`, where `MasterAgreed` is violated.
  Not reached: a second piece of trouble, a second reload, and the end of the repetitions of `WaitMaster`, since only one
  announcement fails. The theorems about types and `RecordKeepsUp` are for any number of each.
* `KvConfig`: three changes are an addition, a setting and a deletion of one location, or a change before, between and after two
  breaks. One worker suffices: workers send nothing and are not seen by each other, and the broker
  treats each one by itself; two pieces of trouble let the agent and the worker fail in either order.

### Fairness

* `MasterFairSpec` is weak fairness of the master's own step and of the alarm: the
  master is a sequential program whose steps do not block except in
  `sigsuspend()`, and `setitimer()` fires. `FairSpec` adds that a child told to
  quit ends one day, which holds when its connections do (`worker_shutdown_timeout`
  makes sure of it); `TerminateEnds` does not use it. No signal, crash or change of the
  count is fair.
* For the mutex, processes that have begun an operation go on,
  critical sections end and the master handles a SIGCHLD; nobody has to ask for
  the lock. The semaphore is weakly fair: which sleeper a post wakes does not matter to `NoLostWakeup`.
* `VtsZone`: a worker that has begun a call goes on. The locks spin without a queue, so that a worker that
  always comes second could starve; with finitely many calls nobody always comes first.
* `Gossip`: `Obey`, old workers do what a reload tells them, because the master sends the command and their event
  loop reads it; and, as one, timers fire, a datagram that was not lost arrives, heartbeats go on as long as
  one of these changes anything: none of them can be repeated for ever once the reload is over. Nobody has to reload,
  to leave, to return or to fail, and a draining worker 0 need not live until its timers expire.
* `KvConfig`: as long as an event loop, a timer or the broker has something to do, something is done; none of
  those steps can be repeated for ever, so that all of them happen in the end. No change, break or death is fair.

`CHECK_DEADLOCK FALSE` in the Master configurations: the master really ends
(`exited`, `crashed`), and may sleep for ever when nobody sends it a signal; in
`VtsZone.cfg` and `KvConfig.cfg` because everything is over when the bounded calls and
changes are. The Shmtx and Gossip runs check deadlock.

## 9. Proofs

`tlapm` checks eight modules to the last leaf. The assumptions are those on the constants in the modules
(`MasterConstants`, `ShmtxConstants`, `RwlockConstants`, `VtsZoneConstants`, `GossipConstants`, and in `KvConfig`
`ProcsAreDistinct`, `LocsAreDistinct`, `BoundsAreNaturals`); nothing else, except where a
theorem states one.

| module | theorem | says |
|---|---|---|
| `Master_proofs` | `TypeCorrect` | `Spec => []TypeOK` |
| | `SupervisionInvHolds`, `SupervisionHolds` | `Spec => []SupervisionInv`, `Spec => []Supervised`, for every table size, number of pids, workers, copilots, reloads, crashes and failed forks |
| `MasterTable_proofs` | `PublishedHolds` | `Spec => []PidsPublished` |
| | `OneInstanceHolds` | `Spec => []OneInstance` |
| | `ShrinkAccountedHolds` | `Spec => []ShrinkAccounted`, if `MaxForkFail = 0` and `MaxPid > 2 * MaxProcesses` |
| | `OldGenerationLeavesHolds` | `Spec => []OldGenerationLeaves`, if not `ChannelMayFail` |
| | `EnoughWorkersHolds` | `Spec /\ []HasRoom => []EnoughWorkers`, if not `FatalExit`, `MaxForkFail = 0` and `MaxPid > 2 * MaxProcesses` |
| | `OnlyShrunkOutliveHolds` | `Spec /\ []HasRoom => []OnlyShrunkOutlive`, under the same |
| | `RoomHolds` | `Spec => []HasRoom`, if the table is large: `2 * W * MaxGen + W + NReload + NKeep + 1 <= MaxProcesses`, where `W` bounds every count of workers |
| | `LargeTableServes` | `Spec => []EnoughWorkers /\ []OnlyShrunkOutlive`, under the hypotheses of both: conditions on the constants only |
| `Shmtx_proofs` | `TypeCorrect` | `Spec => []TypeOK` |
| | `OwnershipHolds`, `Exclusion` | `Spec => []LockIsOwned`, `Spec => []MutualExclusion` |
| | `Refinement` | `Spec => ImplementsOwnedLock` |
| | `CreditsHold` | `Spec => []Credits` |
| `Rwlock_proofs` | `LocksWork` | the lock by itself: `RwSpec => [](RwTypeOK /\ Exclusion /\ WordCounts)` |
| `VtsZone_proofs` | `ZoneTypes`, `ZoneExclusion`, `ZoneCounts`, `OneNode` | `Spec => []TypeOK`, `[]Exclusion`, `[]WordCounts`, `[]OneNodePerKey` |
| | `ZoneInvHolds`, `ZoneImplementsLocks` | `Spec => []ZoneInv`; `Spec => RwSpec`: every step of the zone is a step of its locks, or leaves them alone |
| | `Frozen` | `Spec => TreeFrozen` |
| | `CountedHolds` | `Spec => []Counted` |
| `Gossip_proofs` | `TypeCorrect` | `Spec => []TypeOK` |
| | `ElectsEldest` | nobody on a list booted before the one elected from it, for lists of any length |
| | `RecordFollows` | `Spec => RecordKeepsUp`, for any clocks of the hosts |
| `InductionLemmas` | | what the two modules above use: runs of a step, sums over finite sets |
| `KvConfig_proofs` | `TypeCorrect` | `Spec => []TypeOK` |
| | `KeptInvHolds`, `AnsweredKeptHolds` | `Spec => []KeptInv`, `Spec => []AnsweredKept`, for any workers, locations, changes, broken connections and deaths |
| | `NeverBackHolds` | `Spec => NeverBack`, for the same |
| | `NeverCalledTwice` | the safety half of `CalledOnce`: a handler has been called once if its session is gone, and not if it is there |

**Supervision.** `Supervised` is not inductive. A slot whose process is marked
`exited` is emptied or overwritten by the reap, which would lose a child unless
its process is already gone from the kernel: `ExitedGone`. A new shrink forgets
the pids of the previous one, which is safe only if all of those are gone: the
code decides this by comparing two counters, so the invariant must say that
the finished ones are never overcounted: `NotOvercounted`. With
`SupervisionInv == Supervised /\ ExitedGone /\ NotOvercounted`, relative to
`TypeOK`, every step of `Next` preserves it. The lemmas are cut along what a
step changes: steps that leave the pids alone (`SamePidsSupervised`), that only
change the state of processes, a spawn into a slot, a shrink, the collection of the dead.

**The table.** `PidsPublished` speaks of the sleeping master; `Published` says
where in the loop the saved pids have to be right already, cut off or not, and that the one
batch of spawns after which nothing is saved (that of the agent) contains no
worker. `SavedAll` adds that a list with room for all is not cut off. `OneInstance` counts processes; `OneInv` counts slots of
copilots and the spawn requests still due, which together never exceed the
directives: a spawn moves one from the requests to the slots, and a restart
asks again only when no slot is left.

**The shrink.** The equality `ShrinkAccounted` is **not** an invariant when forks fail: a
failed respawn leaves the pid of a dead process in its slot until the next
reap, a shrink may pick that slot, and the pid is then waited for in vain. The inequality `NotOvercounted`
is what holds, so that no child is lost then either; what is lost is the liveness of the shrink.
Without failed forks, `AccountInv` says that a slot whose process is gone exists only
during a reap that has yet to come to it (`GoneWaiting`), so that no shrink
ever meets one. That the model's kernel has a pid left for every fork is proved by
counting (`PidIsLeft`): slots and shrunk pids are no more than two tables.

**Reload and count.** The three theorems follow the loop of the master from the new configuration to the last
quit command. `GenInv`: between the reload (`Renewing`) and the pass of quit commands old processes may run, but
none of them is marked just spawned; afterwards whoever runs an older configuration is a kept copilot. It also says that
a slot marked `exiting` and a shrunk pid belong to a process that has been told, since no later pass
tells it again. A failing channel write leaves an old copilot with neither command nor mark, hence the hypothesis.
`EnoughInv` counts the slots that will take connections once the reload is over (`Serving`: during its
start only the just spawned) and the workers still to be spawned, the dead ones in front of the
reap included, as it respawns them; together they are never fewer than `ccf`, except in the labels
where `ccf` is already that of the new configuration (`Recounting`), when the whole number is asked for
anyway. A shrink takes from the end of the table at most as many as are too many (`FewVictims`), whichever
those are. `HasRoom` says that the table has a slot for whoever is to be spawned; a full table drops the request. `LiveInv`: in the loop `live` is
false only if the table is empty and the master is stopping; during a reap it is true once the reap has passed a slot
in use. That no reap finds an empty table earlier is `EnoughInv`, since at least one worker
is asked for. The hypotheses are needed: with one failed fork or one fatal
exit of the only worker TLC finds a state that violates `EnoughWorkers` and, after a change of
the count has started workers with `live` still 0, one that violates `OnlyShrunkOutlive`.

**Room.** `HasRoom` is a condition on the behaviour; `RoomHolds` replaces it by one on the constants, proved by
counting the slots of each kind together with the requests for it (`Places`). `OneInv` bounds the copilots, `AgentInv`
the agents by one: it is asked for again only after a reap has emptied its slot. `WorkersFit` bounds the workers: each
reload can leave behind `2 * W`, because the stored count is restored first, which adds workers to the old ones,
and the new configuration then starts its own before any of the old ones is told to quit; nothing obliges an old
worker to be gone at the next reload. With `NJT_MAX_PROCESSES`, 1024, and 16 workers this is room for 31 reloads
whose workers all go on draining. The runs use smaller tables: those of `EnoughWorkers` are small enough for TLC
and never full, the one of `master_quit` is full at times.

**Mutex.** `LockIsOwned` is inductive together with `TypeOK`, gives exclusion at
once, and is what the refinement needs: an unlock is a `Release` because the
caller owns the word, and a forced unlock a `Seize` because the word names a dead process.
`Credits` is proved by counting: each step moves at most one process into or out
of `Waiters` and `Posting`, and a death that takes a wake-up along is counted in `lost`.

**Zone.** `ZoneInv` adds to the types and to the locks' invariant what a label means:
`Holds` says which lock a worker has at each label. `OneNode` needs one more conjunct, `Missing`: a worker
about to insert has no node of its key in the tree, which is what the second lookup after the
upgrade establishes and the write lock keeps. One node per key, the frozen tree (whoever
changes it holds the write lock, hence is alone with the dead holder, hence is dead)
and the zeroing of slot locks of a node nobody can hold follow from it.

**Counting.** `Counted` sums over all slots of a node. The sum changes by one when a worker writes back what it
read plus one, which is right only if nobody wrote the same counter in between: `WritersApart`, from
the lock of the slot. `Placed` says that the pointer, the key and the value a worker holds at
each label still are what the tree says; it holds while nothing is deleted or reset, which is when `Counted` promises
anything. A new node starts at zero and is the only one of its key, by `Missing`.

**Election and record.** `ElectsEldest` is the invariant of the walk: after `i` members nobody of
the first `i` booted before the one held. It covers ties and the flag `changed_by_nodename`; what ties spoil is not who is
eldest but that there is one answer. `RecordKeepsUp` is therefore false when two nodes booted at the same
time (section 10). Nothing in the code keeps clocks of different hosts apart, so the property states the
condition where it is needed, on the nodes that a node knows of before the step (`Untied`). Then the eldest of
a list is unique and does not depend on its order, a new or returning member changes it only by being
elder, and one that is dropped without having been the master leaves it alone; a tie that the step itself brings in
does no harm, because `Seen` elects again. The other condition is `OneElects`: as long as a worker 0 of an
older configuration has a timer, `last` may be what that one elects. That such a timer belongs to no present
worker 0 is `PidsApart`: a pid is given once, is that of one generation or of one that drains, and a node
without workers has none that drain.

**Induction.** The induction theorems of the library take an operator as a parameter, which no installed
prover instantiates. `InductionLemmas` states the least-number principle for a *set* of numbers instead
and derives from it that a step function can be repeated (`Repeated`), that a finite set can be taken apart one
element at a time (`SubsetInduction`), and that sums over finite sets exist and are what they should be
(`SumsOf`, `SumMore`). A recursive function in a definition reaches the prover as a `CHOOSE`; `RunOf` shows that the chosen
one satisfies its equation. The walk of the election, the removal of members and the sum of the
counters are proved about in this way, for data of any size.

**Answered changes.** `AnsweredKept` speaks of the broker only; the reason it holds lies with
what is under way. `KeptInv` looks at the *positions* of the agent's link: position 0 is what the broker keeps
now, position `k` what the `k`-th message under way makes of it. An answer at position `j` claims that its
change is with the broker from one of the positions `0 .. j` on and that no later message undoes
it (`Claim(u, j)`, made of `ListedFrom`, `GoneFrom` and `ShownFrom`). The broker takes a message: every position
moves down by one (`Shift`), and the claim of an answer taken becomes `Claim(u, 0)`. The agent
sends: what it appends keeps the older claims because its own configuration shows
every answered setting, or will once it has read what the broker gave it on connecting, which comes before any
change (`AgentShows`, `AgentMail`, `AgentListed`). The link breaks: only position 0 is left, and a
location whose creation is lost with it goes to `torn`. The answer is sent after the
publication in the same callback, which is all that the claim of a new answer needs.

**No worker goes back.** A worker gets settings on two ways, retained ones when it connects and live ones later,
and a location may be deleted and created in between. `BackInv` orders what is on the way.
From the agent to the broker: the configurations under way never fall (`Falling`), the agent's own is
at least the last of them (`Ahead`), both except across the deletion of the location, and a configuration shows a dynamic
location only if the location itself was published before (`Backed`). From the broker to a
worker: of two configurations that the worker will take over the later one is not older (`Forward`), and
none is ahead of what the broker keeps (`Behind`), again except across a deletion. A deletion is
three messages, clear, delete and a configuration without it, sent in one piece (`Shape`); while the broker
is between the first and the last (`clearing`) its retained configuration still has the old setting, and
what saves a worker that connects then is that the location is not retained any more, so that it
has nowhere to put the setting (`Absent`). Each of the pure lemmas takes a way one step further: a message is appended
(`AddedWay`, `SentLink`), read (`ReadWay`, `TakenLink`), lost (`EmptyWay`), replayed (`NewWay`). The
strengthening holds on the 981 000 states of `kv_config`, where it was tried before it was proved.

**Only model-checked.** Liveness (`ShrinkEnds`, `ReloadEnds`, `TerminateEnds`, `QuitEnds`,
`AgentReplaced`, `NoLostWakeup`, `DeadOwnerFreed`, `Served`, `MembersSettle`, `MasterAgreed`,
`WorkersConverge`, and of `CalledOnce` that the handler is called at all): fairness and `ENABLED` are out of the
prover's reach.

## 10. Where the code and what is said of it disagree

* **A graceful stop may hang** (`master_quit_hang`). With `helper` directives that are all
  to be kept, `njt_restart_helper_processes()` returns their number although it starts
  none, and the reap that follows a reload therefore sets `live` to 1. If SIGQUIT has
  already arrived and that reap collects the last child, the master sleeps with no child left to wake it.
* **The upper bound of the worker count** (`master_count`). `MAX_DYN_WORKER_C` itself is valid at run time
  and overwritten at the next start or reload. `ValidCountKept` looks at the steps of the master that check the stored count,
  not at what others write in the meantime: with `<=` in place of `<` the same run passes.
* **A kept copilot without its directive** (`master_directive`). Between a reload and the end of the last
  reloadable copilot, `data` of a kept copilot may be NULL while the master
  sleeps. If the copilot dies in this window its respawn dereferences it in the master (`ReapCrash`).
* **Boot times that are equal** (`gossip_tie`). The comment says that the node name decides; the flag that says so
  is set by the first won comparison and never reset, so that every later member of the same boot time wins
  as well. Which master a node elects depends on the order of its list, and two masters stay for ever.

Consequences of the code that contradict no document, seen while modelling and
not counted as findings:

* Master: a shrink that never ends after a failed fork; a reload that
  never ends after a failed channel write to a copilot; an agent that is not tried again
  after a failed fork; after every worker has died fatally, a worker started by a count change is not `live`
  until the next reap. Mutex: a wake-up is lost with the process that dies before `sem_post()`.
* Zone: a node is deleted without a second look, so that two deletions of one key delete it twice; a reset
  zeroes slots without their locks, and a count that was being written comes back; a worker may count in
  a node that has been deleted; the lock of a dead holder stays for ever.
* Gossip: only the announcement after a start is repeated when the broker refuses it, at most ten times; a later one
  is not. After a reload the clean-up in the old worker 0 may drop the master without an election, because
  it elects with its old boot time (`njt_gossip_module.c:1619`, `1680`): a node that is left alone then goes on naming a
  master that is gone, and the `if off line is master member, need notify gossip topic` of `:1679` is not met.
* Dynamic configuration: a deletion is not retained, and a worker that is not connected at that moment keeps the
  location; a location that the agent added and whose publication was lost is refused as existing
  when it is added again. A location of the configuration file can be deleted, but not for later processes, which read
  it again from the file; requests to delete one are left out of the model.

## 11. What is not modelled

* Of the master: binary upgrade (USR2, WINCH), log reopening, the cache manager and loader, detached
  processes, debug points. Of the locks: the `fcntl` variant of the mutex, `njt_rwlock_downgrade()`,
  which nobody calls, and `njt_spinlock()`.
* Of the zone: groups, deletion and reset of everything, LRU deletion (off by default), display, dump and
  restore, limits, histograms.
* Of gossip: SYN and the data of the applications on top of it (cluster limits, token sync, app sticky),
  which replicate over the same datagrams without promises about loss; parsing.
* Of the dynamic configuration: rpcs that only read, topics of one worker, `kv_set` and the LMDB store, changes that do
  not parse, and the modules built on the same mechanism other than the two modelled.
* The CPU guard's decision, a computation on `/proc` samples; in `Master` the guard and the control API are
  `SetCount`, which may write any count at any time.
* Slab allocator, thread pool, channels: data structure code, or inherited from nginx unchanged; `VtsZone` and
  `Master` model what they do to their users.
* The configuration parser, the HTTP, stream, mail and event machinery,
  the copilots' own programs, health checks and the vendored libraries: they
  are I/O, data structure code or third-party code, and nothing of them is visible to the
  process core beyond what the models already let happen at any time.
