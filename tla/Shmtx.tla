------------------------------- MODULE Shmtx -------------------------------
(***************************************************************************)
(* njt_shmtx_t: the mutex of every shared memory zone, taken by worker and *)
(* copilot processes and taken from a dead process by the master.          *)
(*                                                                         *)
(* The lock word holds the pid of its owner and is only written by compare *)
(* and swap.  A process that finds it taken spins, and where there are     *)
(* POSIX semaphores it then counts itself in `wait`, looks once more and   *)
(* sleeps in sem_wait(); whoever unlocks takes one off `wait` and posts.   *)
(*                                                                         *)
(* One step per atomic access.  "*lock == 0 && cmp_set()" and the reread   *)
(* and cmp_set() of njt_shmtx_wakeup() are single steps: the plain read    *)
(* before the swap decides nothing that the swap does not decide again.    *)
(* The turns of the spin loop are repetitions of TryAgain.                 *)
(***************************************************************************)
EXTENDS Integers, FiniteSets

CONSTANTS
  Procs,        \* the processes that use the mutex
  NoProc,       \* the lock word 0
  Master,       \* the master process, which never locks
  Semaphore,    \* does sem_init() work (NJT_HAVE_POSIX_SEM)?
  CrashLabels,  \* where a process may die
  MaxCrash      \* bound: deaths

Labels == {"out", "lock", "register", "recheck", "deregister", "sleep",
           "critical", "wake", "post", "dead", "gone"}

ASSUME ShmtxConstants ==
  /\ IsFiniteSet(Procs) /\ NoProc \notin Procs
  /\ Master \notin Procs /\ Master # NoProc
  /\ Semaphore \in BOOLEAN
  /\ CrashLabels \subseteq Labels \ {"dead", "gone"}
  /\ MaxCrash \in Nat

VARIABLES
  lock,    \* *mtx->lock
  wait,    \* *mtx->wait, read as a signed number
  sem,     \* the value of mtx->sem
  pc,      \* where every process is
  crashes, \* deaths so far
  lost     \* deaths that may have taken a wake-up along: see Crash

deaths == <<crashes, lost>>
vars == <<lock, wait, sem, pc, crashes, lost>>

Actors == Procs \union {Master}

Init ==
  /\ lock = NoProc /\ wait = 0 /\ sem = 0
  /\ pc = [a \in Actors |-> "out"]
  /\ crashes = 0 /\ lost = 0

Goto(a, label) == pc' = [pc EXCEPT ![a] = label]

-----------------------------------------------------------------------------
(* Mutant: the word is read and then written, without a compare and swap.  *)
CmpSetBlind(p) == lock' = p
CmpSet(p) == lock = NoProc /\ lock' = p

(* njt_shmtx_trylock().                                                    *)
TryLock(p) ==
  /\ pc[p] = "out"
  /\ CmpSet(p)
  /\ Goto(p, "critical")
  /\ UNCHANGED <<wait, sem, deaths>>

(* njt_shmtx_lock().                                                       *)
Lock(p) ==
  /\ pc[p] = "out"
  /\ Goto(p, "lock")
  /\ UNCHANGED <<lock, wait, sem, deaths>>

Acquire(p) ==
  /\ pc[p] = "lock"
  /\ CmpSet(p)
  /\ Goto(p, "critical")
  /\ UNCHANGED <<wait, sem, deaths>>

(* Spinning was of no use.  Without a semaphore it goes on.                *)
TryAgain(p) ==
  /\ pc[p] = "lock" /\ lock # NoProc
  /\ IF Semaphore THEN Goto(p, "register") ELSE UNCHANGED pc
  /\ UNCHANGED <<lock, wait, sem, deaths>>

RegisterNothing(p) ==       \* mutant: sem_wait() without being counted
  /\ pc[p] = "register"
  /\ Goto(p, "recheck")
  /\ UNCHANGED <<lock, wait, sem, deaths>>
Register(p) ==
  /\ pc[p] = "register"
  /\ wait' = wait + 1
  /\ Goto(p, "recheck")
  /\ UNCHANGED <<lock, sem, deaths>>

RecheckNothing(p) ==        \* mutant: the second look is left out
  /\ pc[p] = "recheck"
  /\ Goto(p, "sleep")
  /\ UNCHANGED <<lock, wait, sem, deaths>>
Recheck(p) ==
  /\ pc[p] = "recheck"
  /\ \/ CmpSet(p) /\ Goto(p, "deregister")
     \/ lock # NoProc /\ Goto(p, "sleep") /\ UNCHANGED lock
  /\ UNCHANGED <<wait, sem, deaths>>

Deregister(p) ==
  /\ pc[p] = "deregister"
  /\ wait' = wait - 1
  /\ Goto(p, "critical")
  /\ UNCHANGED <<lock, sem, deaths>>

AwakeAlways(p) ==           \* mutant: a post is not waited for
  /\ pc[p] = "sleep"
  /\ sem' = sem - 1
  /\ Goto(p, "lock")
  /\ UNCHANGED <<lock, wait, deaths>>
Awake(p) ==                 \* sem_wait() returns
  /\ pc[p] = "sleep"
  /\ sem > 0 /\ sem' = sem - 1
  /\ Goto(p, "lock")
  /\ UNCHANGED <<lock, wait, deaths>>

(* njt_shmtx_unlock().                                                     *)
Unlock(p) ==
  /\ pc[p] = "critical" /\ lock = p
  /\ lock' = NoProc
  /\ Goto(p, "wake")
  /\ UNCHANGED <<wait, sem, deaths>>

(* njt_shmtx_wakeup().                                                     *)
WakeNobody(a) ==
  /\ pc[a] = "wake" /\ (wait <= 0 \/ ~Semaphore)
  /\ Goto(a, "out")
  /\ UNCHANGED <<lock, wait, sem, deaths>>

WakeOne(a) ==
  /\ pc[a] = "wake" /\ wait > 0 /\ Semaphore
  /\ wait' = wait - 1
  /\ Goto(a, "post")
  /\ UNCHANGED <<lock, sem, deaths>>

Post(a) ==
  /\ pc[a] = "post"
  /\ sem' = sem + 1
  /\ Goto(a, "out")
  /\ UNCHANGED <<lock, wait, deaths>>

-----------------------------------------------------------------------------
(* A process dies, wherever it is.  A wake-up may die with it: that of the *)
(* next process before its post, or its own when it has been awoken and    *)
(* has not yet taken the free lock.                                        *)
Crash(p) ==
  /\ pc[p] \in CrashLabels /\ crashes < MaxCrash
  /\ crashes' = crashes + 1
  /\ lost' = IF pc[p] \in {"wake", "post"} \/ (pc[p] = "lock" /\ lock = NoProc)
             THEN lost + 1 ELSE lost
  /\ Goto(p, "dead")
  /\ UNCHANGED <<lock, wait, sem>>

(* njt_process_get_status() -> njt_unlock_mutexes() ->                     *)
(* njt_shmtx_force_unlock() in the master.                                 *)
ForceUnlockAny(p) ==        \* mutant: whoever holds it loses the lock
  /\ pc[p] = "dead" /\ pc[Master] = "out"
  /\ lock' = NoProc
  /\ pc' = [pc EXCEPT ![p] = "gone", ![Master] = "wake"]
  /\ UNCHANGED <<wait, sem, deaths>>
ForceUnlockNothing(p) ==    \* mutant: the dead process keeps the lock
  /\ pc[p] = "dead" /\ pc[Master] = "out"
  /\ Goto(p, "gone")
  /\ UNCHANGED <<lock, wait, sem, deaths>>
ForceUnlock(p) ==
  /\ pc[p] = "dead" /\ pc[Master] = "out"
  /\ \/ /\ lock = p /\ lock' = NoProc
        /\ pc' = [pc EXCEPT ![p] = "gone", ![Master] = "wake"]
     \/ lock # p /\ Goto(p, "gone") /\ UNCHANGED lock
  /\ UNCHANGED <<wait, sem, deaths>>

(* The handler is over: njt_reap_children() starts a new process.          *)
Respawn(p) ==
  /\ pc[p] = "gone" /\ pc[Master] = "out"
  /\ Goto(p, "out")
  /\ UNCHANGED <<lock, wait, sem, deaths>>

Wakeup(a) == WakeNobody(a) \/ WakeOne(a) \/ Post(a)

Step(p) ==
  \/ Acquire(p) \/ TryAgain(p) \/ Register(p) \/ Recheck(p) \/ Deregister(p)
  \/ Awake(p) \/ Unlock(p) \/ Wakeup(p)

Next ==
  \/ \E p \in Procs : \/ TryLock(p) \/ Lock(p) \/ Step(p)
                      \/ Crash(p) \/ ForceUnlock(p) \/ Respawn(p)
  \/ Wakeup(Master)

Spec == Init /\ [][Next]_vars

(* A process that has begun goes on, critical sections are left, and the   *)
(* master handles its SIGCHLDs; nobody has to ask for the lock.            *)
FairSpec ==
  /\ Spec
  /\ \A p \in Procs : WF_vars(Step(p)) /\ WF_vars(ForceUnlock(p))
  /\ WF_vars(Wakeup(Master))

-----------------------------------------------------------------------------
(* The word is a pid or 0, and every process is somewhere.                 *)
TypeOK ==
  /\ lock \in Procs \union {NoProc}
  /\ wait \in Int /\ sem \in Nat
  /\ pc \in [Actors -> Labels] /\ pc[Master] \in {"out", "wake", "post"}
  /\ crashes \in Nat /\ lost \in Nat

Holding == {"critical", "deregister"}

(* Two processes are never in the critical section, nor is one whose lock  *)
(* the master has taken away while it was alive.                           *)
MutualExclusion ==
  \A p, q \in Procs : pc[p] \in Holding /\ pc[q] \in Holding => p = q

(* A held lock has a holder: a live one that is in the critical section or *)
(* a dead one whose status the master has not collected.                   *)
LockIsOwned ==
  \A p \in Procs : /\ lock = p => pc[p] \in Holding \union {"dead"}
                   /\ pc[p] \in Holding => lock = p

(* Every process between its registration and its awakening has a credit:  *)
(* a unit of `wait` somebody will turn into a post, a post on its way, or  *)
(* a unit of the semaphore.  The only thing that takes a credit away is a  *)
(* death between an unlock and its post, which the master's                *)
(* njt_shmtx_force_unlock() does not repair.                               *)
Waiters == {p \in Procs : pc[p] \in {"recheck", "deregister", "sleep"}}
Posting == {a \in Actors : pc[a] = "post"}
Credits == Cardinality(Waiters) <= wait + sem + Cardinality(Posting) + lost

(* No wake-up is lost: with the lock free, a sleeper does not sleep on,    *)
(* whoever dies registered, asleep, holding the lock or waiting for one    *)
(* that is held, as long as no death took a wake-up along.                 *)
NoLostWakeup ==
  (lost = 0 /\ lock = NoProc /\ \E p \in Procs : pc[p] = "sleep")
    ~> (lost > 0 \/ lock # NoProc \/ \A p \in Procs : pc[p] # "sleep")

(* The lock of a process that died in its critical section is given back.  *)
DeadOwnerFreed == \A p \in Procs : (lock = p /\ pc[p] = "dead") ~> lock # p

Abstract == INSTANCE OwnedLock
              WITH owner <- lock, dead <- {p \in Procs : pc[p] \in {"dead", "gone"}}

(* The mutex implements the lock with an owner.                            *)
ImplementsOwnedLock == Abstract!Spec
=============================================================================
