---------------------------- MODULE Shmtx_proofs ----------------------------
(***************************************************************************)
(* Proofs about the mutex of module Shmtx, for any finite set of processes *)
(* and any number of deaths: the lock always has the owner it should have, *)
(* so it excludes; it implements the lock of module OwnedLock; and no        *)
(* sleeper is ever without a credit but for those that processes took with *)
(* them which died between their unlock and its post.                      *)
(***************************************************************************)
EXTENDS Shmtx, FiniteSetTheorems, TLAPS

-----------------------------------------------------------------------------
(* The actions, cut at the state they can change: those of the lock word   *)
(* and those of the counters.  Every step is one of a process or of the    *)
(* master.                                                                 *)
StepOf(p) ==
  \/ TryLock(p) \/ Lock(p) \/ Acquire(p) \/ TryAgain(p) \/ Register(p)
  \/ Recheck(p) \/ Deregister(p) \/ Awake(p) \/ Unlock(p)
  \/ Crash(p) \/ ForceUnlock(p) \/ Respawn(p)

(* Next, with the steps of the wake-up sorted out: those a process and the *)
(* master share.                                                           *)
LEMMA NextCases ==
  ASSUME Next
  PROVE  \/ \E p \in Procs : StepOf(p)
         \/ \E a \in Actors : WakeNobody(a) \/ WakeOne(a) \/ Post(a)
  BY DEF Next, Step, StepOf, Wakeup, Actors

(* The type invariant is inductive.                                        *)
LEMMA TypeInit == Init => TypeOK
  BY ShmtxConstants DEF Init, TypeOK, Actors, Labels

LEMMA TypeNext == TypeOK /\ [Next]_vars => TypeOK'
<1> USE ShmtxConstants DEF TypeOK, Actors, Labels, Goto, deaths
<1> SUFFICES ASSUME TypeOK, [Next]_vars PROVE TypeOK'
    OBVIOUS
<1>1. CASE UNCHANGED vars
  BY <1>1 DEF vars
<1>2. ASSUME NEW p \in Procs, StepOf(p) PROVE TypeOK'
  <2>1. CASE TryLock(p) \/ Acquire(p) \/ Recheck(p)
    BY <2>1 DEF TryLock, Acquire, Recheck, CmpSet
  <2>2. CASE Lock(p) \/ TryAgain(p)
    BY <2>2 DEF Lock, TryAgain
  <2>3. CASE Register(p) \/ Deregister(p) \/ Awake(p)
    BY <2>3 DEF Register, Deregister, Awake
  <2>4. CASE Unlock(p)
    BY <2>4 DEF Unlock
  <2>5. CASE Crash(p) \/ Respawn(p)
    BY <2>5 DEF Crash, Respawn
  <2>6. CASE ForceUnlock(p)
    BY <2>6 DEF ForceUnlock
  <2> QED BY <1>2, <2>1, <2>2, <2>3, <2>4, <2>5, <2>6 DEF StepOf
<1>3. ASSUME NEW a \in Actors, WakeNobody(a) \/ WakeOne(a) \/ Post(a) PROVE TypeOK'
  BY <1>3 DEF WakeNobody, WakeOne, Post
<1> QED BY <1>1, <1>2, <1>3, NextCases

(* The lock word and the places of the processes always have their types.  *)
THEOREM TypeCorrect == Spec => []TypeOK
  BY TypeInit, TypeNext, PTL DEF Spec

-----------------------------------------------------------------------------
(* The owner is where it should be after every step: a compare and swap    *)
(* succeeds only on a free word, and the master takes the word only from   *)
(* the process whose death it has just collected.                          *)
LEMMA OwnedNext == TypeOK /\ LockIsOwned /\ [Next]_vars => LockIsOwned'
<1> USE ShmtxConstants DEF TypeOK, LockIsOwned, Holding, Actors, Goto
<1> SUFFICES ASSUME TypeOK, LockIsOwned, [Next]_vars PROVE LockIsOwned'
    OBVIOUS
<1>1. CASE UNCHANGED vars
  BY <1>1 DEF vars
<1>2. ASSUME NEW p \in Procs, StepOf(p) PROVE LockIsOwned'
  <2>1. CASE TryLock(p) \/ Acquire(p) \/ Recheck(p)
    BY <2>1 DEF TryLock, Acquire, Recheck, CmpSet
  <2>2. CASE Lock(p) \/ TryAgain(p) \/ Register(p) \/ Awake(p)
    BY <2>2 DEF Lock, TryAgain, Register, Awake
  <2>3. CASE Deregister(p)
    BY <2>3 DEF Deregister
  <2>4. CASE Unlock(p)
    BY <2>4 DEF Unlock
  <2>5. CASE Crash(p)
    BY <2>5 DEF Crash
  <2>6. CASE Respawn(p)
    BY <2>6 DEF Respawn
  <2>7. CASE ForceUnlock(p)
    BY <2>7 DEF ForceUnlock
  <2> QED BY <1>2, <2>1, <2>2, <2>3, <2>4, <2>5, <2>6, <2>7 DEF StepOf
<1>3. ASSUME NEW a \in Actors, WakeNobody(a) \/ WakeOne(a) \/ Post(a)
      PROVE  LockIsOwned'
  BY <1>3 DEF WakeNobody, WakeOne, Post
<1> QED BY <1>1, <1>2, <1>3, NextCases

(* A held lock has its holder, alive in the critical section or dead and   *)
(* not yet collected, and a process in the critical section has the lock.  *)
THEOREM OwnershipHolds == Spec => []LockIsOwned
<1>1. Init => LockIsOwned
  BY ShmtxConstants DEF Init, LockIsOwned, Holding, Actors
<1> QED BY <1>1, OwnedNext, TypeCorrect, PTL DEF Spec

(* Two processes are never in the critical section at once, deaths and the *)
(* master's njt_shmtx_force_unlock() included.                             *)
THEOREM Exclusion == Spec => []MutualExclusion
<1>1. LockIsOwned => MutualExclusion
  BY DEF LockIsOwned, MutualExclusion
<1> QED BY <1>1, OwnershipHolds, PTL

-----------------------------------------------------------------------------
(* The refinement: each step of the mutex is one of the owned lock or      *)
(* leaves owner and dead as they are.                                      *)
LEMMA StepRefines ==
  TypeOK /\ LockIsOwned /\ [Next]_vars => [Abstract!Next]_(Abstract!lockVars)
<1> USE ShmtxConstants DEF TypeOK, Actors, Goto, Labels, Abstract!lockVars
<1> SUFFICES ASSUME TypeOK, LockIsOwned, [Next]_vars
             PROVE  [Abstract!Next]_(Abstract!lockVars)
    OBVIOUS
<1>1. CASE UNCHANGED vars
  BY <1>1 DEF vars
<1>2. ASSUME NEW p \in Procs, StepOf(p) PROVE [Abstract!Next]_(Abstract!lockVars)
  <2>1. CASE TryLock(p) \/ Acquire(p) \/ (Recheck(p) /\ CmpSet(p))
    <3>1. Abstract!Acquire(p)
      BY <2>1 DEF TryLock, Acquire, Recheck, CmpSet, Abstract!Acquire
    <3> QED BY <3>1 DEF Abstract!Next
  <2>2. CASE \/ Lock(p) \/ TryAgain(p) \/ Register(p) \/ Deregister(p) \/ Awake(p)
             \/ (Recheck(p) /\ ~CmpSet(p))
    <3>1. UNCHANGED Abstract!lockVars
      BY <2>2 DEF Lock, TryAgain, Register, Deregister, Awake, Recheck
    <3> QED BY <3>1
  <2>3. CASE Unlock(p)
    <3>1. Abstract!Release(p)
      BY <2>3 DEF Unlock, Abstract!Release
    <3> QED BY <3>1 DEF Abstract!Next
  <2>4. CASE Crash(p)
    <3>1. Abstract!Die(p)
      BY <2>4 DEF Crash, Abstract!Die
    <3> QED BY <3>1 DEF Abstract!Next
  <2>5. CASE ForceUnlock(p)
    <3>1. lock = p => Abstract!Seize(p)
      BY <2>5 DEF ForceUnlock, Abstract!Seize
    <3>2. lock # p => UNCHANGED Abstract!lockVars
      BY <2>5 DEF ForceUnlock
    <3> QED BY <3>1, <3>2 DEF Abstract!Next
  <2>6. CASE Respawn(p)
    <3>1. Abstract!Replace(p)
      BY <2>6 DEF Respawn, LockIsOwned, Holding, Abstract!Replace
    <3> QED BY <3>1 DEF Abstract!Next
  <2> QED BY <1>2, <2>1, <2>2, <2>3, <2>4, <2>5, <2>6 DEF StepOf
<1>3. ASSUME NEW a \in Actors, WakeNobody(a) \/ WakeOne(a) \/ Post(a)
      PROVE  UNCHANGED Abstract!lockVars
  BY <1>3 DEF WakeNobody, WakeOne, Post
<1> QED BY <1>1, <1>2, <1>3, NextCases

(* njt_shmtx is a lock with an owner that only passes on by way of being   *)
(* free and that only the master may take from the dead.                   *)
THEOREM Refinement == Spec => ImplementsOwnedLock
<1>1. Init => Abstract!Init
  BY ShmtxConstants DEF Init, Abstract!Init, Actors
<1> QED BY <1>1, StepRefines, TypeCorrect, OwnershipHolds, PTL
        DEF Spec, ImplementsOwnedLock, Abstract!Spec

-----------------------------------------------------------------------------
(* Counting.  A process enters or leaves Waiters, or Posting, one at a     *)
(* time.                                                                   *)
LEMMA SetsFinite == IsFiniteSet(Waiters) /\ IsFiniteSet(Posting)
                    /\ Cardinality(Waiters) \in Nat /\ Cardinality(Posting) \in Nat
<1>1. IsFiniteSet(Actors)
  BY ShmtxConstants, FS_AddElement DEF Actors
<1>2. Waiters \subseteq Actors /\ Posting \subseteq Actors
  BY DEF Waiters, Posting, Actors
<1> QED BY <1>1, <1>2, FS_Subset, FS_CardinalityType

(* The same after a step, whose state has no other finiteness to rely on.  *)
LEMMA SetsFiniteNext == IsFiniteSet(Waiters') /\ IsFiniteSet(Posting')
                    /\ Cardinality(Waiters') \in Nat /\ Cardinality(Posting') \in Nat
<1>1. IsFiniteSet(Actors)
  BY ShmtxConstants, FS_AddElement DEF Actors
<1>2. Waiters' \subseteq Actors /\ Posting' \subseteq Actors
  BY DEF Waiters, Posting, Actors
<1> QED BY <1>1, <1>2, FS_Subset, FS_CardinalityType

(* The credits are inductive as they stand: each step that adds a waiter   *)
(* adds to `wait`, and a credit only changes its form until it is used.    *)
LEMMA CreditsNext ==
  ASSUME TypeOK, Credits, [Next]_vars
  PROVE  Credits'
<1> USE ShmtxConstants, SetsFinite, SetsFiniteNext DEF TypeOK, Actors, Labels, Goto, deaths
<1>0. wait \in Int /\ sem \in Int /\ lost \in Int
  OBVIOUS
<1>1. CASE UNCHANGED vars
  BY <1>1 DEF vars, Credits, Waiters, Posting
<1>2. ASSUME NEW p \in Procs, StepOf(p) PROVE Credits'
  <2>1. CASE \/ TryLock(p) \/ Acquire(p) \/ Recheck(p) \/ Lock(p) \/ TryAgain(p)
             \/ Unlock(p) \/ ForceUnlock(p) \/ Respawn(p)
    <3>1. Waiters' = Waiters
      BY <2>1 DEF TryLock, Acquire, Recheck, Lock, TryAgain, Unlock,
                  ForceUnlock, Respawn, Waiters
    <3>2. Posting' = Posting
      BY <2>1 DEF TryLock, Acquire, Recheck, Lock, TryAgain, Unlock,
                  ForceUnlock, Respawn, Posting
    <3>3. UNCHANGED <<wait, sem, lost>>
      BY <2>1 DEF TryLock, Acquire, Recheck, Lock, TryAgain, Unlock,
                  ForceUnlock, Respawn
    <3> QED BY <3>1, <3>2, <3>3 DEF Credits
  <2>2. CASE Register(p)
    <3>1. Waiters' = Waiters \union {p} /\ p \notin Waiters /\ Posting' = Posting
      BY <2>2 DEF Register, Waiters, Posting
    <3>2. Cardinality(Waiters') = Cardinality(Waiters) + 1
      BY <3>1, FS_AddElement
    <3>3. wait' = wait + 1 /\ sem' = sem /\ lost' = lost
      BY <2>2 DEF Register
    <3> QED BY <1>0, <3>1, <3>2, <3>3 DEF Credits
  <2>3. CASE Deregister(p) \/ Awake(p)
    <3>1. Waiters' = Waiters \ {p} /\ p \in Waiters /\ Posting' = Posting
      BY <2>3 DEF Deregister, Awake, Waiters, Posting
    <3>2. Cardinality(Waiters') = Cardinality(Waiters) - 1
      BY <3>1, FS_RemoveElement
    <3>3. wait' + sem' = wait + sem - 1 /\ lost' = lost
      BY <2>3, <1>0 DEF Deregister, Awake
    <3>4. Cardinality(Posting') = Cardinality(Posting)
      BY <3>1
    <3>5. Cardinality(Waiters') <= wait' + sem' + Cardinality(Posting') + lost'
      BY <1>0, <3>2, <3>3, <3>4 DEF Credits
    <3> QED BY <3>5 DEF Credits
  <2>4. CASE Crash(p)
    <3>1. Waiters' = Waiters \ {p}
      BY <2>4 DEF Crash, Waiters
    <3>2. Cardinality(Posting) + lost <= Cardinality(Posting') + lost'
      <4>1. CASE pc[p] = "post"
        <5>1. Posting' = Posting \ {p} /\ p \in Posting
          BY <2>4, <4>1 DEF Crash, Posting
        <5>2. Cardinality(Posting') = Cardinality(Posting) - 1
          BY <5>1, FS_RemoveElement
        <5>3. lost' = lost + 1
          BY <2>4, <4>1 DEF Crash
        <5> QED BY <1>0, <5>2, <5>3
      <4>2. CASE pc[p] # "post"
        <5>1. Posting' = Posting
          BY <2>4, <4>2 DEF Crash, Posting
        <5>2. lost' >= lost /\ lost' \in Nat
          BY <2>4 DEF Crash
        <5>3. Cardinality(Posting') = Cardinality(Posting)
          BY <5>1
        <5> HIDE DEF Posting
        <5> QED BY <1>0, <5>2, <5>3, SetsFinite
      <4> QED BY <4>1, <4>2
    <3>3. Cardinality(Waiters') <= Cardinality(Waiters)
      <4>1. Waiters \ {p} \subseteq Waiters
        OBVIOUS
      <4> QED BY <3>1, <4>1, FS_Subset
    <3>4. wait' = wait /\ sem' = sem /\ lost' \in Nat
      BY <2>4 DEF Crash
    <3>5. Cardinality(Waiters') <= wait' + sem' + Cardinality(Posting') + lost'
      BY <1>0, <3>2, <3>3, <3>4 DEF Credits
    <3> QED BY <3>5 DEF Credits
  <2> QED BY <1>2, <2>1, <2>2, <2>3, <2>4 DEF StepOf
<1>3. ASSUME NEW a \in Actors, WakeNobody(a) PROVE Credits'
  <2>1. Waiters' = Waiters /\ Posting' = Posting
    BY <1>3 DEF WakeNobody, Waiters, Posting
  <2> QED BY <1>3, <2>1 DEF WakeNobody, Credits
<1>4. ASSUME NEW a \in Actors, WakeOne(a) PROVE Credits'
  <2>1. Waiters' = Waiters /\ Posting' = Posting \union {a} /\ a \notin Posting
    BY <1>4 DEF WakeOne, Waiters, Posting
  <2>2. Cardinality(Posting') = Cardinality(Posting) + 1
    BY <2>1, FS_AddElement
  <2>3. wait' = wait - 1 /\ sem' = sem /\ lost' = lost
    BY <1>4 DEF WakeOne
  <2> QED BY <1>0, <2>1, <2>2, <2>3 DEF Credits
<1>5. ASSUME NEW a \in Actors, Post(a) PROVE Credits'
  <2>1. Waiters' = Waiters /\ Posting' = Posting \ {a} /\ a \in Posting
    BY <1>5 DEF Post, Waiters, Posting
  <2>2. Cardinality(Posting') = Cardinality(Posting) - 1
    BY <2>1, FS_RemoveElement
  <2>3. sem' = sem + 1 /\ wait' = wait /\ lost' = lost
    BY <1>5 DEF Post
  <2> QED BY <1>0, <2>1, <2>2, <2>3 DEF Credits
<1> QED BY <1>1, <1>2, <1>3, <1>4, <1>5, NextCases

(* No sleeper is without a credit, but for those lost with the processes   *)
(* that died between taking one off `wait` and sem_post(): the only window *)
(* that njt_shmtx_force_unlock() leaves open.                              *)
THEOREM CreditsHold == Spec => []Credits
<1>1. Init => Credits
  <2> SUFFICES ASSUME Init PROVE Credits
      OBVIOUS
  <2>1. Waiters = {} /\ Posting = {}
    BY ShmtxConstants DEF Init, Waiters, Posting, Actors
  <2> QED BY <2>1, FS_EmptySet DEF Init, Credits
<1>2. TypeOK /\ Credits /\ [Next]_vars => Credits'
  BY CreditsNext
<1> QED BY <1>1, <1>2, TypeCorrect, PTL DEF Spec
=============================================================================
