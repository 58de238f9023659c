------------------------------- MODULE Rwlock -------------------------------
(***************************************************************************)
(* njt_shrwlock_t and njt_rwlock: the spinning read-write locks of shared  *)
(* memory.                                                                 *)
(*                                                                         *)
(* The word of a lock is its free value plus the number of readers, or     *)
(* WLOCK (all ones).  Nothing in it says who holds the lock, there is no   *)
(* queue, and nobody takes the lock from a dead process.  The free value   *)
(* is 2^32 for the lock of a zone, which shares its word with the mutex of *)
(* the slab allocator, and 0 for the others.                               *)
(*                                                                         *)
(* A step is a compare and swap that succeeds, with the read before it;    *)
(* the attempts that fail change nothing.  Unlocking reads the word and    *)
(* then writes it: in one step here, since a reader never finds WLOCK and  *)
(* nobody else writes the word of a writer (WordCounts).                   *)
(***************************************************************************)
EXTENDS Integers, FiniteSets

CONSTANTS
  Procs,    \* the processes that use the locks
  Locks,    \* the locks
  Free      \* the free value of each of them

ASSUME RwlockConstants ==
  /\ IsFiniteSet(Procs)
  /\ Free \in [Locks -> Nat]

VARIABLES
  word,     \* *lock
  hold      \* what each process holds of each lock: not in the code

rwVars == <<word, hold>>

WLOCK == -1

Modes == {"none", "read", "write"}

RwInit ==
  /\ word = [l \in Locks |-> Free[l]]
  /\ hold = [l \in Locks |-> [p \in Procs |-> "none"]]

Grant(p, l, value, mode) ==
  /\ word' = [word EXCEPT ![l] = value]
  /\ hold' = [hold EXCEPT ![l][p] = mode]

(* njt_shrwlock_rdlock(), njt_rwlock_rlock().                              *)
RdLock(p, l) ==
  /\ hold[l][p] = "none" /\ word[l] # WLOCK
  /\ Grant(p, l, word[l] + 1, "read")

(* njt_shrwlock_wrlock(), njt_rwlock_wlock().                              *)
WrLockOverReaders(p, l) ==      \* mutant: only other writers are waited for
  /\ hold[l][p] = "none" /\ word[l] # WLOCK
  /\ Grant(p, l, WLOCK, "write")
WrLock(p, l) ==
  /\ hold[l][p] = "none" /\ word[l] = Free[l]
  /\ Grant(p, l, WLOCK, "write")

(* njt_shrwlock_unlock(), njt_rwlock_unlock(), for readers and writers.    *)
UnlockReader(p, l) ==           \* mutant: a writer unlocks as a reader does
  /\ hold[l][p] # "none"
  /\ Grant(p, l, word[l] - 1, "none")
Unlock(p, l) ==
  /\ hold[l][p] # "none"
  /\ Grant(p, l, IF word[l] = WLOCK THEN Free[l] ELSE word[l] - 1, "none")

RwNext == \E p \in Procs, l \in Locks : RdLock(p, l) \/ WrLock(p, l) \/ Unlock(p, l)

RwSpec == RwInit /\ [][RwNext]_rwVars

-----------------------------------------------------------------------------
RwTypeOK ==
  /\ word \in [Locks -> Nat \union {WLOCK}]
  /\ hold \in [Locks -> [Procs -> Modes]]

(* A writer, dead or alive, is alone: nobody reads or writes beside it.    *)
Exclusion ==
  \A l \in Locks : \A p, q \in Procs :
    hold[l][p] = "write" /\ hold[l][q] # "none" => p = q

(* The word counts the readers, those that died included, or says that     *)
(* there is a writer: an unlock never mistakes one for the other.          *)
Readers(l) == {p \in Procs : hold[l][p] = "read"}
Written(l) == \E p \in Procs : hold[l][p] = "write"
WordCounts ==
  \A l \in Locks :
    /\ Written(l) => word[l] = WLOCK
    /\ ~Written(l) => word[l] = Free[l] + Cardinality(Readers(l))
=============================================================================
