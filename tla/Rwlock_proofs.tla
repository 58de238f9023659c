--------------------------- MODULE Rwlock_proofs ---------------------------
(***************************************************************************)
(* The read-write locks exclude and count, for any number of processes and *)
(* of locks.  The word alone decides who may enter, and WordCounts is what *)
(* ties it to the holders; together with Exclusion it is inductive.        *)
(***************************************************************************)
EXTENDS Rwlock, FiniteSetTheorems, TLAPS

LEMMA ReadersFinite ==
  ASSUME RwTypeOK, NEW l \in Locks
  PROVE  IsFiniteSet(Readers(l)) /\ Cardinality(Readers(l)) \in Nat
<1>1. Readers(l) \subseteq Procs
  BY DEF Readers
<1> QED BY <1>1, RwlockConstants, FS_Subset, FS_CardinalityType

(* No reader at all: the word is free or a writer's.                       *)
LEMMA NoReader ==
  ASSUME RwTypeOK, NEW l \in Locks, \A p \in Procs : hold[l][p] # "read"
  PROVE  Cardinality(Readers(l)) = 0
<1>1. Readers(l) = {}
  BY DEF Readers
<1> QED BY <1>1, FS_EmptySet

(* A free word: nobody holds the lock.                                     *)
LEMMA FreeMeansNobody ==
  ASSUME RwTypeOK, WordCounts, NEW l \in Locks, word[l] = Free[l], NEW p \in Procs
  PROVE  hold[l][p] = "none"
<1>1. ~Written(l)
  BY RwlockConstants DEF WordCounts, WLOCK
<1>2. Cardinality(Readers(l)) = 0
  <2>1. word[l] = Free[l] + Cardinality(Readers(l))
    BY <1>1 DEF WordCounts
  <2>2. Cardinality(Readers(l)) \in Nat /\ Free[l] \in Nat
    BY ReadersFinite, RwlockConstants
  <2> QED BY <2>1, <2>2
<1>3. Readers(l) = {}
  BY <1>2, ReadersFinite, FS_EmptySet
<1> QED BY <1>1, <1>3 DEF Readers, Written, RwTypeOK, Modes

LEMMA RwTypeNext ==
  ASSUME RwTypeOK, [RwNext]_rwVars, WordCounts
  PROVE  RwTypeOK'
<1> USE RwlockConstants DEF RwTypeOK, Modes, WLOCK
<1>1. CASE UNCHANGED rwVars
  BY <1>1 DEF rwVars
<1>2. ASSUME NEW p \in Procs, NEW l \in Locks, RdLock(p, l) PROVE RwTypeOK'
  BY <1>2 DEF RdLock, Grant
<1>3. ASSUME NEW p \in Procs, NEW l \in Locks, WrLock(p, l) PROVE RwTypeOK'
  BY <1>3 DEF WrLock, Grant
<1>4. ASSUME NEW p \in Procs, NEW l \in Locks, Unlock(p, l) PROVE RwTypeOK'
  <2>1. CASE word[l] = WLOCK
    BY <1>4, <2>1 DEF Unlock, Grant
  <2>2. CASE word[l] # WLOCK
    <3>1. ~Written(l) /\ p \in Readers(l)
      BY <1>4, <2>2 DEF Unlock, WordCounts, Readers, Written
    <3>2. Cardinality(Readers(l)) # 0
      BY <3>1, ReadersFinite, FS_EmptySet
    <3>3. word[l] - 1 \in Nat
      <4>1. word[l] = Free[l] + Cardinality(Readers(l))
        BY <3>1 DEF WordCounts
      <4>2. Cardinality(Readers(l)) \in Nat /\ Free[l] \in Nat
        BY ReadersFinite
      <4> HIDE DEF RwTypeOK
      <4> QED BY <4>1, <4>2, <3>2
    <3> QED BY <1>4, <2>2, <3>3 DEF Unlock, Grant
  <2> QED BY <2>1, <2>2
<1> QED BY <1>1, <1>2, <1>3, <1>4 DEF RwNext

LEMMA ExclusionNext ==
  ASSUME RwTypeOK, Exclusion, WordCounts, [RwNext]_rwVars
  PROVE  Exclusion'
<1> USE RwlockConstants DEF Exclusion, RwTypeOK, Modes
<1>1. CASE UNCHANGED rwVars
  BY <1>1 DEF rwVars
<1>2. ASSUME NEW p \in Procs, NEW l \in Locks, RdLock(p, l) PROVE Exclusion'
  <2>1. \A q \in Procs : hold[l][q] # "write"
    BY <1>2 DEF RdLock, WordCounts, Written
  <2> QED BY <1>2, <2>1 DEF RdLock, Grant
<1>3. ASSUME NEW p \in Procs, NEW l \in Locks, WrLock(p, l) PROVE Exclusion'
  <2>1. \A q \in Procs : hold[l][q] = "none"
    BY <1>3, FreeMeansNobody DEF WrLock
  <2> QED BY <1>3, <2>1 DEF WrLock, Grant
<1>4. ASSUME NEW p \in Procs, NEW l \in Locks, Unlock(p, l) PROVE Exclusion'
  BY <1>4 DEF Unlock, Grant
<1> QED BY <1>1, <1>2, <1>3, <1>4 DEF RwNext

(* What a step does to one lock, and that it leaves the others alone.      *)
LEMMA CountsNext ==
  ASSUME RwTypeOK, Exclusion, WordCounts, [RwNext]_rwVars
  PROVE  WordCounts'
<1> DEFINE Counts(l) == /\ Written(l) => word[l] = WLOCK
                        /\ ~Written(l) => word[l] = Free[l] + Cardinality(Readers(l))
<1>1. CASE UNCHANGED rwVars
  BY <1>1 DEF rwVars, WordCounts, Written, Readers
<1>2. ASSUME NEW p \in Procs, NEW l \in Locks, NEW value, NEW mode \in Modes,
             Grant(p, l, value, mode), Counts(l)'
      PROVE  WordCounts'
  <2>1. ASSUME NEW m \in Locks, m # l PROVE Counts(m)'
    <3>1. word'[m] = word[m] /\ hold'[m] = hold[m]
      BY <1>2, <2>1 DEF Grant, RwTypeOK
    <3>2. Readers(m)' = Readers(m) /\ Written(m)' = Written(m)
      BY <3>1 DEF Readers, Written
    <3> QED BY <3>1, <3>2 DEF WordCounts
  <2> QED BY <1>2, <2>1 DEF WordCounts
<1>3. ASSUME NEW p \in Procs, NEW l \in Locks, RdLock(p, l) PROVE WordCounts'
  <2>1. ~Written(l) /\ word[l] = Free[l] + Cardinality(Readers(l))
    BY <1>3 DEF RdLock, WordCounts
  <2>2. Readers(l)' = Readers(l) \union {p} /\ p \notin Readers(l)
    BY <1>3 DEF RdLock, Grant, Readers, RwTypeOK
  <2>3. Cardinality(Readers(l)') = Cardinality(Readers(l)) + 1
    BY <2>2, ReadersFinite, FS_AddElement
  <2>4. ~Written(l)'
    BY <1>3, <2>1 DEF RdLock, Grant, Written, RwTypeOK
  <2>5. word'[l] = word[l] + 1
    BY <1>3 DEF RdLock, Grant, RwTypeOK
  <2>6. Counts(l)'
    BY <2>1, <2>3, <2>4, <2>5, ReadersFinite, RwlockConstants
  <2> QED BY <1>2, <1>3, <2>6 DEF RdLock, Modes
<1>4. ASSUME NEW p \in Procs, NEW l \in Locks, WrLock(p, l) PROVE WordCounts'
  <2>1. Written(l)' /\ word'[l] = WLOCK
    BY <1>4 DEF WrLock, Grant, Written, RwTypeOK
  <2> QED BY <1>2, <1>4, <2>1 DEF WrLock, Modes
<1>5. ASSUME NEW p \in Procs, NEW l \in Locks, Unlock(p, l) PROVE WordCounts'
  <2>1. CASE hold[l][p] = "write"
    <3>1. word[l] = WLOCK /\ \A q \in Procs \ {p} : hold[l][q] = "none"
      BY <2>1 DEF WordCounts, Written, Exclusion, RwTypeOK, Modes
    <3>2. word'[l] = Free[l] /\ \A q \in Procs : hold'[l][q] = "none"
      BY <1>5, <3>1 DEF Unlock, Grant, RwTypeOK
    <3>3. Readers(l)' = {} /\ ~Written(l)'
      BY <3>2 DEF Readers, Written
    <3>4. Cardinality(Readers(l)') = 0
      BY <3>3, FS_EmptySet
    <3>5. Counts(l)'
      BY <3>2, <3>3, <3>4, RwlockConstants
    <3> QED BY <1>2, <1>5, <3>5 DEF Unlock, Modes
  <2>2. CASE hold[l][p] = "read"
    <3>1. ~Written(l) /\ word[l] = Free[l] + Cardinality(Readers(l))
      BY <2>2 DEF WordCounts, Written, Exclusion
    <3>2. Readers(l)' = Readers(l) \ {p} /\ p \in Readers(l)
      BY <1>5, <2>2 DEF Unlock, Grant, Readers, RwTypeOK
    <3>3. Cardinality(Readers(l)') = Cardinality(Readers(l)) - 1
      BY <3>2, ReadersFinite, FS_RemoveElement
    <3>4. word[l] # WLOCK
      BY <3>1, ReadersFinite, RwlockConstants DEF WLOCK
    <3>5. word'[l] = word[l] - 1 /\ ~Written(l)'
      BY <1>5, <3>1, <3>4 DEF Unlock, Grant, Written, RwTypeOK
    <3>6. Counts(l)'
      BY <3>1, <3>3, <3>5, ReadersFinite, RwlockConstants
    <3> QED BY <1>2, <1>5, <3>6 DEF Unlock, Modes
  <2> QED BY <1>5, <2>1, <2>2 DEF Unlock, RwTypeOK, Modes
<1> QED BY <1>1, <1>3, <1>4, <1>5 DEF RwNext

LEMMA RwInitial ==
  ASSUME RwInit
  PROVE  RwTypeOK /\ Exclusion /\ WordCounts
<1>1. RwTypeOK /\ Exclusion
  BY RwlockConstants DEF RwInit, RwTypeOK, Modes, Exclusion
<1>2. ASSUME NEW l \in Locks
      PROVE  ~Written(l) /\ word[l] = Free[l] + Cardinality(Readers(l))
  <2>1. Cardinality(Readers(l)) = 0
    BY <1>1, NoReader DEF RwInit
  <2> QED BY <2>1, RwlockConstants DEF RwInit, Written
<1> QED BY <1>1, <1>2 DEF WordCounts

(* The locks, used in any order by any number of processes, exclude, and   *)
(* their words count the holders.                                          *)
THEOREM LocksWork == RwSpec => [](RwTypeOK /\ Exclusion /\ WordCounts)
BY RwInitial, RwTypeNext, ExclusionNext, CountsNext, PTL DEF RwSpec
=============================================================================
