----------------------------- MODULE OwnedLock -----------------------------
(***************************************************************************)
(* What njt_shmtx promises to its callers: a lock with an owner.  It       *)
(* passes from one process to another only by way of being free; its owner *)
(* alone gives it back, and when the owner is dead, the master does.       *)
(***************************************************************************)
CONSTANTS Procs, NoProc     \* NoProc: not one of Procs

VARIABLES owner, dead

lockVars == <<owner, dead>>

Init == owner = NoProc /\ dead = {}

Acquire(p) == owner = NoProc /\ p \notin dead /\ owner' = p /\ UNCHANGED dead
Release(p) == owner = p /\ p \notin dead /\ owner' = NoProc /\ UNCHANGED dead
Die(p) == p \notin dead /\ dead' = dead \union {p} /\ UNCHANGED owner

(* The master takes the lock from a dead owner; a new process of that name *)
(* starts only when nothing is left of the old one.                        *)
Seize(p) == owner = p /\ p \in dead /\ owner' = NoProc /\ UNCHANGED dead
Replace(p) == p \in dead /\ owner # p /\ dead' = dead \ {p} /\ UNCHANGED owner

Next == \E p \in Procs : Acquire(p) \/ Release(p) \/ Die(p) \/ Seize(p) \/ Replace(p)

Spec == Init /\ [][Next]_lockVars
=============================================================================
