------------------------------ MODULE MCVtsZone ------------------------------
(* The locks of a zone, and their free values, for module VtsZone.  4096   *)
(* stands for 2^32: it must only be more than there can be readers.        *)
EXTENDS VtsZone

ZoneLocks == {Zone} \union SlotLocks
FreeWords == [l \in Locks |-> IF l = Zone THEN 4096 ELSE 0]
=============================================================================
