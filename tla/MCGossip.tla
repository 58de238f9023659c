------------------------------ MODULE MCGossip ------------------------------
(* Clusters and clocks for module Gossip.                                  *)
EXTENDS Gossip

(* Nodes that know each other.                                             *)
Others(up) == [n \in Nodes |-> SelectSeq([i \in Nodes |-> i], LAMBDA m : m \in up \ {n})]
Cluster(up, boot, reloaded, troubled) ==
  [up |-> up, boot |-> boot, list |-> Others(up), reloads |-> reloaded, trouble |-> troubled]

(* Two nodes, a reload of the master and one piece of trouble, in either   *)
(* order; three nodes and one of the two: a reload of the master, or       *)
(* trouble when the node that may crash is the master.                     *)
TwoOrThree == {Cluster({1, 2}, <<5, 6, 6>>, 0, 0),
               Cluster(Nodes, <<0, 1, 2>>, 0, 1), Cluster(Nodes, <<1, 0, 2>>, 1, 0)}

(* Three nodes that boot in the same millisecond and have not met.         *)
Equal == {[up |-> Nodes, boot |-> [n \in Nodes |-> 1], list |-> [n \in Nodes |-> <<>>],
           reloads |-> 0, trouble |-> 0]}

(* The clocks never show the same time on two hosts; where the nodes boot  *)
(* late, the clock of node 2 has been set back when it starts again.       *)
Clocks == <<{7}, {3}, {}>>
=============================================================================
