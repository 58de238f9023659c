------------------------------- MODULE Gossip -------------------------------
(***************************************************************************)
(* The gossip module of a cluster of NJet nodes: who is a member, and who  *)
(* is the master.                                                          *)
(*                                                                         *)
(* Every node multicasts ON when its worker 0 starts, HEARTBEAT from then  *)
(* on and OFF when it stops, and keeps, in shared memory, a list of the    *)
(* others it has heard of: itself first, then the others as they came.  A  *)
(* member is known by its node name and the pid of its worker 0, so a      *)
(* reload or the restart of worker 0 makes a new member beside the old     *)
(* one.  The master is the member that booted first; whoever sees it       *)
(* change tells the other modules of its node over the topic               *)
(* /gossip/nodeinfo.                                                       *)
(*                                                                         *)
(* The network delays and reorders datagrams at will and loses some.  A    *)
(* heartbeat says the same for as long as its sender lives, so it is sent  *)
(* and received in one step (Hear); `net` holds the datagrams that may     *)
(* arrive when things have changed: ON, OFF, the last heartbeat of a       *)
(* process that is gone, a heartbeat with an outdated pid.  Time is        *)
(* abstract: the clean timer may find a member that sends no more silent   *)
(* for too long at any time, and a live one only when heartbeats got lost. *)
(* A boot time is what the clock of the host shows when a configuration is *)
(* read, in ms: clocks of different hosts need not agree, and one may be   *)
(* set back.                                                               *)
(*                                                                         *)
(* A worker 0 that is told to quit closes its sockets but lives until its  *)
(* last connection is closed; a timer that is set by then still expires.   *)
(***************************************************************************)
EXTENDS Integers, FiniteSets, Sequences, SequencesExt

CONSTANTS
  N,           \* the nodes are 1..N; a greater number is a greater node_name
  Clusters,    \* what may be there to begin with: [up, boot, list, reloads,
               \* trouble], i.e. the nodes that run, when each has booted,
               \* the others it has heard of in the order they came, and
               \* (bound) what is taken off the two bounds below
  BootTimes,   \* what the clock of each may show at a start or reload
  MaxSend,     \* max_gossip_topic_send
  Reloading,   \* bound: the nodes that reload
  Restarting,  \* bound: the nodes that crash, stop and start
  MaxReload,   \* bound: reloads
  MaxTrouble   \* bound: crashes, stops, losses, failed announcements

Nodes == 1..N

ASSUME GossipConstants ==
  /\ N \in Nat \ {0} /\ MaxSend \in Nat /\ BootTimes \in [Nodes -> SUBSET Nat]
  /\ Reloading \subseteq Nodes /\ Restarting \subseteq Nodes
  /\ MaxReload \in Nat /\ MaxTrouble \in Nat
  /\ \A c \in Clusters :
       /\ c.up \subseteq Nodes /\ c.boot \in [Nodes -> Nat]
       /\ c.reloads \in 0..MaxReload /\ c.trouble \in 0..MaxTrouble
       /\ \A n \in c.up : c.list[n] \in Seq(c.up \ {n}) /\ IsInjective(c.list[n])

VARIABLES
  gens,     \* the generations of workers of a node, oldest first: [pid, boot]
  leaving,  \* generations that are draining
  cleaning, \* those of them whose nc_timer has not expired: [node, pid]
  cache,    \* pids the other workers of a node put into their messages
  list,     \* sh->members->next: <<[node, pid, boot], ...>>
  last,     \* sh->members->node_info.last_master_ip, as a node
  behind,   \* nodes whose topic does not say what `last` says
  waiting,  \* wait_master timers, with the tries left: [node, pid, left]
  net,      \* datagrams in flight: [to, kind, node, pid, boot]
  nextPid,
  reloads,  \* reloads so far
  trouble,  \* crashes, stops and losses so far
  fails,    \* announcements the broker did not take so far
  outdated  \* history: nodes that elected with a boot time not their present

workers == <<gens, leaving, cache, nextPid>>
timers == <<cleaning, waiting>>
vars == <<workers, timers, list, last, behind, net, reloads, trouble, fails, outdated>>

Alive == {n \in Nodes : gens[n] # <<>>}
Current(n) == gens[n][Len(gens[n])]

Members == [node : Nodes, pid : Nat, boot : Nat]
Member(n, g) == [node |-> n, pid |-> g.pid, boot |-> g.boot]
Same(e, f) == e.node = f.node /\ e.pid = f.pid

(* What generation g of node n multicasts; a node that is down listens to  *)
(* nothing.                                                                *)
Multicast(kind, n, g) ==
  {[to |-> m, kind |-> kind, node |-> n, pid |-> g.pid, boot |-> g.boot] :
     m \in Alive \ {n}}

Bad == trouble + fails < MaxTrouble
Trouble == Bad /\ trouble' = trouble + 1

-----------------------------------------------------------------------------
(* njt_gossip_get_master_node(): a walk along the list; `byName` is        *)
(* changed_by_nodename.  Mutant: the youngest wins.                        *)
PreferYoung(c, e) ==
  IF e.boot > c.boot THEN [member |-> e, byName |-> FALSE, boot |-> e.boot] ELSE c
Prefer(c, e) ==
  LET tie == e.boot = c.boot
      byName == c.byName \/ (tie /\ e.node > c.member.node)
  IN IF e.boot < c.boot \/ (tie /\ byName)
     THEN [member |-> e, boot |-> e.boot, byName |-> byName]
     ELSE [c EXCEPT !.byName = byName]

(* ... from the node itself, taken to have booted at `boot`.               *)
Candidates == [member : Members, boot : Nat, byName : BOOLEAN]
ElectFrom(self, boot, others) ==
  LET walk[i \in 0..Len(others)] ==
        IF i = 0 THEN [member |-> self, boot |-> boot, byName |-> FALSE]
        ELSE LET next[c \in Candidates] == Prefer(c, others[i])
             IN next[walk[i - 1]]
  IN walk[Len(others)].member
Elect(n, boot, others) == ElectFrom(Member(n, Current(n)), boot, others)

(* njt_gossip_send_master_info_to_gossip_topic(): last_master_ip is set    *)
(* first, and is not taken back when njt_kv_sendmsg() fails.               *)
Publish(n, master) ==
  /\ last' = [last EXCEPT ![n] = master.node]
  /\ \/ behind' = behind \ {n} /\ UNCHANGED fails
     \/ behind' = behind \union {n} /\ Bad /\ fails' = fails + 1
Quiet == UNCHANGED <<last, behind, fails>>

(* Node n has elected with these boot times.                               *)
With(n, boots) ==
  outdated' = IF boots = {Current(n).boot} THEN outdated ELSE outdated \union {n}

-----------------------------------------------------------------------------
(* njt_gossip_upd_member() for GOSSIP_ON and GOSSIP_HEARTBEAT.  The boot   *)
(* time of the node was read before the lock was taken: while a reload is  *)
(* under way it may be the old one.                                        *)
BootRead(n) == {gens[n][i].boot : i \in DOMAIN gens[n]}
SeenAppend(n, e) ==   \* mutant
  list' = [list EXCEPT ![n] = Append(@, e)] /\ Quiet /\ UNCHANGED outdated
Seen(n, e) ==
  /\ list' = [list EXCEPT ![n] =
                IF \E i \in DOMAIN @ : Same(@[i], e)
                THEN [i \in DOMAIN @ |-> IF Same(@[i], e) THEN e ELSE @[i]]
                ELSE Append(@, e)]
  /\ \E boot \in BootRead(n) :
       /\ With(n, {boot})
       /\ LET master == Elect(n, boot, list'[n])
          IN \/ last[n] # master.node /\ Publish(n, master)
             \/ last[n] = master.node /\ Quiet

(* Members `out` are dropped from the list; if the master is among them,   *)
(* the next is elected, with the boot time of the generation that does it. *)
(* Mutant: they are dropped and that is all.                               *)
Without(members, out) ==
  LET kept[i \in 0..Len(members)] ==
        IF i = 0 THEN <<>>
        ELSE IF members[i] \in out THEN kept[i - 1] ELSE Append(kept[i - 1], members[i])
  IN kept[Len(members)]
DropQuietly(n, g, out, boot) ==
  list' = [list EXCEPT ![n] = Without(@, out)] /\ Quiet /\ UNCHANGED outdated
Drop(n, g, out, boot) ==
  /\ list' = [list EXCEPT ![n] = Without(@, out)]
  /\ With(n, {boot, g.boot})
  /\ LET wasMaster == Elect(n, boot, list[n]) \in out
     IN \/ wasMaster /\ Publish(n, Elect(n, g.boot, list'[n]))
        \/ ~wasMaster /\ Quiet

(* njt_gossip_proc_package() in some worker of either generation: an ON is *)
(* answered, with the boot time of the generation and, by a worker that is *)
(* not worker 0, with the pid of a worker 0 that it has read at its first  *)
(* message; an OFF drops the sender.                                       *)
Deliver(msg) ==
  LET n == msg.to
      sender == [node |-> msg.node, pid |-> msg.pid, boot |-> msg.boot]
  IN
  /\ UNCHANGED <<workers, timers, reloads, trouble>>
  /\ \E i \in DOMAIN gens[n] :
       \/ /\ msg.kind = "ON"
          /\ \E pid \in {g.pid : g \in Range(gens[n])} \union cache[n] :
               net' = (net \ {msg})
                        \union Multicast("HEARTBEAT", n, [gens[n][i] EXCEPT !.pid = pid])
          /\ Seen(n, sender)
       \/ msg.kind = "HEARTBEAT" /\ net' = net \ {msg} /\ Seen(n, sender)
       \/ /\ msg.kind = "OFF" /\ net' = net \ {msg}
          /\ \E boot \in BootRead(n) :
               Drop(n, gens[n][i], {e \in Range(list[n]) : Same(e, msg)}, boot)

(* The heartbeat timer of a worker 0 of m: njt_gossip_send_handler() there *)
(* and njt_gossip_upd_member() here.                                       *)
Hear(n, m, g) ==
  /\ n \in Alive /\ n # m
  /\ UNCHANGED <<workers, timers, net, reloads, trouble>>
  /\ Seen(n, Member(m, g))

(* njt_gossip_node_clean_handler() of either generation.  A member that    *)
(* sends heartbeats is only dropped when they got lost.  Mutant: nobody    *)
(* but the first in the list is looked at.                                 *)
Sends(e) == \E i \in DOMAIN gens[e.node] : gens[e.node][i].pid = e.pid
SilentFirst(n) == {e \in {list[n][i] : i \in DOMAIN list[n] \intersect {1}} : ~Sends(e)}
Silent(n) == {e \in Range(list[n]) : ~Sends(e)}
CleanOut(n, out) ==
  /\ out # {}
  /\ UNCHANGED <<workers, timers, net, reloads>>
  /\ \E i \in DOMAIN gens[n] : Drop(n, gens[n][i], out, gens[n][i].boot)
Clean(n) == (\E out \in SUBSET Silent(n) : CleanOut(n, out)) /\ UNCHANGED trouble
CleanLive(n) ==
  /\ \E e \in Range(list[n]) : Sends(e) /\ CleanOut(n, {e})
  /\ Trouble

(* ... and of a worker 0 that is draining: once more, with the boot time   *)
(* of its configuration.                                                   *)
Timer(n, g) == [node |-> n, pid |-> g.pid]
LastClean(n) ==
  \E g \in leaving[n] :
    /\ Timer(n, g) \in cleaning /\ cleaning' = cleaning \ {Timer(n, g)}
    /\ UNCHANGED <<workers, waiting, net, reloads>>
    /\ \/ \E out \in SUBSET Silent(n) : Drop(n, g, out, g.boot) /\ UNCHANGED trouble
       \/ \E e \in Range(list[n]) : Sends(e) /\ Drop(n, g, {e}, g.boot) /\ Trouble

(* njt_gossip_wait_master_handler() of a worker 0, one that is draining    *)
(* included: once after its start, and again until the broker has taken it *)
(* or MaxSend repetitions have failed.                                     *)
Alarm(n, g) == [node |-> n, pid |-> g.pid, left |-> MaxSend]
WaitMaster(n) ==
  \E g \in Range(gens[n]) \union leaving[n], t \in waiting :
    /\ t.node = n /\ t.pid = g.pid
    /\ UNCHANGED <<workers, cleaning, list, net, reloads, trouble>>
    /\ With(n, {g.boot})
    /\ Publish(n, Elect(n, g.boot, list[n]))
    /\ waiting' = (waiting \ {t}) \union
                   IF n \in behind' /\ t.left > 0 THEN {[t EXCEPT !.left = @ - 1]} ELSE {}

-----------------------------------------------------------------------------
(* A worker 0 of another configuration; and a process that has exited has  *)
(* no timers.                                                              *)
New(boot) == [pid |-> nextPid, boot |-> boot]
NextPid == nextPid' = nextPid + 1
Off(timer, n, g) == {t \in timer : t.node # n \/ t.pid # g.pid}

(* gossip_start() of the worker 0 of a node that was down, with a new      *)
(* configuration and a new shared zone: add_self_to_memberslist().         *)
Start(n) ==
  /\ n \in Restarting \ Alive /\ NextPid
  /\ \E boot \in BootTimes[n] :
       /\ gens' = [gens EXCEPT ![n] = <<New(boot)>>]
       /\ waiting' = waiting \union {Alarm(n, New(boot))}
       /\ net' = net \union Multicast("ON", n, New(boot))
  /\ cache' = [cache EXCEPT ![n] = {}]
  /\ list' = [list EXCEPT ![n] = <<>>] /\ last' = [last EXCEPT ![n] = n]
  /\ behind' = behind \union {n}
  /\ UNCHANGED <<leaving, cleaning, reloads, trouble, fails, outdated>>

(* ... and of a reload: the list is kept, the boot time is that of the new *)
(* configuration, and another new worker may still read the old pid.       *)
Reload(n) ==
  /\ n \in Alive \intersect Reloading /\ Len(gens[n]) = 1 /\ NextPid
  /\ reloads < MaxReload /\ reloads' = reloads + 1
  /\ \E boot \in BootTimes[n] :
       /\ gens' = [gens EXCEPT ![n] = Append(@, New(boot))]
       /\ waiting' = waiting \union {Alarm(n, New(boot))}
       /\ net' = net \union Multicast("ON", n, New(boot))
  /\ cache' = [cache EXCEPT ![n] = {Current(n).pid}]
  /\ UNCHANGED <<leaving, cleaning, list, last, behind, trouble, fails, outdated>>

(* The old workers are told to quit.  No more heartbeats, and no datagram  *)
(* reaches them; gossip_stop() sends OFF when their last connection is     *)
(* closed.                                                                 *)
Drain(n) ==
  /\ Len(gens[n]) = 2
  /\ gens' = [gens EXCEPT ![n] = Tail(@)]
  /\ leaving' = [leaving EXCEPT ![n] = @ \union {Head(gens[n])}]
  /\ cleaning' = cleaning \union {Timer(n, Head(gens[n]))}
  /\ net' = net \union Multicast("HEARTBEAT", n, Head(gens[n]))
  /\ UNCHANGED <<cache, nextPid, waiting, list, last, behind, reloads, trouble, fails,
                 outdated>>
Leave(n) ==
  /\ \E g \in leaving[n] :
       /\ leaving' = [leaving EXCEPT ![n] = @ \ {g}]
       /\ cleaning' = Off(cleaning, n, g) /\ waiting' = Off(waiting, n, g)
       /\ net' = net \union Multicast("OFF", n, g)
  /\ UNCHANGED <<gens, cache, nextPid, list, last, behind, reloads, trouble, fails,
                 outdated>>

(* Worker 0 dies, and the master process starts another one with the       *)
(* configuration and the zone it had.                                      *)
Respawn(n) ==
  LET new == [Current(n) EXCEPT !.pid = nextPid] IN
  /\ n \in Alive \intersect Restarting /\ Trouble /\ NextPid
  /\ gens' = [gens EXCEPT ![n] = Append(Front(@), new)]
  /\ cache' = [cache EXCEPT ![n] = @ \union {Current(n).pid}]
  /\ waiting' = Off(waiting, n, Current(n)) \union {Alarm(n, new)}
  /\ net' = net \union Multicast("ON", n, new) \union Multicast("HEARTBEAT", n, Current(n))
  /\ UNCHANGED <<leaving, cleaning, list, last, behind, reloads, fails, outdated>>

(* The node goes, with gossip_stop() or without.                           *)
Down(n) ==
  /\ n \in Alive \intersect Restarting /\ Trouble
  /\ gens' = [gens EXCEPT ![n] = <<>>] /\ leaving' = [leaving EXCEPT ![n] = {}]
  /\ cache' = [cache EXCEPT ![n] = {}]
  /\ list' = [list EXCEPT ![n] = <<>>] /\ last' = [last EXCEPT ![n] = n]
  /\ behind' = behind \ {n} /\ outdated' = outdated \ {n}
  /\ cleaning' = {t \in cleaning : t.node # n}
  /\ waiting' = {t \in waiting : t.node # n}
  /\ LET kept == {msg \in net : msg.to # n} \union Multicast("HEARTBEAT", n, Current(n))
     IN net' = kept \/ net' = kept \union Multicast("OFF", n, Current(n))
  /\ UNCHANGED <<nextPid, reloads, fails>>

(* The network loses a datagram.                                           *)
Lose(msg) ==
  /\ Trouble /\ net' = net \ {msg}
  /\ UNCHANGED <<workers, timers, list, last, behind, reloads, fails, outdated>>

Init ==
  /\ \E c \in Clusters :
       /\ gens = [n \in Nodes |->
                   IF n \in c.up THEN <<[pid |-> n, boot |-> c.boot[n]]>> ELSE <<>>]
       /\ list = [n \in Nodes |->
                   IF n \in c.up
                   THEN [i \in DOMAIN c.list[n] |->
                          Member(c.list[n][i], Current(c.list[n][i]))]
                   ELSE <<>>]
       /\ reloads = c.reloads /\ trouble = c.trouble
  /\ last = [n \in Nodes |->
              IF n \in Alive THEN Elect(n, Current(n).boot, list[n]).node ELSE n]
  /\ behind = {n \in Alive : list[n] = <<>>} /\ outdated = {}
  /\ waiting = {Alarm(n, Current(n)) : n \in behind} /\ cleaning = {}
  /\ leaving = [n \in Nodes |-> {}] /\ cache = [n \in Nodes |-> {}]
  /\ net = {} /\ nextPid = N + 1 /\ fails = 0

Beat(n, m) == m \in Alive /\ Hear(n, m, Current(m))
OldBeat(n, m) == Len(gens[m]) = 2 /\ Hear(n, m, Head(gens[m]))

Next ==
  \/ \E msg \in net : Deliver(msg) \/ Lose(msg)
  \/ \E n, m \in Nodes : Beat(n, m) \/ OldBeat(n, m)
  \/ \E n \in Nodes : \/ Clean(n) \/ CleanLive(n) \/ LastClean(n) \/ WaitMaster(n)
                      \/ Start(n) \/ Reload(n) \/ Drain(n) \/ Leave(n)
                      \/ Respawn(n) \/ Down(n)

Spec == Init /\ [][Next]_vars

(* The timers of a node fire, old workers obey, a datagram that is not     *)
(* lost arrives, and so do heartbeats as long as one would tell somebody   *)
(* something new.  Nobody has to reload, to leave, to come back or to fail.*)
Timers == \E n \in Nodes : Clean(n) \/ WaitMaster(n)
Obey == \E n \in Nodes : Drain(n)
Arrival == \E msg \in net : Deliver(msg)
Beats == \E n, m \in Nodes : Beat(n, m)
FairSpec == Spec /\ WF_vars(Obey) /\ WF_vars(Timers \/ Arrival \/ Beats)

-----------------------------------------------------------------------------
(* Processes, members and datagrams have their types; no node is in its    *)
(* own list, and no member is in a list twice.                             *)
Gen == [pid : Nat, boot : Nat]
TypeOK ==
  /\ gens \in [Nodes -> Seq(Gen)] /\ leaving \in [Nodes -> SUBSET Gen]
  /\ cache \in [Nodes -> SUBSET Nat]
  /\ \A n \in Nodes :
       /\ Len(gens[n]) <= 2
       /\ list[n] \in Seq(Members) /\ \A e \in Range(list[n]) : e.node # n
       /\ \A i, j \in DOMAIN list[n] : Same(list[n][i], list[n][j]) => i = j
  /\ last \in [Nodes -> Nodes]
  /\ behind \subseteq Nodes /\ outdated \subseteq Nodes
  /\ cleaning \subseteq [node : Nodes, pid : Nat]
  /\ waiting \subseteq [node : Nodes, pid : Nat, left : 0..MaxSend]
  /\ net \subseteq [to : Nodes, kind : {"ON", "HEARTBEAT", "OFF"}, node : Nodes,
                    pid : Nat, boot : Nat]
  /\ nextPid \in Nat /\ reloads \in 0..MaxReload
  /\ trouble \in 0..MaxTrouble /\ fails \in 0..MaxTrouble

(* The master the nodes should settle on: the one that booted first and,   *)
(* of several, the one with the greatest name.                             *)
Eldest == CHOOSE n \in Alive : \A m \in Alive \ {n} :
            \/ Current(n).boot < Current(m).boot
            \/ Current(n).boot = Current(m).boot /\ n > m

(* Nobody else of node n elects: no worker 0 of an older configuration has *)
(* a timer.                                                                *)
OneElects(n) ==
  /\ Len(gens[n]) = 1
  /\ \A t \in cleaning \union waiting : t.node = n => t.pid = Current(n).pid

(* No two nodes that n knows of booted in the same millisecond.            *)
Untied(n) ==
  LET known == Range(list[n]) \union {Member(n, Current(n))}
  IN \A e, f \in known : e.boot = f.boot => e.node = f.node

(* A node that has recorded the master it elects goes on to do so,         *)
(* whatever members come, go, come late or are forgotten, and whether its  *)
(* worker 0 dies, from the end of one reload to the start of the next.     *)
Settled(n) == last[n] = Elect(n, Current(n).boot, list[n]).node
RecordKeepsUp ==
  [][\A n \in Nodes :
       OneElects(n) /\ Untied(n) /\ Settled(n) /\ Len(gens[n])' = 1 => Settled(n)']_vars

(* Every node ends up with the members that are there, each of them once,  *)
(* under the pid it has now: what late and lost datagrams, outdated pids   *)
(* and dead nodes left in a list goes away, and what they kept out of it   *)
(* comes in.                                                               *)
MembersSettle ==
  <>[]\A n \in Alive :
        /\ Len(list[n]) = Cardinality(Alive) - 1
        /\ \A m \in Alive \ {n} : \E e \in Range(list[n]) :
             Same(e, Member(m, Current(m)))

(* All nodes end up with the same master, the one that booted first, and   *)
(* with every topic saying so unless the broker refused an announcement.   *)
(* Only a node that is left alone may go on naming a master that is gone,  *)
(* and only if an older configuration of it had its say.                   *)
Agreed ==
  \A n \in Alive : /\ last[n] = Eldest \/ (Alive = {n} /\ n \in outdated)
                   /\ n \in behind => fails > 0
MasterAgreed == <>[]Agreed
=============================================================================
