------------------------------ MODULE KvConfig ------------------------------
(***************************************************************************)
(* Dynamic configuration of a node (njt_http_kv_module.c, the sender of    *)
(* the API njt_http_sendmsg_module.c, and two users of them: the locations *)
(* that are added and deleted at run time, njt_http_location_module.c, and *)
(* a setting of every location, njt_http_dyn_header_module.c).             *)
(*                                                                         *)
(* The API sends a change as an rpc to the privileged agent, through the   *)
(* MQTT broker of the node.  The agent carries it out on its own           *)
(* configuration, publishes what the workers need and answers.  A setting  *)
(* is published as the agent's FULL configuration, retained: the broker    *)
(* keeps it for those who connect later.  A new location is published as   *)
(* itself, retained; a deletion clears that and is sent once, not          *)
(* retained.  Workers that start or come back get the retained messages    *)
(* first, the locations (/ins) before the settings (/dyn).                 *)
(*                                                                         *)
(* External: the broker and the TCP connections.  A connection keeps the   *)
(* order; when it breaks, what was not yet handed over is lost in both     *)
(* directions (QoS 0, no session kept).  The broker has read what a dead   *)
(* process left in its connection before the replacement subscribes.  The  *)
(* link of the API is not modelled apart: a request or an answer lost on   *)
(* it looks like one lost on the agent's.                                  *)
(*                                                                         *)
(* A setting is the id of the change that made it, 0 when it is the        *)
(* default.  Left out: rpcs that only read, topics for one worker, the     *)
(* kv_set topics and the LMDB store, changes that do not parse.            *)
(***************************************************************************)
EXTENDS Naturals, SequencesExt

CONSTANTS Agent,        \* the privileged agent
          Workers,
          Static,       \* locations of the configuration file
          Dynamic,      \* locations that may be added and deleted
          MaxChanges,   \* bound: changes sent by the API
          MaxTrouble    \* bound: broken connections and deaths of processes

Procs   == Workers \cup {Agent}
Locs    == Static \cup Dynamic
Ids     == 1 .. MaxChanges

ASSUME ProcsAreDistinct == Agent \notin Workers
ASSUME LocsAreDistinct == Static \cap Dynamic = {}
ASSUME BoundsAreNaturals == MaxChanges \in Nat /\ MaxTrouble \in Nat

VARIABLES
    conf,       \* per process: its locations, each with its setting
    linked,     \* per process: connected to the broker and subscribed
    inbox,      \* per process: messages on their way from the broker
    outbox,     \* the agent's messages on their way to the broker
    keptAdds,   \* broker: locations with a retained message under /ins
    keptFull,   \* broker: the full configuration retained under /dyn
    requests,   \* changes sent by the API; the id is the position
    sessions,   \* API: ids with a registered handler
    timers,     \* API: ids with a running timer
    calls,      \* API: how often the handler of an id was called
    trouble,
    answered,   \* history: changes whose success the API was told
    done,       \* history: changes the agent has carried out
    clearing,   \* history: deletions the broker has seen the beginning of
    torn        \* history: locations whose creation or deletion was cut off
                \* by a connection that broke

broker  == <<keptAdds, keptFull>>
api     == <<requests, sessions, timers, calls, answered>>
history == <<done, clearing, torn>>
vars    == <<conf, linked, inbox, outbox, broker, api, trouble, history>>

Confs == UNION {[S -> 0 .. MaxChanges] : S \in SUBSET Locs}

Add(l)      == [type |-> "add", loc |-> l]
Del(l)      == [type |-> "del", loc |-> l]
Clear(l)    == [type |-> "clear", loc |-> l]
Full(c)     == [type |-> "full", conf |-> c]
Rpc(u)      == [type |-> "rpc", id |-> u]
Reply(u, ok) == [type |-> "reply", id |-> u, ok |-> ok]

FileConf == [l \in Static |-> 0]    \* what a process starts with
Nothing  == [l \in {} |-> 0]

Init == /\ conf = [p \in Procs |-> FileConf]
        /\ linked = [p \in Procs |-> FALSE]
        /\ inbox = [p \in Procs |-> <<>>]
        /\ outbox = <<>>
        /\ keptAdds = {} /\ keptFull = Nothing
        /\ requests = <<>> /\ sessions = {} /\ timers = {}
        /\ calls = [u \in Ids |-> 0]
        /\ trouble = 0
        /\ answered = {} /\ done = {} /\ clearing = {} /\ torn = {}

-----------------------------------------------------------------------------
(* The API (njt_dyn_rpc).                                                  *)

(* Mutant: the session stays registered.                                   *)
InvokeKeepsSession(u) ==
    /\ timers' = timers \ {u}
    /\ calls' = IF u \in sessions
                THEN [calls EXCEPT ![u] = @ + 1] ELSE calls
    /\ UNCHANGED sessions

(* The handler of a session is called and the session and its timer are    *)
(* removed; a session that is not there any more is ignored.               *)
Invoke(u) == /\ sessions' = sessions \ {u}
             /\ timers' = timers \ {u}
             /\ calls' = IF u \in sessions
                         THEN [calls EXCEPT ![u] = @ + 1] ELSE calls

(* A change is sent to the agent; session and timer are set whether or not *)
(* the message went out.  Where the message that clears the retained one   *)
(* before it fails, there is no request, no session and no timer, and      *)
(* nothing changes.                                                        *)
SendRpc(op, l) ==
    LET u == Len(requests) + 1 IN
    /\ u \in Ids
    /\ requests' = Append(requests, [op |-> op, loc |-> l])
    /\ sessions' = sessions \cup {u}
    /\ timers' = timers \cup {u}
    /\ inbox' = IF linked[Agent]
                THEN [inbox EXCEPT ![Agent] = Append(@, Rpc(u))] ELSE inbox
    /\ UNCHANGED <<conf, linked, outbox, broker, calls, answered, trouble,
                   history>>

(* Requests to delete a location of the configuration file are left out.   *)
Change == \/ \E l \in Locs : SendRpc("put", l)
          \/ \E l \in Dynamic, op \in {"add", "del"} : SendRpc(op, l)

TimerFired(u) ==
    /\ u \in timers
    /\ Invoke(u)
    /\ UNCHANGED <<conf, linked, inbox, outbox, broker, requests, answered,
                   trouble, history>>

-----------------------------------------------------------------------------
(* The handlers of a process.                                              *)

AddLocation(c, l) == [x \in DOMAIN c \cup {l} |->
                         IF x \in DOMAIN c THEN c[x] ELSE 0]
DelLocation(c, l) == [x \in DOMAIN c \ {l} |-> c[x]]

(* Mutant: the list of locations is taken over too.                        *)
ApplyFullWhole(c, d) == d

(* A full configuration sets the locations that are there and skips those  *)
(* it cannot find.                                                         *)
ApplyFull(c, d) == [x \in DOMAIN c |-> IF x \in DOMAIN d THEN d[x] ELSE c[x]]

Apply(c, m) ==
    CASE m.type = "add"  -> AddLocation(c, m.loc)
      [] m.type = "del"  -> DelLocation(c, m.loc)
      [] m.type = "full" -> ApplyFull(c, m.conf)

(* What the agent makes of a change, and what it publishes, in this order. *)
(* Settings are published in full, also when the location was not found.   *)
Carried(c, u) == LET r == requests[u] IN
    CASE r.op = "put" /\ r.loc \in DOMAIN c -> [c EXCEPT ![r.loc] = u]
      [] r.op = "add" -> AddLocation(c, r.loc)
      [] r.op = "del" -> DelLocation(c, r.loc)
      [] OTHER        -> c

Possible(c, u) == (requests[u].loc \in DOMAIN c) # (requests[u].op = "add")

Published(c, u) == LET r == requests[u] IN
    CASE r.op = "put"                   -> <<Full(Carried(c, u))>>
      [] r.op = "add" /\ Possible(c, u) -> <<Add(r.loc)>>
      [] r.op = "del" /\ Possible(c, u) ->
            <<Clear(r.loc), Del(r.loc), Full(Carried(c, u))>>
      [] OTHER                          -> <<>>

(* Mutant: it answers before it publishes.                                 *)
SentAnswerFirst(c, u) ==
    <<Reply(u, Possible(c, u))>> \o Published(c, u)

Sent(c, u) == Published(c, u) \o <<Reply(u, Possible(c, u))>>

(* The agent handles an rpc in one callback: change, publication, answer.  *)
CarryOut ==
    /\ inbox[Agent] # <<>> /\ Head(inbox[Agent]).type = "rpc"
    /\ LET u == Head(inbox[Agent]).id IN
       /\ conf' = [conf EXCEPT ![Agent] = Carried(@, u)]
       /\ outbox' = outbox \o Sent(conf[Agent], u)
       /\ done' = IF Possible(conf[Agent], u) THEN done \cup {u} ELSE done
    /\ inbox' = [inbox EXCEPT ![Agent] = Tail(@)]
    /\ UNCHANGED <<linked, broker, api, trouble, clearing, torn>>

(* Any other message changes the configuration of the process only.        *)
Receive(p) ==
    /\ inbox[p] # <<>> /\ Head(inbox[p]).type # "rpc"
    /\ conf' = [conf EXCEPT ![p] = Apply(@, Head(inbox[p]))]
    /\ inbox' = [inbox EXCEPT ![p] = Tail(@)]
    /\ UNCHANGED <<linked, outbox, broker, api, trouble, history>>

-----------------------------------------------------------------------------
(* The broker takes the agent's next message.                              *)

(* Mutant: the subscription is made without no_local.                      *)
ListenersAll == {p \in Procs : linked[p]}

(* Everybody who is connected gets it, but not its sender (MQTT no_local). *)
Listeners == {p \in Workers : linked[p]}

Deliver(m) == inbox' = [p \in Procs |-> IF p \in Listeners
                                        THEN Append(inbox[p], m)
                                        ELSE inbox[p]]

Retain(m) ==
    /\ keptAdds' = CASE m.type = "add"   -> keptAdds \cup {m.loc}
                     [] m.type = "clear" -> keptAdds \ {m.loc}
                     [] OTHER            -> keptAdds
    /\ keptFull' = IF m.type = "full" THEN m.conf ELSE keptFull

RoutePublished ==
    /\ outbox # <<>> /\ Head(outbox).type # "reply"
    /\ LET m == Head(outbox) IN
       /\ Retain(m)
       /\ IF m.type = "clear" THEN UNCHANGED inbox ELSE Deliver(m)
       /\ clearing' = CASE m.type = "clear" -> clearing \cup {m.loc}
                        [] m.type = "full"  -> {}
                        [] OTHER            -> clearing
       /\ torn' = IF m.type = "del" /\ Listeners # Workers
                  THEN torn \cup {m.loc} ELSE torn
    /\ outbox' = Tail(outbox)
    /\ UNCHANGED <<conf, linked, api, trouble, done>>

RouteReply ==
    /\ outbox # <<>> /\ Head(outbox).type = "reply"
    /\ LET m == Head(outbox) IN
       /\ Invoke(m.id)
       /\ answered' = IF m.id \in sessions /\ m.ok
                      THEN answered \cup {m.id} ELSE answered
    /\ outbox' = Tail(outbox)
    /\ UNCHANGED <<conf, linked, inbox, broker, requests, trouble, history>>

(* Mutant: /dyn comes before /ins in the list of topics.                   *)
ReplayedSettingsFirst ==
    <<Full(keptFull)>> \o [i \in 1 .. Len(SetToSeq(keptAdds)) |->
                               Add(SetToSeq(keptAdds)[i])]

(* On connecting a process subscribes to its list of topics at once, and   *)
(* gets the retained messages in the order of that list.                   *)
Replayed == [i \in 1 .. Len(SetToSeq(keptAdds)) |->
                Add(SetToSeq(keptAdds)[i])] \o <<Full(keptFull)>>

Connect(p) ==
    /\ ~linked[p]
    /\ linked' = [linked EXCEPT ![p] = TRUE]
    /\ inbox' = [inbox EXCEPT ![p] = Replayed]
    /\ UNCHANGED <<conf, outbox, broker, api, trouble, history>>

-----------------------------------------------------------------------------
(* Trouble.                                                                *)

LocsOf(s, type) == {m.loc : m \in {x \in ToSet(s) : x.type = type}}

(* What is on its way to and from p is lost.                               *)
Cut(p) ==
    /\ trouble < MaxTrouble
    /\ trouble' = trouble + 1
    /\ linked' = [linked EXCEPT ![p] = FALSE]
    /\ inbox' = [inbox EXCEPT ![p] = <<>>]
    /\ outbox' = IF p = Agent THEN <<>> ELSE outbox
    /\ clearing' = IF p = Agent THEN {} ELSE clearing
    /\ UNCHANGED <<broker, api, done>>

(* Locations whose creation or deletion is lost with the connection of p.  *)
CutOff(p) == IF p = Agent
             THEN clearing \cup LocsOf(outbox, "add")
             ELSE LocsOf(inbox[p], "del")

Break(p) ==
    /\ linked[p]
    /\ Cut(p)
    /\ torn' = torn \cup CutOff(p)
    /\ UNCHANGED conf

(* The master starts another process in the place of one that died.        *)
Die(p) ==
    /\ Cut(p)
    /\ torn' = IF p = Agent THEN torn \cup clearing ELSE torn
    /\ conf' = [conf EXCEPT ![p] = FileConf]

(* What the event loops, the timers and the broker do by themselves.       *)
Progress == \/ \E u \in Ids : TimerFired(u)
            \/ CarryOut
            \/ \E p \in Procs : Receive(p) \/ Connect(p)
            \/ RoutePublished
            \/ RouteReply

Next == \/ Progress
        \/ Change
        \/ \E p \in Procs : Break(p) \/ Die(p)

(* A timer fires in the end, the event loops read what has arrived, the    *)
(* broker takes what was sent, and a process without connection tries      *)
(* again every second: as long as there is something to do, some of it is  *)
(* done.  Nothing of it can be repeated for ever, so that none starves.    *)
Fairness == WF_vars(Progress)

Spec == Init /\ [][Next]_vars /\ Fairness

-----------------------------------------------------------------------------
(* Properties.                                                             *)

(* The locations of the configuration file never go, a setting is the id   *)
(* of a change, and a session is registered exactly as long as its timer   *)
(* runs.                                                                   *)
TypeOK ==
    /\ conf \in [Procs -> Confs]
    /\ \A p \in Procs : Static \subseteq DOMAIN conf[p]
    /\ linked \in [Procs -> BOOLEAN]
    /\ keptAdds \subseteq Dynamic /\ keptFull \in Confs
    /\ requests \in Seq([op : {"put", "add", "del"}, loc : Locs])
    /\ sessions \subseteq DOMAIN requests /\ timers = sessions
    /\ answered \subseteq done /\ done \subseteq DOMAIN requests
    /\ clearing \subseteq Dynamic /\ torn \subseteq Dynamic
    /\ trouble \in 0 .. MaxTrouble

(* A later change of the same location has been carried out.               *)
Superseded(u, op) ==
    \E w \in done : /\ w > u
                    /\ requests[w] = [op |-> op, loc |-> requests[u].loc]

(* What the broker keeps for later workers shows change u.                 *)
Kept(u) == LET r == requests[u] IN
    CASE r.op = "put" -> \/ r.loc \in DOMAIN keptFull /\ keptFull[r.loc] >= u
                         \/ Superseded(u, "del")
      [] r.op = "add" -> r.loc \in keptAdds \/ Superseded(u, "del")
      [] r.op = "del" -> r.loc \notin keptAdds \/ Superseded(u, "add")

(* A change whose success the API was told is among what the broker keeps, *)
(* and stays there until a later one of the same location: no broken       *)
(* connection, no death of the agent and no other change, in whatever      *)
(* order they overlap, takes it away (njt_http_kv_module.c:875-905: the    *)
(* full configuration is sent before the answer is returned).              *)
AnsweredKept ==
    \A u \in answered : requests[u].loc \in torn \/ Kept(u)

(* A worker never goes back to an older setting of a location, however the *)
(* replayed and the live configurations meet; only a new process starts    *)
(* from the configuration file.                                            *)
NeverBack ==
    [][\A w \in Workers :
         \A l \in (DOMAIN conf[w] \cap DOMAIN conf'[w]) \ torn :
            conf'[w][l] < conf[w][l] => ~linked'[w] /\ conf'[w] = FileConf]_vars

(* Worker w has the configuration the broker keeps for newcomers.          *)
UpToDate(w) ==
    \A l \in Locs \ torn :
       /\ l \in DOMAIN conf[w] <=> l \in Static \cup keptAdds
       /\ l \in DOMAIN conf[w] =>
            conf[w][l] = IF l \in DOMAIN keptFull THEN keptFull[l] ELSE 0

(* When changes and trouble end, every worker, the one that was always     *)
(* connected, the one that came back and the one that started late, comes  *)
(* to the same configuration, the one the broker keeps; except for         *)
(* locations whose creation or deletion was torn by a broken connection.   *)
WorkersConverge == <>[](\A w \in Workers : UpToDate(w))

(* The caller of an rpc is called exactly once, by the answer or by the    *)
(* timer, whichever comes first, and a late answer finds nobody.           *)
CalledOnce == <>[](\A u \in DOMAIN requests : calls[u] = 1)

=============================================================================
