-------------------------- MODULE KvConfig_proofs ---------------------------
(***************************************************************************)
(* Proofs that an answered change stays with the broker (AnsweredKept),    *)
(* and that no worker goes back to an older setting (NeverBack), for any   *)
(* sets of workers and locations, any number of changes and any number of  *)
(* broken connections and deaths.                                          *)
(***************************************************************************)
EXTENDS KvConfig, FiniteSetTheorems, SequenceTheorems, TLAPS

-----------------------------------------------------------------------------
(* Types of what is under way.                                             *)
FullMsgs == [type : {"full"}, conf : Confs]
ToProc   == [type : {"add", "del"}, loc : Dynamic] \cup FullMsgs
              \cup [type : {"rpc"}, id : Ids]
FromProc == [type : {"add", "del", "clear"}, loc : Dynamic] \cup FullMsgs
              \cup [type : {"reply"}, id : Ids, ok : BOOLEAN]

RequestType ==
    /\ requests \in Seq([op : {"put", "add", "del"}, loc : Locs])
    /\ Len(requests) <= MaxChanges
    /\ \A u \in DOMAIN requests : requests[u].op # "put" => requests[u].loc \in Dynamic

(* The API only knows of changes that were sent, and of success only when  *)
(* there was one.                                                          *)
ApiType ==
    /\ calls \in [Ids -> Nat]
    /\ sessions \subseteq DOMAIN requests /\ timers = sessions
    /\ answered \subseteq done /\ done \subseteq DOMAIN requests
    /\ \A i \in DOMAIN outbox : outbox[i].type = "reply" /\ outbox[i].ok => outbox[i].id \in done
    /\ \A i \in DOMAIN inbox[Agent] :
         inbox[Agent][i].type = "rpc" => inbox[Agent][i].id \in DOMAIN requests

MailType == inbox \in [Procs -> Seq(ToProc)] /\ outbox \in Seq(FromProc)

BrokerType == keptAdds \subseteq Dynamic /\ IsFiniteSet(keptAdds) /\ keptFull \in Confs

ProcType ==
    /\ conf \in [Procs -> Confs]
    /\ \A p \in Procs : Static \subseteq DOMAIN conf[p]
    /\ linked \in [Procs -> BOOLEAN]
    /\ clearing \subseteq Dynamic /\ torn \subseteq Dynamic
    /\ trouble \in 0 .. MaxTrouble

Types == RequestType /\ ApiType /\ MailType /\ BrokerType /\ ProcType

-----------------------------------------------------------------------------
(* What the agent finds in its connection: locations, one configuration,   *)
(* then the changes it has not seen, in the order they were sent.  Without *)
(* a connection there is nothing.                                          *)
AgentMail ==
    /\ ~linked[Agent] => inbox[Agent] = <<>> /\ outbox = <<>>
    /\ \A i \in DOMAIN inbox[Agent] : inbox[Agent][i].type # "del"
    /\ \A i, j \in DOMAIN inbox[Agent] :
         i < j /\ inbox[Agent][i].type \in {"full", "rpc"} =>
           /\ inbox[Agent][j].type = "rpc"
           /\ inbox[Agent][i].type = "rpc" => inbox[Agent][i].id < inbox[Agent][j].id
    /\ \A i \in DOMAIN inbox[Agent], w \in done :
         inbox[Agent][i].type = "rpc" => w < inbox[Agent][i].id

(* Position 0 is the state of the broker, position k > 0 what the k-th     *)
(* message under way makes of it.  From one of the positions 0 .. k on ... *)
(* ... location l is among the retained ones,                              *)
ListedFrom(l, k) ==
    \E i \in 0 .. k :
      /\ IF i = 0 THEN l \in keptAdds ELSE outbox[i] = Add(l)
      /\ \A m \in DOMAIN outbox : m > i => outbox[m] # Clear(l)

(* ... it is not,                                                          *)
GoneFrom(l, k) ==
    \E i \in 0 .. k :
      /\ IF i = 0 THEN l \notin keptAdds ELSE outbox[i] = Clear(l)
      /\ \A m \in DOMAIN outbox : m > i => outbox[m] # Add(l)

(* ... every full configuration has setting u or a later one.              *)
Shows(c, u) == requests[u].loc \in DOMAIN c /\ c[requests[u].loc] >= u

ShownFrom(u, k) ==
    \E i \in 0 .. k :
      /\ IF i = 0 THEN Shows(keptFull, u)
         ELSE outbox[i].type = "full" /\ Shows(outbox[i].conf, u)
      /\ \A m \in DOMAIN outbox :
           m > i /\ outbox[m].type = "full" => Shows(outbox[m].conf, u)

(* The agent has setting u when it carries out its next change, also if it *)
(* has yet to read what the broker kept.                                   *)
AgentShows(u) ==
    \/ ~linked[Agent]
    \/ /\ Shows(conf[Agent], u)
       /\ \A i \in DOMAIN inbox[Agent] : inbox[Agent][i].type # "full"
    \/ \E i \in DOMAIN inbox[Agent] :
         /\ inbox[Agent][i].type = "full" /\ Shows(inbox[Agent][i].conf, u)
         /\ \/ requests[u].loc \in DOMAIN conf[Agent]
            \/ \E m \in DOMAIN inbox[Agent] :
                 m < i /\ inbox[Agent][m] = Add(requests[u].loc)

(* Change u is with the broker from position k on.                         *)
Lost(u, op) == requests[u].loc \in torn \/ Superseded(u, op)

Claim(u, k) ==
    LET l == requests[u].loc IN
    CASE requests[u].op = "put" ->
           \/ Lost(u, "del")
           \/ /\ ShownFrom(u, k) /\ AgentShows(u)
              /\ l \in Static \/ ListedFrom(l, k)
      [] requests[u].op = "add" -> Lost(u, "del") \/ ListedFrom(l, k)
      [] requests[u].op = "del" -> Lost(u, "add") \/ GoneFrom(l, k)

AnswersClaim ==
    /\ \A u \in answered : Claim(u, 0)
    /\ \A j \in DOMAIN outbox :
         outbox[j].type = "reply" /\ outbox[j].ok => Claim(outbox[j].id, j)

(* The dynamic locations of the agent, those it is about to read included, *)
(* are or will be retained.                                                *)
AgentListed ==
    \A l \in Dynamic \ torn :
      (l \in DOMAIN conf[Agent] \/ \E i \in DOMAIN inbox[Agent] : inbox[Agent][i] = Add(l))
        => ListedFrom(l, Len(outbox))

KeptInv == Types /\ AgentMail /\ AgentListed /\ AnswersClaim

-----------------------------------------------------------------------------
(* Sequences.                                                              *)
LEMMA Joined ==
  ASSUME NEW S, NEW s \in Seq(S), NEW t \in Seq(S), NEW m \in S,
         Len(t) = Len(s) + 1, t[Len(t)] = m, \A i \in 1 .. Len(s) : t[i] = s[i]
  PROVE  s \o <<m>> = t
<1>1. <<m>> \in Seq(S) /\ Len(<<m>>) = 1 /\ <<m>>[1] = m
  OBVIOUS
<1>2. s \o <<m>> \in Seq(S) /\ Len(s \o <<m>>) = Len(t)
      /\ \A i \in 1 .. Len(t) : (s \o <<m>>)[i] = IF i <= Len(s) THEN s[i] ELSE <<m>>[i - Len(s)]
  BY <1>1, ConcatProperties
<1>3. \A i \in 1 .. Len(t) : (s \o <<m>>)[i] = t[i]
  BY <1>1, <1>2
<1> QED BY <1>2, <1>3, SeqEqual

LEMMA JoinedPair ==
  ASSUME NEW a, NEW b
  PROVE  <<a>> \o <<b>> = <<a, b>>
<1> DEFINE S == {a, b}
           s == <<a>>
           t == <<a, b>>
<1>1. s \in Seq(S) /\ t \in Seq(S) /\ b \in S
  OBVIOUS
<1>2. Len(s) = 1 /\ Len(t) = 2 /\ t[2] = b
      /\ \A i \in 1 .. 1 : t[i] = s[i]
  OBVIOUS
<1> HIDE DEF S, s, t
<1>3. Len(t) = Len(s) + 1 /\ t[Len(t)] = b /\ \A i \in 1 .. Len(s) : t[i] = s[i]
  BY <1>2
<1>4. s \o <<b>> = t
  BY <1>1, <1>3, Joined
<1> QED BY <1>4 DEF s, t

LEMMA JoinedFour ==
  ASSUME NEW a, NEW b, NEW c, NEW d
  PROVE  <<a, b, c>> \o <<d>> = <<a, b, c, d>>
<1> DEFINE S == {a, b, c, d}
           s == <<a, b, c>>
           t == <<a, b, c, d>>
<1>1. s \in Seq(S) /\ t \in Seq(S) /\ d \in S
  OBVIOUS
<1>2. Len(s) = 3 /\ Len(t) = 4 /\ t[4] = d
      /\ \A i \in 1 .. 3 : t[i] = s[i]
  OBVIOUS
<1> HIDE DEF S, s, t
<1>3. Len(t) = Len(s) + 1 /\ t[Len(t)] = d /\ \A i \in 1 .. Len(s) : t[i] = s[i]
  BY <1>2
<1>4. s \o <<d>> = t
  BY <1>1, <1>3, Joined
<1> QED BY <1>4 DEF s, t

LEMMA JoinedOne == ASSUME NEW a PROVE <<>> \o <<a>> = <<a>>
OBVIOUS

LEMMA Pair ==
  ASSUME NEW S, NEW a \in S, NEW b \in S, NEW s, s = <<a, b>>
  PROVE  s \in Seq(S) /\ Len(s) = 2 /\ DOMAIN s = 1 .. 2 /\ s[1] = a /\ s[2] = b
OBVIOUS

LEMMA Four ==
  ASSUME NEW S, NEW a \in S, NEW b \in S, NEW c \in S, NEW d \in S, NEW s, s = <<a, b, c, d>>
  PROVE  /\ s \in Seq(S) /\ Len(s) = 4 /\ DOMAIN s = 1 .. 4
         /\ s[1] = a /\ s[2] = b /\ s[3] = c /\ s[4] = d
OBVIOUS

LEMMA OneElem == ASSUME NEW a, NEW s, s = <<a>>, NEW i \in DOMAIN s PROVE s[i] = a
OBVIOUS

LEMMA PairElems ==
  ASSUME NEW a, NEW b, NEW s, s = <<a, b>>, NEW i \in DOMAIN s
  PROVE  s[i] = a \/ s[i] = b
OBVIOUS

LEMMA FourElems ==
  ASSUME NEW a, NEW b, NEW c, NEW d, NEW s, s = <<a, b, c, d>>, NEW i \in DOMAIN s
  PROVE  s[i] = a \/ s[i] = b \/ s[i] = c \/ s[i] = d
OBVIOUS

LEMMA FromSet ==
  ASSUME NEW S, NEW T, S \subseteq T, NEW s \in Seq(S)
  PROVE  s \in Seq(T) /\ \A i \in DOMAIN s : s[i] \in S
BY SeqMonotonic

-----------------------------------------------------------------------------
(* Configurations.                                                         *)
LEMMA ConfsMember ==
  ASSUME NEW c
  PROVE  c \in Confs <=> /\ c = [x \in DOMAIN c |-> c[x]]
                         /\ DOMAIN c \subseteq Locs
                         /\ \A x \in DOMAIN c : c[x] \in 0 .. MaxChanges
<1>1. ASSUME c \in Confs
      PROVE  /\ c = [x \in DOMAIN c |-> c[x]] /\ DOMAIN c \subseteq Locs
             /\ \A x \in DOMAIN c : c[x] \in 0 .. MaxChanges
  <2>1. PICK S \in SUBSET Locs : c \in [S -> 0 .. MaxChanges]
    BY <1>1 DEF Confs
  <2> QED BY <2>1
<1>2. ASSUME c = [x \in DOMAIN c |-> c[x]], DOMAIN c \subseteq Locs,
             \A x \in DOMAIN c : c[x] \in 0 .. MaxChanges
      PROVE  c \in Confs
  <2>1. c \in [DOMAIN c -> 0 .. MaxChanges]
    BY <1>2
  <2> QED BY <1>2, <2>1 DEF Confs
<1> QED BY <1>1, <1>2

LEMMA InitialConfs ==
  FileConf \in Confs /\ Nothing \in Confs /\ DOMAIN FileConf = Static
<1>1. FileConf = [x \in DOMAIN FileConf |-> FileConf[x]] /\ DOMAIN FileConf = Static
      /\ \A x \in Static : FileConf[x] = 0
  BY DEF FileConf
<1>2. Nothing = [x \in DOMAIN Nothing |-> Nothing[x]] /\ DOMAIN Nothing = {}
  BY DEF Nothing
<1>3. 0 \in 0 .. MaxChanges
  BY BoundsAreNaturals
<1> QED BY <1>1, <1>2, <1>3, ConfsMember DEF Locs

LEMMA ApplyConf ==
  ASSUME NEW c \in Confs, NEW m \in ToProc, m.type # "rpc", Static \subseteq DOMAIN c
  PROVE  Apply(c, m) \in Confs /\ Static \subseteq DOMAIN Apply(c, m)
<1> USE BoundsAreNaturals, LocsAreDistinct DEF Locs
<1>1. CASE m.type = "add"
  <2>1. m.loc \in Dynamic /\ Apply(c, m) = AddLocation(c, m.loc)
    BY <1>1 DEF ToProc, FullMsgs, Apply
  <2> QED BY <2>1, ConfsMember DEF AddLocation
<1>2. CASE m.type = "del"
  <2>1. m.loc \in Dynamic /\ Apply(c, m) = DelLocation(c, m.loc)
    BY <1>2 DEF ToProc, FullMsgs, Apply
  <2> QED BY <2>1, ConfsMember DEF DelLocation
<1>3. CASE m.type = "full"
  <2>1. m.conf \in Confs /\ Apply(c, m) = ApplyFull(c, m.conf)
    BY <1>3 DEF ToProc, FullMsgs, Apply
  <2> QED BY <2>1, ConfsMember DEF ApplyFull
<1> QED BY <1>1, <1>2, <1>3 DEF ToProc, FullMsgs

-----------------------------------------------------------------------------
(* A change that was sent.                                                 *)
LEMMA RequestOf ==
  ASSUME RequestType, NEW u \in DOMAIN requests
  PROVE  /\ u \in Ids /\ u \in Nat /\ u >= 1 /\ u <= Len(requests)
         /\ requests[u].op \in {"put", "add", "del"} /\ requests[u].loc \in Locs
         /\ requests[u].op # "put" => requests[u].loc \in Dynamic
<1> DEFINE R == [op : {"put", "add", "del"}, loc : Locs]
<1>1. requests \in Seq(R) /\ Len(requests) <= MaxChanges
      /\ (requests[u].op # "put" => requests[u].loc \in Dynamic)
  BY DEF RequestType
<1> HIDE DEF R
<1>2. u \in 1 .. Len(requests) /\ Len(requests) \in Nat /\ requests[u] \in R
  BY <1>1
<1> QED BY <1>1, <1>2, BoundsAreNaturals DEF Ids, R

(* What the agent makes of change u, operation by operation.               *)
LEMMA CarriedCases ==
  ASSUME RequestType, NEW u \in DOMAIN requests, NEW c
  PROVE  /\ requests[u].op = "put" =>
              /\ Possible(c, u) <=> requests[u].loc \in DOMAIN c
              /\ Carried(c, u) = IF Possible(c, u) THEN [c EXCEPT ![requests[u].loc] = u]
                                 ELSE c
              /\ Sent(c, u) = <<Full(Carried(c, u)), Reply(u, Possible(c, u))>>
         /\ requests[u].op = "add" =>
              /\ requests[u].loc \in Dynamic
              /\ Possible(c, u) <=> requests[u].loc \notin DOMAIN c
              /\ Carried(c, u) = AddLocation(c, requests[u].loc)
              /\ Sent(c, u) = IF Possible(c, u) THEN <<Add(requests[u].loc), Reply(u, TRUE)>>
                              ELSE <<Reply(u, FALSE)>>
         /\ requests[u].op = "del" =>
              /\ requests[u].loc \in Dynamic
              /\ Possible(c, u) <=> requests[u].loc \in DOMAIN c
              /\ Carried(c, u) = DelLocation(c, requests[u].loc)
              /\ Sent(c, u) = IF Possible(c, u)
                              THEN <<Clear(requests[u].loc), Del(requests[u].loc),
                                     Full(Carried(c, u)), Reply(u, TRUE)>>
                              ELSE <<Reply(u, FALSE)>>
<1> DEFINE l == requests[u].loc
           op == requests[u].op
<1>1. u \in Nat /\ op \in {"put", "add", "del"} /\ (op # "put" => l \in Dynamic)
  BY RequestOf
<1>2. CASE op = "put"
  <2>1. Possible(c, u) <=> l \in DOMAIN c
    BY <1>2 DEF Possible
  <2>2. Carried(c, u) = IF l \in DOMAIN c THEN [c EXCEPT ![l] = u] ELSE c
    BY <1>2 DEF Carried
  <2>3. Published(c, u) = <<Full(Carried(c, u))>>
    BY <1>2 DEF Published
  <2>4. Sent(c, u) = <<Full(Carried(c, u)), Reply(u, Possible(c, u))>>
    BY <2>3, JoinedPair DEF Sent
  <2> QED BY <1>2, <2>1, <2>2, <2>4
<1>3. CASE op = "add"
  <2>1. Possible(c, u) <=> l \notin DOMAIN c
    BY <1>3 DEF Possible
  <2>2. Carried(c, u) = AddLocation(c, l)
    BY <1>3 DEF Carried
  <2>3. Published(c, u) = IF Possible(c, u) THEN <<Add(l)>> ELSE <<>>
    BY <1>3 DEF Published
  <2>4. Sent(c, u) = IF Possible(c, u) THEN <<Add(l), Reply(u, TRUE)>> ELSE <<Reply(u, FALSE)>>
    <3>1. Possible(c, u) = TRUE \/ Possible(c, u) = FALSE
      BY DEF Possible
    <3>2. CASE Possible(c, u) = TRUE
      BY <2>3, <3>2, JoinedPair DEF Sent
    <3>3. CASE Possible(c, u) = FALSE
      BY <2>3, <3>3, JoinedOne DEF Sent
    <3> QED BY <3>1, <3>2, <3>3
  <2> QED BY <1>1, <1>3, <2>1, <2>2, <2>4
<1>4. CASE op = "del"
  <2>1. Possible(c, u) <=> l \in DOMAIN c
    BY <1>4 DEF Possible
  <2>2. Carried(c, u) = DelLocation(c, l)
    BY <1>4 DEF Carried
  <2>3. Published(c, u) = IF Possible(c, u) THEN <<Clear(l), Del(l), Full(Carried(c, u))>>
                          ELSE <<>>
    BY <1>4 DEF Published
  <2>4. Sent(c, u) = IF Possible(c, u)
                     THEN <<Clear(l), Del(l), Full(Carried(c, u)), Reply(u, TRUE)>>
                     ELSE <<Reply(u, FALSE)>>
    <3>1. Possible(c, u) = TRUE \/ Possible(c, u) = FALSE
      BY DEF Possible
    <3>2. CASE Possible(c, u) = TRUE
      BY <2>3, <3>2, JoinedFour DEF Sent
    <3>3. CASE Possible(c, u) = FALSE
      BY <2>3, <3>3, JoinedOne DEF Sent
    <3> QED BY <3>1, <3>2, <3>3
  <2> QED BY <1>1, <1>4, <2>1, <2>2, <2>4
<1> QED BY <1>1, <1>2, <1>3, <1>4

LEMMA CarriedConf ==
  ASSUME RequestType, NEW u \in DOMAIN requests, NEW c \in Confs, Static \subseteq DOMAIN c
  PROVE  Carried(c, u) \in Confs /\ Static \subseteq DOMAIN Carried(c, u)
<1> DEFINE l == requests[u].loc
<1>1. u \in 0 .. MaxChanges /\ requests[u].op \in {"put", "add", "del"} /\ l \in Locs
  BY BoundsAreNaturals, RequestOf DEF Ids
<1> USE LocsAreDistinct, BoundsAreNaturals DEF Locs
<1>2. CASE requests[u].op = "put"
  <2>1. CASE l \in DOMAIN c
    <3>1. Carried(c, u) = [c EXCEPT ![l] = u]
      BY <1>2, <2>1, CarriedCases
    <3> QED BY <1>1, <2>1, <3>1, ConfsMember
  <2>2. CASE l \notin DOMAIN c
    BY <1>2, <2>2, CarriedCases
  <2> QED BY <2>1, <2>2
<1>3. CASE requests[u].op = "add"
  <2>1. Carried(c, u) = AddLocation(c, l)
    BY <1>3, CarriedCases
  <2> QED BY <1>1, <2>1, ConfsMember DEF AddLocation
<1>4. CASE requests[u].op = "del"
  <2>1. Carried(c, u) = DelLocation(c, l) /\ l \in Dynamic
    BY <1>4, CarriedCases
  <2> QED BY <1>1, <2>1, ConfsMember DEF DelLocation
<1> QED BY <1>1, <1>2, <1>3, <1>4

LEMMA SentMsgs ==
  ASSUME RequestType, NEW u \in DOMAIN requests, NEW c \in Confs, Static \subseteq DOMAIN c
  PROVE  /\ Sent(c, u) \in Seq(FromProc)
         /\ \A i \in DOMAIN Sent(c, u) :
              Sent(c, u)[i].type = "reply" =>
                Sent(c, u)[i].id = u /\ (Sent(c, u)[i].ok => Possible(c, u))
<1> DEFINE l == requests[u].loc
<1>1. u \in Ids /\ requests[u].op \in {"put", "add", "del"}
  BY RequestOf
<1>2. Full(Carried(c, u)) \in FromProc /\ Full(Carried(c, u)).type = "full"
  BY CarriedConf DEF FromProc, FullMsgs, Full
<1>3. \A ok \in BOOLEAN : /\ Reply(u, ok) \in FromProc
                          /\ Reply(u, ok).id = u /\ Reply(u, ok).ok = ok
  BY <1>1 DEF FromProc, Reply
<1>4. Possible(c, u) \in BOOLEAN
  BY DEF Possible
<1>5. l \in Dynamic => /\ Add(l) \in FromProc /\ Clear(l) \in FromProc /\ Del(l) \in FromProc
                       /\ Add(l).type = "add" /\ Clear(l).type = "clear" /\ Del(l).type = "del"
  BY DEF FromProc, Add, Clear, Del
<1> DEFINE s == Sent(c, u)
           Good == {m \in FromProc :
                      m.type = "reply" => m.id = u /\ (m.ok => Possible(c, u))}
<1>6. \A ok \in BOOLEAN : (ok => Possible(c, u)) => Reply(u, ok) \in Good
  BY <1>3
<1>7. Full(Carried(c, u)) \in Good
      /\ (l \in Dynamic => Add(l) \in Good /\ Clear(l) \in Good /\ Del(l) \in Good)
  BY <1>2, <1>5
<1>8. s \in Seq(Good) => s \in Seq(FromProc) /\ \A i \in DOMAIN s : s[i] \in Good
  BY FromSet
<1> HIDE DEF Good, s
<1>9. s \in Seq(Good)
  <2>1. CASE requests[u].op = "put"
    <3>1. s = <<Full(Carried(c, u)), Reply(u, Possible(c, u))>>
      BY <2>1, CarriedCases DEF s
    <3>2. Full(Carried(c, u)) \in Good /\ Reply(u, Possible(c, u)) \in Good
      BY <1>4, <1>6, <1>7
    <3>3. \E a \in Good, b \in Good : s = <<a, b>>
      BY <3>1, <3>2
    <3> QED BY <3>3, Pair
  <2>2. CASE requests[u].op = "add" /\ Possible(c, u)
    <3>1. s = <<Add(l), Reply(u, TRUE)>> /\ l \in Dynamic
      BY <2>2, CarriedCases DEF s
    <3>2. Add(l) \in Good /\ Reply(u, TRUE) \in Good
      BY <1>6, <1>7, <2>2, <3>1
    <3>3. \E a \in Good, b \in Good : s = <<a, b>>
      BY <3>1, <3>2
    <3> QED BY <3>3, Pair
  <2>3. CASE requests[u].op = "del" /\ Possible(c, u)
    <3>1. /\ s = <<Clear(l), Del(l), Full(Carried(c, u)), Reply(u, TRUE)>>
          /\ l \in Dynamic
      BY <2>3, CarriedCases DEF s
    <3>2. Clear(l) \in Good /\ Del(l) \in Good /\ Full(Carried(c, u)) \in Good
          /\ Reply(u, TRUE) \in Good
      BY <1>6, <1>7, <2>3, <3>1
    <3>3. \E a \in Good, b \in Good, d \in Good, e \in Good : s = <<a, b, d, e>>
      BY <3>1, <3>2
    <3> QED BY <3>3, Four
  <2>4. CASE requests[u].op # "put" /\ ~Possible(c, u)
    <3>1. s = <<Reply(u, FALSE)>>
      BY <1>1, <2>4, CarriedCases DEF s
    <3>2. Reply(u, FALSE) \in Good
      BY <1>6
    <3>3. \E a \in Good : s = <<a>>
      BY <3>1, <3>2
    <3> QED BY <3>3
  <2> QED BY <1>1, <2>1, <2>2, <2>3, <2>4
<1> QED BY <1>8, <1>9 DEF Good, s

-----------------------------------------------------------------------------
(* The retained messages, as a new subscriber gets them.                   *)
LEMMA SetToSeqLists ==
  ASSUME NEW S, IsFiniteSet(S)
  PROVE  /\ SetToSeq(S) \in Seq(S)
         /\ \A x \in S : \E i \in DOMAIN SetToSeq(S) : SetToSeq(S)[i] = x
<1> DEFINE D == 1 .. Cardinality(S)
<1>1. Cardinality(S) \in Nat /\ ExistsBijection(D, S)
  BY FS_CardinalityType
<1>2. IsFiniteSet(D) /\ Cardinality(D) = Cardinality(S)
  BY <1>1, FS_Interval
<1>3. \E f \in [D -> S] : IsInjective(f)
  BY <1>1 DEF ExistsBijection, Bijection, Injection
<1>4. SetToSeq(S) \in [D -> S] /\ IsInjective(SetToSeq(S))
  BY <1>3 DEF SetToSeq
<1>5. SetToSeq(S) \in Injection(D, S)
  BY <1>4 DEF Injection
<1>6. SetToSeq(S) \in Surjection(D, S)
  BY <1>2, <1>5, FS_Injection
<1> HIDE DEF D
<1>7. DOMAIN SetToSeq(S) = D /\ \A x \in S : \E i \in D : SetToSeq(S)[i] = x
  BY <1>4, <1>6 DEF Surjection
<1>8. SetToSeq(S) \in Seq(S)
  BY <1>1, <1>4 DEF D
<1> QED BY <1>7, <1>8

LEMMA ReplayedMsgs ==
  ASSUME BrokerType
  PROVE  /\ Replayed \in Seq(ToProc)
         /\ \E n \in Nat :
              /\ Len(Replayed) = n + 1
              /\ Replayed[n + 1] = Full(keptFull)
              /\ \A i \in 1 .. n : \E l \in keptAdds : Replayed[i] = Add(l)
              /\ \A l \in keptAdds : \E i \in 1 .. n : Replayed[i] = Add(l)
<1> DEFINE s == SetToSeq(keptAdds)
           n == Len(s)
           adds == [i \in 1 .. n |-> Add(s[i])]
<1>1. s \in Seq(keptAdds) /\ \A l \in keptAdds : \E i \in DOMAIN s : s[i] = l
  BY SetToSeqLists DEF BrokerType
<1>2. Replayed = adds \o <<Full(keptFull)>>
  BY DEF Replayed
<1>3. Full(keptFull) \in ToProc
  BY DEF BrokerType, ToProc, FullMsgs, Full
<1>4. \A l \in keptAdds : Add(l) \in ToProc
  BY DEF BrokerType, ToProc, Add
<1> HIDE DEF s
<1>5. n \in Nat /\ adds \in Seq(ToProc) /\ Len(adds) = n
      /\ \A i \in 1 .. n : s[i] \in keptAdds /\ adds[i] = Add(s[i])
  BY <1>1, <1>4
<1> HIDE DEF adds, n
<1>6. /\ Replayed \in Seq(ToProc) /\ Len(Replayed) = n + 1
      /\ Replayed[n + 1] = Full(keptFull)
      /\ \A i \in 1 .. n : Replayed[i] = adds[i]
  BY <1>2, <1>3, <1>5
<1>7. \A l \in keptAdds : \E i \in 1 .. n : s[i] = l
  BY <1>1 DEF n
<1>8. \A l \in keptAdds : \E i \in 1 .. n : Replayed[i] = Add(l)
  BY <1>5, <1>6, <1>7
<1>9. \A i \in 1 .. n : \E l \in keptAdds : Replayed[i] = Add(l)
  BY <1>5, <1>6
<1> QED BY <1>5, <1>6, <1>8, <1>9

-----------------------------------------------------------------------------
(* Every step keeps the types.                                             *)
LEMMA TypesInit == Init => Types
<1> SUFFICES ASSUME Init PROVE Types
    OBVIOUS
<1> USE BoundsAreNaturals DEF Init
<1>1. RequestType
  BY DEF RequestType
<1>5. ApiType
  <2>1. calls \in [Ids -> Nat] /\ outbox = <<>> /\ inbox[Agent] = <<>>
    BY DEF Procs
  <2>2. DOMAIN outbox = {} /\ DOMAIN inbox[Agent] = {}
    BY <2>1
  <2> QED BY <2>1, <2>2 DEF ApiType
<1>2. MailType
  BY DEF MailType
<1>3. BrokerType
  BY InitialConfs, FS_EmptySet DEF BrokerType
<1>4. ProcType
  BY InitialConfs DEF ProcType, Procs
<1> QED BY <1>1, <1>5, <1>2, <1>3, <1>4 DEF Types

LEMMA InvokeApi ==
  ASSUME Types, NEW u \in Ids, Invoke(u), UNCHANGED <<requests, done>>,
         answered' \subseteq answered \cup ({u} \cap done)
  PROVE  /\ calls' \in [Ids -> Nat]
         /\ sessions' \subseteq DOMAIN requests' /\ timers' = sessions'
         /\ answered' \subseteq done' /\ done' \subseteq DOMAIN requests'
BY DEF Types, ApiType, Invoke

LEMMA TypesNext == Types /\ [Next]_vars => Types'
<1> SUFFICES ASSUME Types, [Next]_vars PROVE Types'
    OBVIOUS
<1> USE BoundsAreNaturals DEF broker, api, history
<1>0. Agent \in Procs /\ Workers \subseteq Procs
  BY DEF Procs
<1>1. CASE UNCHANGED vars
  BY <1>1 DEF vars, Types, RequestType, ApiType, MailType, BrokerType, ProcType
<1>2. ASSUME NEW l \in Locs, NEW op, SendRpc(op, l),
             op = "put" \/ (op \in {"add", "del"} /\ l \in Dynamic)
      PROVE  Types'
  <2> DEFINE u == Len(requests) + 1
  <2>1. /\ u \in Ids /\ requests' = Append(requests, [op |-> op, loc |-> l])
        /\ sessions' = sessions \cup {u} /\ timers' = timers \cup {u}
        /\ inbox' = IF linked[Agent] THEN [inbox EXCEPT ![Agent] = Append(@, Rpc(u))] ELSE inbox
        /\ UNCHANGED <<conf, linked, outbox, broker, calls, answered, trouble, history>>
    BY <1>2 DEF SendRpc
  <2>2. RequestType'
    BY <1>2, <2>1 DEF Types, RequestType, Ids
  <2>3. DOMAIN requests' = DOMAIN requests \cup {u}
    BY <2>1 DEF Types, RequestType
  <2>4. Rpc(u) \in ToProc /\ Rpc(u).type = "rpc" /\ Rpc(u).id = u
    BY <2>1 DEF ToProc, Rpc
  <2>5. MailType'
    BY <1>0, <2>1, <2>4 DEF Types, MailType
  <2>6. ASSUME NEW i \in DOMAIN inbox'[Agent], inbox'[Agent][i].type = "rpc"
        PROVE  inbox'[Agent][i].id \in DOMAIN requests'
    <3>1. inbox[Agent] \in Seq(ToProc)
      BY <1>0 DEF Types, MailType
    <3>2. \/ i \in DOMAIN inbox[Agent] /\ inbox'[Agent][i] = inbox[Agent][i]
          \/ inbox'[Agent][i] = Rpc(u)
      BY <1>0, <2>1, <2>6, <3>1 DEF Types, MailType
    <3> QED BY <2>3, <2>4, <2>6, <3>2 DEF Types, ApiType
  <2>7. ApiType'
    BY <2>1, <2>3, <2>6 DEF Types, ApiType
  <2> QED BY <2>1, <2>2, <2>5, <2>7 DEF Types, BrokerType, ProcType
<1>3. ASSUME NEW u \in Ids, TimerFired(u) PROVE Types'
  <2>1. /\ Invoke(u)
        /\ UNCHANGED <<conf, linked, inbox, outbox, broker, requests, answered, trouble, history>>
    BY <1>3 DEF TimerFired
  <2> QED BY <2>1, InvokeApi DEF Types, RequestType, ApiType, MailType, BrokerType, ProcType
<1>4. CASE CarryOut
  <2> DEFINE u == Head(inbox[Agent]).id
             c == conf[Agent]
  <2>1. /\ inbox[Agent] # <<>> /\ Head(inbox[Agent]).type = "rpc"
        /\ conf' = [conf EXCEPT ![Agent] = Carried(@, u)]
        /\ outbox' = outbox \o Sent(c, u)
        /\ done' = IF Possible(c, u) THEN done \cup {u} ELSE done
        /\ inbox' = [inbox EXCEPT ![Agent] = Tail(@)]
        /\ UNCHANGED <<linked, broker, api, trouble, clearing, torn>>
    BY <1>4 DEF CarryOut
  <2>2. inbox[Agent] \in Seq(ToProc) /\ outbox \in Seq(FromProc)
    BY <1>0 DEF Types, MailType
  <2>3. u \in DOMAIN requests
    BY <2>1, <2>2 DEF Types, ApiType
  <2>4. c \in Confs /\ Static \subseteq DOMAIN c
    BY <1>0 DEF Types, ProcType
  <2>5. Sent(c, u) \in Seq(FromProc)
    BY <2>3, <2>4, SentMsgs DEF Types
  <2> HIDE DEF u, c
  <2>6. MailType'
    BY <1>0, <2>1, <2>2, <2>5 DEF Types, MailType
  <2>7. ProcType'
    BY <1>0, <2>1, <2>3, <2>4, CarriedConf DEF Types, ProcType, c
  <2>8. ASSUME NEW i \in DOMAIN outbox', outbox'[i].type = "reply", outbox'[i].ok
        PROVE  outbox'[i].id \in done'
    <3>1. CASE i \in DOMAIN outbox
      BY <2>1, <2>2, <2>5, <2>8, <3>1 DEF Types, ApiType
    <3>2. CASE i \notin DOMAIN outbox
      <4>1. i - Len(outbox) \in DOMAIN Sent(c, u) /\ outbox'[i] = Sent(c, u)[i - Len(outbox)]
        BY <2>1, <2>2, <2>5, <3>2
      <4>2. outbox'[i].id = u /\ Possible(c, u)
        BY <2>3, <2>4, <2>8, <4>1, SentMsgs DEF Types
      <4> QED BY <2>1, <4>2
    <3> QED BY <3>1, <3>2
  <2>9. \A i \in DOMAIN inbox'[Agent] :
          i + 1 \in DOMAIN inbox[Agent] /\ inbox'[Agent][i] = inbox[Agent][i + 1]
    BY <1>0, <2>1, <2>2 DEF Types, MailType
  <2>10. ApiType'
    BY <2>1, <2>3, <2>8, <2>9 DEF Types, ApiType
  <2> QED BY <2>1, <2>6, <2>7, <2>10 DEF Types, RequestType, BrokerType
<1>5. ASSUME NEW p \in Procs, Receive(p) PROVE Types'
  <2> DEFINE m == Head(inbox[p])
  <2>1. /\ inbox[p] # <<>> /\ m.type # "rpc"
        /\ conf' = [conf EXCEPT ![p] = Apply(@, m)]
        /\ inbox' = [inbox EXCEPT ![p] = Tail(@)]
        /\ UNCHANGED <<linked, outbox, broker, api, trouble, history>>
    BY <1>5 DEF Receive
  <2>2. inbox[p] \in Seq(ToProc) /\ inbox[Agent] \in Seq(ToProc)
    BY <1>0 DEF Types, MailType
  <2>3. m \in ToProc
    BY <2>1, <2>2
  <2> HIDE DEF m
  <2>4. ProcType'
    BY <2>1, <2>3, ApplyConf DEF Types, ProcType
  <2>5. MailType'
    BY <2>1, <2>2 DEF Types, MailType
  <2>6. \A i \in DOMAIN inbox'[Agent] :
          \E k \in DOMAIN inbox[Agent] : inbox'[Agent][i] = inbox[Agent][k]
    BY <1>0, <2>1, <2>2 DEF Types, MailType
  <2>7. ApiType'
    BY <2>1, <2>6 DEF Types, ApiType
  <2> QED BY <2>1, <2>4, <2>5, <2>7 DEF Types, RequestType, BrokerType
<1>6. ASSUME NEW p \in Procs, Connect(p) PROVE Types'
  <2>1. /\ linked' = [linked EXCEPT ![p] = TRUE]
        /\ inbox' = [inbox EXCEPT ![p] = Replayed]
        /\ UNCHANGED <<conf, outbox, broker, api, trouble, history>>
    BY <1>6 DEF Connect
  <2>2. /\ Replayed \in Seq(ToProc)
        /\ \A i \in DOMAIN Replayed : Replayed[i].type # "rpc"
    <3>1. (\A l \in keptAdds : Add(l).type # "rpc") /\ Full(keptFull).type # "rpc"
      BY DEF Add, Full
    <3> QED BY ReplayedMsgs, <3>1 DEF Types
  <2>3. MailType' /\ ProcType'
    BY <2>1, <2>2 DEF Types, MailType, ProcType
  <2>4. ApiType'
    BY <1>0, <2>1, <2>2 DEF Types, ApiType, MailType
  <2> QED BY <2>1, <2>3, <2>4 DEF Types, RequestType, BrokerType
<1>7. CASE RoutePublished
  <2> DEFINE m == Head(outbox)
  <2>1. /\ outbox # <<>> /\ m.type # "reply" /\ Retain(m)
        /\ IF m.type = "clear" THEN UNCHANGED inbox ELSE Deliver(m)
        /\ clearing' = CASE m.type = "clear" -> clearing \cup {m.loc}
                         [] m.type = "full"  -> {}
                         [] OTHER            -> clearing
        /\ torn' = IF m.type = "del" /\ Listeners # Workers THEN torn \cup {m.loc} ELSE torn
        /\ outbox' = Tail(outbox)
        /\ UNCHANGED <<conf, linked, api, trouble, done>>
    BY <1>7 DEF RoutePublished
  <2>2. outbox \in Seq(FromProc) /\ m \in FromProc
    BY <2>1 DEF Types, MailType
  <2>3. m.type \in {"add", "del", "clear"} => m.loc \in Dynamic
    BY <2>2 DEF FromProc, FullMsgs
  <2>4. m.type \notin {"clear", "reply"} => m \in ToProc /\ m.type # "rpc"
    BY <2>2 DEF FromProc, ToProc, FullMsgs
  <2>5. m.type = "full" => m.conf \in Confs
    BY <2>2 DEF FromProc, FullMsgs
  <2> HIDE DEF m
  <2>6. BrokerType'
    <3>1. CASE m.type = "add"
      BY <2>1, <2>3, <3>1, FS_AddElement DEF Retain, Types, BrokerType
    <3>2. CASE m.type = "clear"
      BY <2>1, <2>3, <3>2, FS_RemoveElement DEF Retain, Types, BrokerType
    <3>3. CASE m.type \notin {"add", "clear"}
      BY <2>1, <2>5, <3>3 DEF Retain, Types, BrokerType
    <3> QED BY <3>1, <3>2, <3>3
  <2>7. inbox'[Agent] = inbox[Agent] /\ inbox' \in [Procs -> Seq(ToProc)]
    <3>1. CASE m.type = "clear"
      BY <2>1, <3>1 DEF Types, MailType
    <3>2. CASE m.type # "clear"
      <4>1. inbox' = [p \in Procs |-> IF p \in Listeners THEN Append(inbox[p], m) ELSE inbox[p]]
        BY <2>1, <3>2 DEF Deliver
      <4>2. Agent \notin Listeners
        BY ProcsAreDistinct DEF Listeners
      <4> QED BY <1>0, <2>1, <2>4, <3>2, <4>1, <4>2 DEF Types, MailType
    <3> QED BY <3>1, <3>2
  <2>8. MailType'
    BY <2>1, <2>2, <2>7 DEF MailType
  <2>9. ProcType'
    <3>1. clearing' \subseteq Dynamic
      BY <2>1, <2>3 DEF Types, ProcType
    <3>2. torn' \subseteq Dynamic
      BY <2>1, <2>3 DEF Types, ProcType
    <3> QED BY <2>1, <3>1, <3>2 DEF Types, ProcType
  <2>10. \A i \in DOMAIN outbox' :
           i + 1 \in DOMAIN outbox /\ outbox'[i] = outbox[i + 1]
    BY <2>1, <2>2
  <2>11. ApiType'
    BY <2>1, <2>7, <2>10 DEF Types, ApiType
  <2> QED BY <2>1, <2>6, <2>8, <2>9, <2>11 DEF Types, RequestType
<1>8. CASE RouteReply
  <2> DEFINE m == Head(outbox)
  <2>1. /\ outbox # <<>> /\ m.type = "reply" /\ Invoke(m.id)
        /\ answered' = IF m.id \in sessions /\ m.ok THEN answered \cup {m.id} ELSE answered
        /\ outbox' = Tail(outbox)
        /\ UNCHANGED <<conf, linked, inbox, broker, requests, trouble, history>>
    BY <1>8 DEF RouteReply
  <2>2. outbox \in Seq(FromProc) /\ m \in FromProc /\ m = outbox[1] /\ 1 \in DOMAIN outbox
    BY <2>1 DEF Types, MailType
  <2>3. m.id \in Ids /\ (m.ok => m.id \in done)
    BY <2>1, <2>2 DEF FromProc, FullMsgs, Types, ApiType
  <2> HIDE DEF m
  <2>4. \A i \in DOMAIN outbox' :
          i + 1 \in DOMAIN outbox /\ outbox'[i] = outbox[i + 1]
    BY <2>1, <2>2
  <2>5. /\ calls' \in [Ids -> Nat]
        /\ sessions' \subseteq DOMAIN requests' /\ timers' = sessions'
        /\ answered' \subseteq done' /\ done' \subseteq DOMAIN requests'
    BY <2>1, <2>3, InvokeApi
  <2>6. ApiType'
    BY <2>1, <2>4, <2>5 DEF Types, ApiType
  <2>7. MailType'
    BY <2>1, <2>2 DEF Types, MailType
  <2> QED BY <2>1, <2>6, <2>7 DEF Types, RequestType, BrokerType, ProcType
<1>9. ASSUME NEW p \in Procs, Break(p) \/ Die(p) PROVE Types'
  <2>1. /\ trouble < MaxTrouble /\ trouble' = trouble + 1
        /\ linked' = [linked EXCEPT ![p] = FALSE]
        /\ inbox' = [inbox EXCEPT ![p] = <<>>]
        /\ outbox' = IF p = Agent THEN <<>> ELSE outbox
        /\ clearing' = IF p = Agent THEN {} ELSE clearing
        /\ UNCHANGED <<broker, api, done>>
    BY <1>9 DEF Break, Die, Cut
  <2>2. torn' \subseteq Dynamic
    <3>1. CutOff(p) \subseteq Dynamic
      <4>1. \A i \in DOMAIN outbox : outbox[i].type = "add" => outbox[i].loc \in Dynamic
        BY DEF Types, MailType, FromProc, FullMsgs
      <4>2. \A i \in DOMAIN inbox[p] : inbox[p][i].type = "del" => inbox[p][i].loc \in Dynamic
        BY DEF Types, MailType, ToProc, FullMsgs
      <4> QED BY <4>1, <4>2 DEF CutOff, LocsOf, ToSet, Types, ProcType
    <3> QED BY <1>9, <3>1 DEF Break, Die, Types, ProcType
  <2>3. conf' \in [Procs -> Confs] /\ \A q \in Procs : Static \subseteq DOMAIN conf'[q]
    <3>1. conf' = conf \/ conf' = [conf EXCEPT ![p] = FileConf]
      BY <1>9 DEF Break, Die
    <3> QED BY <3>1, InitialConfs DEF Types, ProcType
  <2>4. ProcType'
    <3>1. trouble' \in 0 .. MaxTrouble
      BY <2>1 DEF Types, ProcType
    <3>2. clearing' \subseteq Dynamic /\ linked' \in [Procs -> BOOLEAN]
      BY <2>1 DEF Types, ProcType
    <3> QED BY <2>2, <2>3, <3>1, <3>2 DEF ProcType
  <2>5. MailType'
    BY <2>1 DEF Types, MailType
  <2>6. \A i \in DOMAIN inbox'[Agent] :
          i \in DOMAIN inbox[Agent] /\ inbox'[Agent][i] = inbox[Agent][i]
    BY <1>0, <2>1 DEF Types, MailType
  <2>7. ApiType'
    BY <2>1, <2>6 DEF Types, ApiType
  <2> QED BY <2>1, <2>4, <2>5, <2>7 DEF Types, RequestType, BrokerType
<1> QED
  <2>1. ASSUME Next PROVE Types'
    <3>1. CASE Progress
      BY <1>3, <1>4, <1>5, <1>6, <1>7, <1>8, <3>1 DEF Progress
    <3>2. CASE Change
      BY <1>2, <3>2 DEF Change, Locs
    <3> QED BY <1>9, <2>1, <3>1, <3>2 DEF Next
  <2> QED BY <1>1, <2>1

-----------------------------------------------------------------------------
(* How the positions move.  The first of the agent's messages is taken by  *)
(* the broker: every position moves down by one, but never below 0.        *)
Down(k) == IF k = 0 THEN 0 ELSE k - 1

LEMMA Shift ==
  ASSUME Types, outbox # <<>>, outbox' = Tail(outbox), Retain(Head(outbox)),
         UNCHANGED requests, NEW k \in 0 .. Len(outbox), NEW l, NEW u
  PROVE  /\ ListedFrom(l, k) => ListedFrom(l, Down(k))'
         /\ GoneFrom(l, k) => GoneFrom(l, Down(k))'
         /\ ShownFrom(u, k) => ShownFrom(u, Down(k))'
<1> DEFINE h == outbox[1]
<1>1. /\ outbox \in Seq(FromProc) /\ h \in FromProc /\ Head(outbox) = h
      /\ 1 \in DOMAIN outbox
      /\ \A m \in DOMAIN outbox' : m + 1 \in DOMAIN outbox /\ outbox'[m] = outbox[m + 1]
  BY DEF Types, MailType
<1>2. /\ \A i \in DOMAIN outbox : i \in Nat /\ i >= 1
      /\ \A i \in DOMAIN outbox' : i \in Nat /\ i >= 1
      /\ \A i \in 1 .. k : i # 1 => i - 1 \in DOMAIN outbox' /\ outbox'[i - 1] = outbox[i]
  BY <1>1
<1>3. /\ keptAdds' = CASE h.type = "add"   -> keptAdds \cup {h.loc}
                       [] h.type = "clear" -> keptAdds \ {h.loc}
                       [] OTHER            -> keptAdds
      /\ keptFull' = IF h.type = "full" THEN h.conf ELSE keptFull
  BY <1>1 DEF Retain
<1>4. /\ h.type = "add" => h = Add(h.loc)
      /\ h.type = "clear" => h = Clear(h.loc)
      /\ Add(l).type = "add" /\ Add(l).loc = l /\ Clear(l).type = "clear" /\ Clear(l).loc = l
  BY <1>1 DEF FromProc, FullMsgs, Add, Clear
<1> HIDE DEF h
<1>5. /\ h # Clear(l) /\ l \in keptAdds => l \in keptAdds'
      /\ h = Add(l) => l \in keptAdds'
      /\ h # Add(l) /\ l \notin keptAdds => l \notin keptAdds'
      /\ h = Clear(l) => l \notin keptAdds'
  BY <1>3, <1>4
<1>6. ASSUME ListedFrom(l, k) PROVE ListedFrom(l, Down(k))'
  <2>1. PICK i \in 0 .. k :
          /\ IF i = 0 THEN l \in keptAdds ELSE outbox[i] = Add(l)
          /\ \A m \in DOMAIN outbox : m > i => outbox[m] # Clear(l)
    BY <1>6 DEF ListedFrom
  <2>2. \A m \in DOMAIN outbox' : m > Down(i) => outbox'[m] # Clear(l)
    BY <1>1, <1>2, <2>1 DEF Down
  <2>3. IF Down(i) = 0 THEN l \in keptAdds' ELSE outbox'[Down(i)] = Add(l)
    BY <1>1, <1>2, <1>5, <2>1 DEF Down, h
  <2>4. Down(i) \in 0 .. Down(k)
    BY DEF Down
  <2> QED BY <2>2, <2>3, <2>4 DEF ListedFrom
<1>7. ASSUME GoneFrom(l, k) PROVE GoneFrom(l, Down(k))'
  <2>1. PICK i \in 0 .. k :
          /\ IF i = 0 THEN l \notin keptAdds ELSE outbox[i] = Clear(l)
          /\ \A m \in DOMAIN outbox : m > i => outbox[m] # Add(l)
    BY <1>7 DEF GoneFrom
  <2>2. \A m \in DOMAIN outbox' : m > Down(i) => outbox'[m] # Add(l)
    BY <1>1, <1>2, <2>1 DEF Down
  <2>3. IF Down(i) = 0 THEN l \notin keptAdds' ELSE outbox'[Down(i)] = Clear(l)
    BY <1>1, <1>2, <1>5, <2>1 DEF Down, h
  <2>4. Down(i) \in 0 .. Down(k)
    BY DEF Down
  <2> QED BY <2>2, <2>3, <2>4 DEF GoneFrom
<1>8. ASSUME ShownFrom(u, k) PROVE ShownFrom(u, Down(k))'
  <2>1. PICK i \in 0 .. k :
          /\ IF i = 0 THEN Shows(keptFull, u)
             ELSE outbox[i].type = "full" /\ Shows(outbox[i].conf, u)
          /\ \A m \in DOMAIN outbox :
               m > i /\ outbox[m].type = "full" => Shows(outbox[m].conf, u)
    BY <1>8 DEF ShownFrom
  <2> USE DEF Shows
  <2>2. \A m \in DOMAIN outbox' :
          m > Down(i) /\ outbox'[m].type = "full" => Shows(outbox'[m].conf, u)
    BY <1>1, <1>2, <2>1 DEF Down
  <2>3. IF Down(i) = 0 THEN Shows(keptFull, u)'
        ELSE outbox'[Down(i)].type = "full" /\ Shows(outbox'[Down(i)].conf, u)
    <3>1. CASE i = 0
      BY <1>1, <1>3, <2>1, <3>1 DEF Down, h
    <3>2. CASE i = 1
      <4>1. h.type = "full" /\ Shows(h.conf, u)
        BY <2>1, <3>2 DEF h
      <4> QED BY <1>3, <3>2, <4>1 DEF Down
    <3>3. CASE i > 1
      BY <1>2, <2>1, <3>3 DEF Down
    <3>4. i = 0 \/ i = 1 \/ i > 1
      OBVIOUS
    <3> HIDE DEF Shows
    <3> QED BY <3>1, <3>2, <3>3, <3>4
  <2>4. Down(i) \in 0 .. Down(k)
    BY DEF Down
  <2> QED BY <2>2, <2>3, <2>4 DEF ShownFrom
<1> QED BY <1>6, <1>7, <1>8

(* The agent sends s.                                                      *)
LEMMA Appended ==
  ASSUME Types, NEW s \in Seq(FromProc), outbox' = outbox \o s,
         UNCHANGED <<keptAdds, keptFull, requests>>,
         NEW k \in 0 .. Len(outbox), NEW l, NEW u
  PROVE  /\ ListedFrom(l, k) /\ (\A i \in DOMAIN s : s[i] # Clear(l)) => ListedFrom(l, k)'
         /\ GoneFrom(l, k) /\ (\A i \in DOMAIN s : s[i] # Add(l)) => GoneFrom(l, k)'
         /\ ShownFrom(u, k) /\ (\A i \in DOMAIN s : s[i].type = "full" => Shows(s[i].conf, u))
              => ShownFrom(u, k)'
<1>1. outbox \in Seq(FromProc)
  BY DEF Types, MailType
<1>2. /\ \A m \in DOMAIN outbox' :
           \/ m \in DOMAIN outbox /\ outbox'[m] = outbox[m]
           \/ \E i \in DOMAIN s : outbox'[m] = s[i]
      /\ \A i \in 0 .. k : i # 0 => outbox'[i] = outbox[i]
  <2>1. ASSUME NEW m \in DOMAIN outbox', m \notin DOMAIN outbox
        PROVE  m - Len(outbox) \in DOMAIN s /\ outbox'[m] = s[m - Len(outbox)]
    BY <1>1, <2>1
  <2>2. \A m \in DOMAIN outbox : outbox'[m] = outbox[m]
    BY <1>1
  <2> QED BY <1>1, <2>1, <2>2
<1>3. ASSUME ListedFrom(l, k), \A i \in DOMAIN s : s[i] # Clear(l) PROVE ListedFrom(l, k)'
  BY <1>2, <1>3 DEF ListedFrom
<1>4. ASSUME GoneFrom(l, k), \A i \in DOMAIN s : s[i] # Add(l) PROVE GoneFrom(l, k)'
  BY <1>2, <1>4 DEF GoneFrom
<1>5. ASSUME ShownFrom(u, k), \A i \in DOMAIN s : s[i].type = "full" => Shows(s[i].conf, u)
      PROVE  ShownFrom(u, k)'
  <2> USE DEF Shows
  <2>1. PICK i \in 0 .. k :
          /\ IF i = 0 THEN Shows(keptFull, u)
             ELSE outbox[i].type = "full" /\ Shows(outbox[i].conf, u)
          /\ \A m \in DOMAIN outbox :
               m > i /\ outbox[m].type = "full" => Shows(outbox[m].conf, u)
    BY <1>5 DEF ShownFrom
  <2>2. \A m \in DOMAIN outbox' :
          m > i /\ outbox'[m].type = "full" => Shows(outbox'[m].conf, u)
    <3> TAKE m \in DOMAIN outbox'
    <3>1. CASE m \in DOMAIN outbox /\ outbox'[m] = outbox[m]
      BY <2>1, <3>1
    <3>2. CASE \E j \in DOMAIN s : outbox'[m] = s[j]
      BY <1>5, <3>2
    <3> QED BY <1>2, <3>1, <3>2
  <2>3. IF i = 0 THEN Shows(keptFull, u)'
        ELSE outbox'[i].type = "full" /\ Shows(outbox'[i].conf, u)
    BY <1>2, <2>1
  <2> QED BY <2>2, <2>3 DEF ShownFrom
<1> QED BY <1>3, <1>4, <1>5

(* Nothing changes for the broker.                                         *)
LEMMA Stable ==
  ASSUME UNCHANGED <<outbox, keptAdds, keptFull>>, NEW k, NEW l, NEW u,
         requests'[u] = requests[u]
  PROVE  /\ ListedFrom(l, k)' <=> ListedFrom(l, k)
         /\ GoneFrom(l, k)' <=> GoneFrom(l, k)
         /\ ShownFrom(u, k)' <=> ShownFrom(u, k)
BY DEF ListedFrom, GoneFrom, ShownFrom, Shows

(* The connection of the agent is cut: only position 0 is left.            *)
LEMMA Emptied ==
  ASSUME outbox' = <<>>, UNCHANGED <<keptAdds, keptFull, requests>>, NEW l, NEW u
  PROVE  /\ ListedFrom(l, 0) => ListedFrom(l, 0)'
         /\ GoneFrom(l, 0) => GoneFrom(l, 0)'
         /\ ShownFrom(u, 0) => ShownFrom(u, 0)'
BY DEF ListedFrom, GoneFrom, ShownFrom, Shows

(* What is lost stays so.                                                  *)
Grows == /\ done \subseteq done' /\ torn \subseteq torn'
         /\ \A w \in DOMAIN requests : requests'[w] = requests[w]

LEMMA LostGrows ==
  ASSUME Types, Grows, NEW u \in DOMAIN requests, NEW op, Lost(u, op)
  PROVE  Lost(u, op)'
BY DEF Grows, Lost, Superseded, Types, ApiType

(* A claim survives a step that keeps what it is made of.                  *)
LEMMA ClaimKept ==
  ASSUME Types, Grows, NEW u \in DOMAIN requests, NEW k, NEW n, Claim(u, k),
         ListedFrom(requests[u].loc, k) =>
           ListedFrom(requests[u].loc, n)' \/ Lost(u, "del")',
         GoneFrom(requests[u].loc, k) =>
           GoneFrom(requests[u].loc, n)' \/ Lost(u, "add")',
         /\ ShownFrom(u, k) /\ AgentShows(u)
         /\ requests[u].loc \in Static \/ ListedFrom(requests[u].loc, k)
         => (ShownFrom(u, n)' /\ AgentShows(u)') \/ Lost(u, "del")'
  PROVE  Claim(u, n)'
<1>1. requests[u].op \in {"put", "add", "del"}
  BY RequestOf DEF Types
<1>2. requests'[u] = requests[u]
  BY DEF Grows
<1>3. CASE requests[u].op = "put"
  <2>1. CASE Lost(u, "del")
    BY <1>2, <1>3, <2>1, LostGrows DEF Claim
  <2>2. CASE ~Lost(u, "del")
    <3>1. ShownFrom(u, k) /\ AgentShows(u) /\ (requests[u].loc \in Static \/ ListedFrom(requests[u].loc, k))
      BY <1>3, <2>2 DEF Claim
    <3> QED BY <1>2, <1>3, <3>1 DEF Claim
  <2> QED BY <2>1, <2>2
<1>4. CASE requests[u].op = "add"
  <2>1. Lost(u, "del") \/ ListedFrom(requests[u].loc, k)
    BY <1>4 DEF Claim
  <2> QED BY <1>2, <1>4, <2>1, LostGrows DEF Claim
<1>5. CASE requests[u].op = "del"
  <2>1. Lost(u, "add") \/ GoneFrom(requests[u].loc, k)
    BY <1>5 DEF Claim
  <2> QED BY <1>2, <1>5, <2>1, LostGrows DEF Claim
<1> QED BY <1>1, <1>3, <1>4, <1>5

-----------------------------------------------------------------------------
(* Steps that neither the agent nor the broker takes part in, and those    *)
(* that only send the agent a change.                                      *)
LEMMA InboxOfAgent ==
  ASSUME Types
  PROVE  /\ Agent \in Procs /\ inbox[Agent] \in Seq(ToProc) /\ outbox \in Seq(FromProc)
         /\ Len(inbox[Agent]) \in Nat /\ DOMAIN inbox[Agent] = 1 .. Len(inbox[Agent])
         /\ Len(outbox) \in Nat /\ DOMAIN outbox = 1 .. Len(outbox)
         /\ \A i \in DOMAIN inbox[Agent] : inbox[Agent][i] \in ToProc
         /\ \A i \in DOMAIN outbox : outbox[i] \in FromProc
<1>1. Agent \in Procs
  BY DEF Procs
<1>2. inbox[Agent] \in Seq(ToProc) /\ outbox \in Seq(FromProc)
  BY <1>1 DEF Types, MailType
<1> QED BY <1>1, <1>2

LEMMA ElsewhereKept ==
  ASSUME KeptInv, torn \subseteq torn',
         UNCHANGED <<outbox, keptAdds, keptFull, requests, done, answered>>,
         conf'[Agent] = conf[Agent], linked'[Agent] = linked[Agent],
         inbox'[Agent] = inbox[Agent]
  PROVE  AgentMail' /\ AgentListed' /\ AnswersClaim'
<1>1. Types /\ AgentMail /\ AgentListed /\ AnswersClaim /\ Grows
  BY DEF KeptInv, Grows
<1>2. AgentMail'
  BY <1>1 DEF AgentMail
<1>3. AgentListed'
  <2>1. \A l : ListedFrom(l, Len(outbox))' <=> ListedFrom(l, Len(outbox))
    BY DEF ListedFrom
  <2> QED BY <1>1, <2>1 DEF AgentListed
<1>4. ASSUME NEW u \in DOMAIN requests, NEW k, Claim(u, k) PROVE Claim(u, k)'
  <2>1. AgentShows(u) => AgentShows(u)'
    BY DEF AgentShows, Shows
  <2> QED BY <1>1, <1>4, <2>1, Stable, ClaimKept
<1>5. AnswersClaim'
  BY <1>1, <1>4 DEF AnswersClaim, Types, ApiType
<1> QED BY <1>2, <1>3, <1>5

LEMMA SendKept ==
  ASSUME KeptInv, Types', NEW l \in Locs, NEW op, SendRpc(op, l)
  PROVE  AgentMail' /\ AgentListed' /\ AnswersClaim'
<1> DEFINE x == Len(requests) + 1
           mail == inbox[Agent]
<1>1. Types /\ AgentMail /\ AgentListed /\ AnswersClaim
  BY DEF KeptInv
<1>2. /\ requests' = Append(requests, [op |-> op, loc |-> l])
      /\ inbox' = IF linked[Agent] THEN [inbox EXCEPT ![Agent] = Append(@, Rpc(x))] ELSE inbox
      /\ UNCHANGED <<conf, linked, outbox, keptAdds, keptFull, done, torn, answered>>
  BY DEF SendRpc, broker, history
<1>3. /\ \A u \in DOMAIN requests : requests'[u] = requests[u] /\ u < x
      /\ Grows
  BY <1>1, <1>2 DEF Types, RequestType, Grows
<1>4. inbox'[Agent] = mail \/ (linked[Agent] /\ inbox'[Agent] = Append(mail, Rpc(x)))
  BY <1>1, <1>2, InboxOfAgent DEF Types, MailType
<1>5. Rpc(x).type = "rpc" /\ Rpc(x).id = x
  BY DEF Rpc
<1>6. /\ \A i \in DOMAIN mail : i \in DOMAIN inbox'[Agent] /\ inbox'[Agent][i] = mail[i]
      /\ \A i \in DOMAIN inbox'[Agent] :
           i \in DOMAIN mail \/ (i > Len(mail) /\ inbox'[Agent][i] = Rpc(x))
      /\ \A i, j \in DOMAIN inbox'[Agent] : i < j => i \in DOMAIN mail
  BY <1>1, <1>4, InboxOfAgent
<1>7. AgentMail'
  <2>1. ~linked[Agent] => inbox'[Agent] = <<>> /\ outbox' = <<>>
    BY <1>1, <1>2, <1>4 DEF AgentMail
  <2>2. \A i \in DOMAIN inbox'[Agent] : inbox'[Agent][i].type # "del"
    BY <1>1, <1>5, <1>6 DEF AgentMail
  <2>3. ASSUME NEW i \in DOMAIN inbox'[Agent], NEW j \in DOMAIN inbox'[Agent], i < j,
               inbox'[Agent][i].type \in {"full", "rpc"}
        PROVE  /\ inbox'[Agent][j].type = "rpc"
               /\ inbox'[Agent][i].type = "rpc" => inbox'[Agent][i].id < inbox'[Agent][j].id
    <3>1. i \in DOMAIN mail /\ inbox'[Agent][i] = mail[i]
      BY <1>6, <2>3
    <3>2. CASE j \in DOMAIN mail
      BY <1>1, <1>6, <2>3, <3>1, <3>2 DEF AgentMail
    <3>3. CASE inbox'[Agent][j] = Rpc(x)
      BY <1>1, <1>3, <1>5, <2>3, <3>1, <3>3 DEF Types, ApiType
    <3> QED BY <1>6, <3>2, <3>3
  <2>4. ASSUME NEW i \in DOMAIN inbox'[Agent], NEW w \in done, inbox'[Agent][i].type = "rpc"
        PROVE  w < inbox'[Agent][i].id
    <3>1. w < x
      BY <1>1, <1>3 DEF Types, ApiType
    <3> QED BY <1>1, <1>5, <1>6, <2>4, <3>1 DEF AgentMail
  <2> QED BY <1>2, <2>1, <2>2, <2>3, <2>4 DEF AgentMail
<1>8. AgentListed'
  <2>1. \A y \in Dynamic : inbox'[Agent] = mail \/ Add(y) # Rpc(x)
    BY <1>5 DEF Add
  <2>2. \A y : ListedFrom(y, Len(outbox))' <=> ListedFrom(y, Len(outbox))
    BY <1>2 DEF ListedFrom
  <2> QED BY <1>1, <1>2, <1>6, <2>1, <2>2 DEF AgentListed
<1>9. ASSUME NEW u \in DOMAIN requests, NEW k, Claim(u, k) PROVE Claim(u, k)'
  <2>1. AgentShows(u) => AgentShows(u)'
    <3>1. requests'[u] = requests[u]
      BY <1>3
    <3>2. CASE ~linked[Agent]
      BY <1>2, <3>2 DEF AgentShows
    <3>3. CASE Shows(conf[Agent], u) /\ \A i \in DOMAIN mail : mail[i].type # "full"
      BY <1>2, <1>5, <1>6, <3>1, <3>3 DEF AgentShows, Shows
    <3>4. ASSUME NEW i \in DOMAIN mail,
                 /\ mail[i].type = "full" /\ Shows(mail[i].conf, u)
                 /\ \/ requests[u].loc \in DOMAIN conf[Agent]
                    \/ \E m \in DOMAIN mail : m < i /\ mail[m] = Add(requests[u].loc)
          PROVE  AgentShows(u)'
      <4>1. i \in DOMAIN inbox'[Agent] /\ inbox'[Agent][i].type = "full"
            /\ requests'[u].loc \in DOMAIN inbox'[Agent][i].conf
            /\ inbox'[Agent][i].conf[requests'[u].loc] >= u
        BY <1>6, <3>1, <3>4 DEF Shows
      <4>2. \/ requests'[u].loc \in DOMAIN conf'[Agent]
            \/ \E m \in DOMAIN inbox'[Agent] : m < i /\ inbox'[Agent][m] = Add(requests'[u].loc)
        BY <1>2, <1>6, <3>1, <3>4
      <4> QED BY <4>1, <4>2 DEF AgentShows, Shows
    <3> QED BY <3>2, <3>3, <3>4 DEF AgentShows
  <2>2. requests'[u] = requests[u]
    BY <1>3
  <2> QED BY <1>1, <1>2, <1>3, <1>9, <2>1, <2>2, Stable, ClaimKept
<1>10. AnswersClaim'
  BY <1>1, <1>2, <1>9 DEF AnswersClaim, Types, ApiType
<1> QED BY <1>7, <1>8, <1>10

(* The agent reads a retained message.                                     *)
LEMMA ReceiveKept ==
  ASSUME KeptInv, Types', Receive(Agent)
  PROVE  AgentMail' /\ AgentListed' /\ AnswersClaim'
<1> DEFINE mail == inbox[Agent]
           h == mail[1]
           c == conf[Agent]
<1>1. Types /\ AgentMail /\ AgentListed /\ AnswersClaim
  BY DEF KeptInv
<1>2. /\ mail # <<>> /\ Head(mail).type # "rpc"
      /\ conf' = [conf EXCEPT ![Agent] = Apply(@, Head(mail))]
      /\ inbox' = [inbox EXCEPT ![Agent] = Tail(@)]
      /\ UNCHANGED <<linked, outbox, keptAdds, keptFull, requests, answered, done, torn>>
  BY DEF Receive, broker, api, history
<1>3. /\ 1 \in DOMAIN mail /\ Head(mail) = h /\ h \in ToProc
      /\ inbox'[Agent] = Tail(mail) /\ conf'[Agent] = Apply(c, h)
  BY <1>1, <1>2, InboxOfAgent DEF Types, MailType, ProcType
<1>4. /\ \A i \in DOMAIN inbox'[Agent] :
           i \in Nat /\ i >= 1 /\ i + 1 \in DOMAIN mail /\ inbox'[Agent][i] = mail[i + 1]
      /\ \A i \in DOMAIN mail :
           i \in Nat /\ (i = 1 \/ (i > 1 /\ i - 1 \in DOMAIN inbox'[Agent]
                                   /\ inbox'[Agent][i - 1] = mail[i]))
  <2>1. mail \in Seq(ToProc) /\ Len(mail) >= 1 /\ Len(Tail(mail)) = Len(mail) - 1
        /\ DOMAIN Tail(mail) = 1 .. (Len(mail) - 1)
        /\ \A i \in 1 .. (Len(mail) - 1) : Tail(mail)[i] = mail[i + 1]
    BY <1>1, <1>2, <1>3, InboxOfAgent
  <2>2. DOMAIN mail = 1 .. Len(mail) /\ Len(mail) \in Nat
    BY <1>1, InboxOfAgent
  <2> QED BY <1>3, <2>1, <2>2
<1>5. linked[Agent] /\ h.type # "del"
  BY <1>1, <1>2, <1>3 DEF AgentMail
<1>6. \/ h.type = "add" /\ h.loc \in Dynamic /\ h = Add(h.loc)
         /\ conf'[Agent] = AddLocation(c, h.loc)
      \/ h.type = "full" /\ conf'[Agent] = ApplyFull(c, h.conf)
  BY <1>2, <1>3, <1>5 DEF ToProc, FullMsgs, Apply, Add
<1> HIDE DEF h
<1>7. AgentMail'
  <2>1. \A i \in DOMAIN inbox'[Agent] : inbox'[Agent][i].type # "del"
    BY <1>1, <1>4 DEF AgentMail
  <2>2. ASSUME NEW i \in DOMAIN inbox'[Agent], NEW j \in DOMAIN inbox'[Agent], i < j,
               inbox'[Agent][i].type \in {"full", "rpc"}
        PROVE  /\ inbox'[Agent][j].type = "rpc"
               /\ inbox'[Agent][i].type = "rpc" => inbox'[Agent][i].id < inbox'[Agent][j].id
    <3>1. i + 1 \in DOMAIN mail /\ j + 1 \in DOMAIN mail /\ i + 1 < j + 1
      BY <1>4, <2>2
    <3> QED BY <1>1, <1>4, <2>2, <3>1 DEF AgentMail
  <2>3. \A i \in DOMAIN inbox'[Agent], w \in done :
          inbox'[Agent][i].type = "rpc" => w < inbox'[Agent][i].id
    BY <1>1, <1>4 DEF AgentMail
  <2> QED BY <1>2, <1>5, <2>1, <2>2, <2>3 DEF AgentMail
<1>8. AgentListed'
  <2>1. ASSUME NEW l \in Dynamic,
               l \in DOMAIN conf'[Agent] \/ \E i \in DOMAIN inbox'[Agent] : inbox'[Agent][i] = Add(l)
        PROVE  l \in DOMAIN c \/ \E i \in DOMAIN mail : mail[i] = Add(l)
    <3>1. CASE l \in DOMAIN conf'[Agent]
      BY <1>3, <1>6, <3>1 DEF AddLocation, ApplyFull, h
    <3>2. CASE \E i \in DOMAIN inbox'[Agent] : inbox'[Agent][i] = Add(l)
      BY <1>4, <3>2
    <3> QED BY <2>1, <3>1, <3>2
  <2>2. \A l : ListedFrom(l, Len(outbox))' <=> ListedFrom(l, Len(outbox))
    BY <1>2 DEF ListedFrom
  <2> QED BY <1>1, <1>2, <2>1, <2>2 DEF AgentListed
<1>9. ASSUME NEW u \in DOMAIN requests, AgentShows(u) PROVE AgentShows(u)'
  <2> DEFINE l == requests[u].loc
  <2>1. CASE Shows(c, u) /\ \A i \in DOMAIN mail : mail[i].type # "full"
    <3>1. \A i \in DOMAIN inbox'[Agent] : inbox'[Agent][i].type # "full"
      BY <1>4, <2>1
    <3>2. h.type # "full"
      BY <1>3, <2>1 DEF h
    <3>3. Shows(conf'[Agent], u)
      BY <1>6, <2>1, <3>2 DEF Shows, AddLocation
    <3> QED BY <1>2, <3>1, <3>3 DEF AgentShows, Shows
  <2>2. ASSUME NEW i \in DOMAIN mail,
               /\ mail[i].type = "full" /\ Shows(mail[i].conf, u)
               /\ l \in DOMAIN c \/ \E m \in DOMAIN mail : m < i /\ mail[m] = Add(l)
        PROVE  AgentShows(u)'
    <3>1. CASE i = 1
      <4>1. h.type = "full" /\ Shows(h.conf, u) /\ l \in DOMAIN c
        BY <1>4, <2>2, <3>1 DEF h
      <4>2. Shows(conf'[Agent], u)
        BY <1>6, <4>1 DEF Shows, ApplyFull
      <4>3. \A k \in DOMAIN inbox'[Agent] : inbox'[Agent][k].type # "full"
        <5> TAKE k \in DOMAIN inbox'[Agent]
        <5>1. 1 < k + 1 /\ k + 1 \in DOMAIN mail /\ inbox'[Agent][k] = mail[k + 1]
          BY <1>4
        <5>2. mail[k + 1].type = "rpc"
          BY <1>1, <1>3, <2>2, <3>1, <5>1 DEF AgentMail
        <5> QED BY <5>1, <5>2
      <4> QED BY <1>2, <4>2, <4>3 DEF AgentShows, Shows
    <3>2. CASE i # 1
      <4>1. i - 1 \in DOMAIN inbox'[Agent] /\ inbox'[Agent][i - 1] = mail[i] /\ i > 1
        BY <1>4, <3>2
      <4>2. h.type = "add" /\ conf'[Agent] = AddLocation(c, h.loc)
        <5>1. h.type # "full"
          BY <1>1, <1>3, <2>2, <4>1 DEF AgentMail, h
        <5> QED BY <1>6, <5>1
      <4>3. l \in DOMAIN conf'[Agent]
            \/ \E m \in DOMAIN inbox'[Agent] : m < i - 1 /\ inbox'[Agent][m] = Add(l)
        <5>1. CASE l \in DOMAIN c
          BY <4>2, <5>1 DEF AddLocation
        <5>2. ASSUME NEW m \in DOMAIN mail, m < i, mail[m] = Add(l)
              PROVE  l \in DOMAIN conf'[Agent]
                     \/ \E n \in DOMAIN inbox'[Agent] : n < i - 1 /\ inbox'[Agent][n] = Add(l)
          <6>1. CASE m = 1
            <7>1. h.loc = l
              BY <5>2, <6>1 DEF h, Add
            <7> QED BY <4>2, <7>1 DEF AddLocation
          <6>2. CASE m # 1
            BY <1>4, <5>2, <6>2
          <6> QED BY <6>1, <6>2
        <5> QED BY <2>2, <5>1, <5>2
      <4>4. /\ inbox'[Agent][i - 1].type = "full"
            /\ l \in DOMAIN inbox'[Agent][i - 1].conf /\ inbox'[Agent][i - 1].conf[l] >= u
        BY <2>2, <4>1 DEF Shows
      <4>5. requests'[u] = requests[u]
        BY <1>2
      <4> QED BY <4>1, <4>3, <4>4, <4>5 DEF AgentShows, Shows
    <3> QED BY <3>1, <3>2
  <2> QED BY <1>5, <1>9, <2>1, <2>2 DEF AgentShows
<1>10. ASSUME NEW u \in DOMAIN requests, NEW k, Claim(u, k) PROVE Claim(u, k)'
  <2>1. Grows
    BY <1>2 DEF Grows
  <2> QED BY <1>1, <1>2, <1>9, <1>10, <2>1, Stable, ClaimKept
<1>11. AnswersClaim'
  BY <1>1, <1>2, <1>10 DEF AnswersClaim, Types, ApiType
<1> QED BY <1>7, <1>8, <1>11

(* The connection of the agent is cut, or the agent dies.                  *)
LEMMA CutKept ==
  ASSUME KeptInv, Types', Break(Agent) \/ Die(Agent)
  PROVE  AgentMail' /\ AgentListed' /\ AnswersClaim'
<1>1. Types /\ AgentMail /\ AgentListed /\ AnswersClaim
  BY DEF KeptInv
<1>2. /\ linked' = [linked EXCEPT ![Agent] = FALSE]
      /\ inbox' = [inbox EXCEPT ![Agent] = <<>>]
      /\ outbox' = <<>> /\ torn \subseteq torn'
      /\ UNCHANGED <<keptAdds, keptFull, requests, done, answered>>
  BY DEF Break, Die, Cut, broker, api
<1>3. ~linked'[Agent] /\ inbox'[Agent] = <<>>
  BY <1>1, <1>2, InboxOfAgent DEF Types, MailType, ProcType
<1>4. AgentMail'
  BY <1>2, <1>3 DEF AgentMail
<1>5. AgentListed'
  <2> SUFFICES ASSUME NEW l \in Dynamic, l \notin torn', l \in DOMAIN conf'[Agent]
               PROVE  ListedFrom(l, Len(outbox))'
    BY <1>3 DEF AgentListed
  <2>1. CASE Die(Agent)
    <3>1. conf'[Agent] = FileConf
      BY <1>1, <2>1, InboxOfAgent DEF Die, Types, ProcType
    <3> QED BY <3>1, InitialConfs, LocsAreDistinct
  <2>2. CASE Break(Agent)
    <3>1. l \in DOMAIN conf[Agent] /\ l \notin torn /\ l \notin LocsOf(outbox, "add")
      BY <1>2, <2>2 DEF Break, CutOff
    <3>2. PICK i \in 0 .. Len(outbox) :
            /\ IF i = 0 THEN l \in keptAdds ELSE outbox[i] = Add(l)
            /\ \A m \in DOMAIN outbox : m > i => outbox[m] # Clear(l)
      BY <1>1, <3>1 DEF AgentListed, ListedFrom
    <3>3. i = 0
      <4> SUFFICES ASSUME i # 0 PROVE FALSE
        OBVIOUS
      <4>1. i \in DOMAIN outbox /\ outbox[i] = Add(l)
        BY <1>1, <3>2, InboxOfAgent
      <4>2. outbox[i].type = "add" /\ outbox[i].loc = l
        BY <4>1 DEF Add
      <4> QED BY <3>1, <4>1, <4>2 DEF LocsOf, ToSet
    <3>4. l \in keptAdds'
      BY <1>2, <3>2, <3>3
    <3> QED BY <1>2, <3>4 DEF ListedFrom
  <2> QED BY <2>1, <2>2
<1>6. ASSUME NEW u \in answered PROVE Claim(u, 0)'
  <2>1. Claim(u, 0) /\ Grows /\ u \in DOMAIN requests /\ AgentShows(u)'
    BY <1>1, <1>2, <1>3 DEF AnswersClaim, Grows, Types, ApiType, AgentShows
  <2> QED BY <1>1, <1>2, <2>1, Emptied, ClaimKept
<1>7. AnswersClaim'
  BY <1>2, <1>6 DEF AnswersClaim
<1> QED BY <1>4, <1>5, <1>7

(* The agent comes back and is given what the broker kept.                 *)
LEMMA ConnectKept ==
  ASSUME KeptInv, Types', Connect(Agent)
  PROVE  AgentMail' /\ AgentListed' /\ AnswersClaim'
<1>1. Types /\ AgentMail /\ AgentListed /\ AnswersClaim
  BY DEF KeptInv
<1>2. /\ ~linked[Agent]
      /\ linked' = [linked EXCEPT ![Agent] = TRUE]
      /\ inbox' = [inbox EXCEPT ![Agent] = Replayed]
      /\ UNCHANGED <<conf, outbox, keptAdds, keptFull, requests, done, torn, answered>>
  BY DEF Connect, broker, api, history
<1>3. linked'[Agent] /\ inbox'[Agent] = Replayed /\ outbox = <<>>
  BY <1>1, <1>2, InboxOfAgent DEF Types, MailType, ProcType, AgentMail
<1>4. PICK n \in Nat :
        /\ Len(Replayed) = n + 1
        /\ Replayed[n + 1] = Full(keptFull)
        /\ \A i \in 1 .. n : \E l \in keptAdds : Replayed[i] = Add(l)
        /\ \A l \in keptAdds : \E i \in 1 .. n : Replayed[i] = Add(l)
  BY <1>1, ReplayedMsgs DEF Types
<1>5. DOMAIN Replayed = 1 .. (n + 1)
  BY <1>1, <1>4, ReplayedMsgs DEF Types
<1>6. /\ \A i \in DOMAIN Replayed : i \in 1 .. n \/ i = n + 1
      /\ \A i \in 1 .. n : Replayed[i].type = "add"
      /\ Replayed[n + 1].type = "full" /\ Replayed[n + 1].conf = keptFull
      /\ \A i \in 1 .. n : i \in DOMAIN Replayed /\ i < n + 1
      /\ n + 1 \in DOMAIN Replayed
  <2>1. \A l : Add(l).type = "add"
    BY DEF Add
  <2>2. Full(keptFull).type = "full" /\ Full(keptFull).conf = keptFull
    BY DEF Full
  <2>3. \A i \in 1 .. n : Replayed[i].type = "add"
    BY <1>4, <2>1
  <2>4. \A i \in 1 .. (n + 1) : i \in 1 .. n \/ i = n + 1
    OBVIOUS
  <2> QED BY <1>4, <1>5, <2>2, <2>3, <2>4
<1>7. AgentMail'
  <2>1. \A i \in DOMAIN Replayed : Replayed[i].type \in {"add", "full"}
    BY <1>6
  <2>2. ASSUME NEW i \in DOMAIN Replayed, NEW j \in DOMAIN Replayed, i < j,
               Replayed[i].type \in {"full", "rpc"}
        PROVE  FALSE
    BY <1>5, <1>6, <2>2
  <2> QED BY <1>3, <2>1, <2>2 DEF AgentMail
<1>8. AgentListed'
  <2> SUFFICES ASSUME NEW l \in Dynamic, l \notin torn,
                      l \in DOMAIN conf[Agent] \/ \E i \in DOMAIN Replayed : Replayed[i] = Add(l)
               PROVE  ListedFrom(l, Len(outbox))'
    BY <1>2, <1>3 DEF AgentListed
  <2>1. CASE l \in DOMAIN conf[Agent]
    BY <1>1, <1>2, <2>1 DEF AgentListed, ListedFrom
  <2>2. ASSUME NEW i \in DOMAIN Replayed, Replayed[i] = Add(l)
        PROVE  ListedFrom(l, Len(outbox))'
    <3>1. i \in 1 .. n
      BY <1>6, <2>2 DEF Add
    <3>2. l \in keptAdds
      <4>1. PICK x \in keptAdds : Replayed[i] = Add(x)
        BY <1>4, <3>1
      <4>2. Add(x).loc = x /\ Add(l).loc = l
        BY DEF Add
      <4> QED BY <2>2, <4>1, <4>2
    <3> QED BY <1>2, <1>3, <3>2 DEF ListedFrom
  <2> QED BY <2>1, <2>2
<1>9. ASSUME NEW u \in answered PROVE Claim(u, 0)'
  <2> DEFINE l == requests[u].loc
  <2>1. Claim(u, 0) /\ Grows /\ u \in DOMAIN requests /\ requests'[u] = requests[u]
    BY <1>1, <1>2 DEF AnswersClaim, Grows, Types, ApiType
  <2>2. ASSUME ShownFrom(u, 0), l \in Static \/ ListedFrom(l, 0)
        PROVE  AgentShows(u)'
    <3>1. Shows(keptFull, u)
      BY <1>3, <2>2 DEF ShownFrom
    <3>2. l \in DOMAIN conf[Agent] \/ l \in keptAdds
      BY <1>1, <1>3, <2>2, InboxOfAgent DEF ListedFrom, Types, ProcType
    <3>3. l \in DOMAIN conf'[Agent]
          \/ \E m \in DOMAIN Replayed : m < n + 1 /\ Replayed[m] = Add(l)
      BY <1>2, <1>4, <1>6, <3>2
    <3>4. /\ inbox'[Agent][n + 1].type = "full"
          /\ l \in DOMAIN inbox'[Agent][n + 1].conf /\ inbox'[Agent][n + 1].conf[l] >= u
      BY <1>3, <1>6, <3>1 DEF Shows
    <3> QED BY <1>3, <1>6, <2>1, <3>3, <3>4 DEF AgentShows, Shows
  <2> QED BY <1>1, <1>2, <2>1, <2>2, Stable, ClaimKept
<1>10. AnswersClaim'
  BY <1>2, <1>3, <1>9 DEF AnswersClaim
<1> QED BY <1>7, <1>8, <1>10

(* The broker takes the first of the agent's messages.                     *)
LEMMA TakenKept ==
  ASSUME KeptInv, Types', outbox # <<>>, outbox' = Tail(outbox), Retain(Head(outbox)),
         torn \subseteq torn', UNCHANGED <<conf, linked, requests, done>>,
         inbox'[Agent] = inbox[Agent],
         \A u \in answered' \ answered :
           Head(outbox).type = "reply" /\ Head(outbox).ok /\ u = Head(outbox).id
  PROVE  AgentMail' /\ AgentListed' /\ AnswersClaim'
<1>1. Types /\ AgentMail /\ AgentListed /\ AnswersClaim /\ Grows
  BY DEF KeptInv, Grows
<1>2. PICK n \in Nat : n = Len(outbox)
  BY <1>1, InboxOfAgent
<1>3. /\ n >= 1 /\ Len(outbox') = n - 1 /\ DOMAIN outbox' = 1 .. (n - 1)
      /\ \A j \in 1 .. (n - 1) : outbox'[j] = outbox[j + 1]
      /\ Head(outbox) = outbox[1] /\ DOMAIN outbox = 1 .. n
  BY <1>1, <1>2, InboxOfAgent
<1>4. linked[Agent]
  BY <1>1 DEF AgentMail
<1>5. AgentMail'
  BY <1>1, <1>4 DEF AgentMail
<1>6. AgentListed'
  <2> SUFFICES ASSUME NEW l \in Dynamic, l \notin torn',
                      l \in DOMAIN conf[Agent] \/ \E i \in DOMAIN inbox[Agent] : inbox[Agent][i] = Add(l)
               PROVE  ListedFrom(l, Len(outbox))'
    BY DEF AgentListed
  <2>1. ListedFrom(l, n)
    BY <1>1, <1>2 DEF AgentListed
  <2>2. ListedFrom(l, Down(n))'
    BY <1>1, <1>2, <2>1, Shift
  <2>3. Len(outbox') = Down(n)
    BY <1>3 DEF Down
  <2> QED BY <2>2, <2>3 DEF ListedFrom
<1>7. ASSUME NEW u \in DOMAIN requests, NEW k \in 0 .. n, Claim(u, k) PROVE Claim(u, Down(k))'
  <2>1. AgentShows(u) => AgentShows(u)'
    BY DEF AgentShows, Shows
  <2>2. PICK l : l = requests[u].loc /\ l = requests'[u].loc
    OBVIOUS
  <2>3. /\ ListedFrom(l, k) => ListedFrom(l, Down(k))'
        /\ GoneFrom(l, k) => GoneFrom(l, Down(k))'
        /\ ShownFrom(u, k) => ShownFrom(u, Down(k))'
    BY <1>1, <1>2, Shift
  <2> QED BY <1>1, <1>7, <2>1, <2>2, <2>3, ClaimKept
<1>8. ASSUME NEW u \in answered' PROVE Claim(u, 0)'
  <2>1. CASE u \in answered
    <3>1. Claim(u, 0) /\ u \in DOMAIN requests /\ Down(0) = 0
      BY <1>1, <2>1 DEF AnswersClaim, Types, ApiType, Down
    <3> QED BY <1>7, <3>1
  <2>2. CASE u \notin answered
    <3>1. outbox[1].type = "reply" /\ outbox[1].ok /\ u = outbox[1].id /\ 1 \in DOMAIN outbox
      BY <1>3, <2>2
    <3>2. Claim(u, 1) /\ u \in DOMAIN requests /\ Down(1) = 0
      BY <1>1, <3>1 DEF AnswersClaim, Types, ApiType, Down
    <3> QED BY <1>3, <1>7, <3>2
  <2> QED BY <2>1, <2>2
<1>9. ASSUME NEW j \in DOMAIN outbox', outbox'[j].type = "reply", outbox'[j].ok,
             NEW u, u = outbox'[j].id
      PROVE  Claim(u, j)'
  <2>1. j + 1 \in DOMAIN outbox /\ outbox[j + 1] = outbox'[j] /\ j + 1 \in 0 .. n
    BY <1>3
  <2>2. Claim(u, j + 1) /\ u \in DOMAIN requests
    BY <1>1, <1>9, <2>1 DEF AnswersClaim, Types, ApiType
  <2>3. Down(j + 1) = j
    BY <1>3 DEF Down
  <2> QED BY <1>7, <2>1, <2>2, <2>3
<1>10. AnswersClaim'
  BY <1>8, <1>9 DEF AnswersClaim
<1> QED BY <1>5, <1>6, <1>10

LEMMA RouteKept ==
  ASSUME KeptInv, Types', RoutePublished \/ RouteReply
  PROVE  AgentMail' /\ AgentListed' /\ AnswersClaim'
<1>1. CASE RoutePublished
  <2>1. /\ outbox # <<>> /\ outbox' = Tail(outbox) /\ Retain(Head(outbox))
        /\ torn \subseteq torn' /\ UNCHANGED <<conf, linked, requests, done, answered>>
    BY <1>1 DEF RoutePublished, api
  <2>2. inbox'[Agent] = inbox[Agent]
    <3>1. Agent \notin Listeners
      BY ProcsAreDistinct DEF Listeners
    <3> QED BY <1>1, <3>1 DEF RoutePublished, Deliver, Procs
  <2> QED BY <2>1, <2>2, TakenKept
<1>2. CASE RouteReply
  <2>1. /\ outbox # <<>> /\ outbox' = Tail(outbox) /\ Head(outbox).type = "reply"
        /\ UNCHANGED <<conf, linked, inbox, keptAdds, keptFull, requests, done, torn>>
        /\ answered' = IF Head(outbox).id \in sessions /\ Head(outbox).ok
                       THEN answered \cup {Head(outbox).id} ELSE answered
    BY <1>2 DEF RouteReply, broker, history
  <2>2. Retain(Head(outbox))
    BY <2>1 DEF Retain
  <2> QED BY <2>1, <2>2, TakenKept
<1> QED BY <1>1, <1>2

-----------------------------------------------------------------------------
(* What the agent sends when it carries out change u.                      *)
LEMMA SentFacts ==
  ASSUME RequestType, NEW u \in DOMAIN requests, NEW c, NEW i \in DOMAIN Sent(c, u)
  PROVE  /\ \A l : Sent(c, u)[i] = Clear(l) =>
                     requests[u].op = "del" /\ requests[u].loc = l /\ Possible(c, u)
         /\ \A l : Sent(c, u)[i] = Add(l) =>
                     requests[u].op = "add" /\ requests[u].loc = l /\ Possible(c, u)
         /\ Sent(c, u)[i].type = "full" => Sent(c, u)[i].conf = Carried(c, u)
         /\ Sent(c, u)[i].type = "reply" /\ Sent(c, u)[i].ok =>
              Sent(c, u)[i].id = u /\ Possible(c, u)
<1> DEFINE m == Sent(c, u)[i]
           l == requests[u].loc
<1>1. requests[u].op \in {"put", "add", "del"}
  BY RequestOf
<1>2. \/ requests[u].op = "del" /\ Possible(c, u) /\ (m = Clear(l) \/ m = Del(l))
      \/ requests[u].op = "add" /\ Possible(c, u) /\ m = Add(l)
      \/ m = Full(Carried(c, u))
      \/ \E ok \in BOOLEAN : m = Reply(u, ok) /\ (ok => Possible(c, u))
  <2>1. Possible(c, u) \in BOOLEAN
    BY DEF Possible
  <2>2. CASE requests[u].op = "put"
    <3>1. Sent(c, u) = <<Full(Carried(c, u)), Reply(u, Possible(c, u))>>
      BY <2>2, CarriedCases
    <3>2. m = Full(Carried(c, u)) \/ m = Reply(u, Possible(c, u))
      BY <3>1
    <3> QED BY <2>1, <3>2
  <2>3. CASE requests[u].op = "add" /\ Possible(c, u)
    <3>1. Sent(c, u) = <<Add(l), Reply(u, TRUE)>>
      BY <2>3, CarriedCases
    <3>2. m = Add(l) \/ m = Reply(u, TRUE)
      <4>1. PICK a, b : a = Add(l) /\ b = Reply(u, TRUE)
        OBVIOUS
      <4>2. Sent(c, u) = <<a, b>>
        BY <3>1, <4>1
      <4>3. m = a \/ m = b
        BY <4>2, PairElems
      <4> QED BY <4>1, <4>3
    <3> QED BY <2>3, <3>2
  <2>4. CASE requests[u].op = "del" /\ Possible(c, u)
    <3>1. Sent(c, u) = <<Clear(l), Del(l), Full(Carried(c, u)), Reply(u, TRUE)>>
      BY <2>4, CarriedCases
    <3>2. m = Clear(l) \/ m = Del(l) \/ m = Full(Carried(c, u)) \/ m = Reply(u, TRUE)
      <4>1. PICK a, b, d, e : /\ a = Clear(l) /\ b = Del(l)
                              /\ d = Full(Carried(c, u)) /\ e = Reply(u, TRUE)
        OBVIOUS
      <4>2. Sent(c, u) = <<a, b, d, e>>
        BY <3>1, <4>1
      <4>3. m = a \/ m = b \/ m = d \/ m = e
        BY <4>2, FourElems
      <4> QED BY <4>1, <4>3
    <3> QED BY <2>4, <3>2
  <2>5. CASE requests[u].op # "put" /\ ~Possible(c, u)
    <3>1. Sent(c, u) = <<Reply(u, FALSE)>>
      BY <1>1, <2>5, CarriedCases
    <3>2. m = Reply(u, FALSE)
      BY <3>1, OneElem
    <3> QED BY <3>2
  <2> QED BY <1>1, <2>2, <2>3, <2>4, <2>5
<1>3. /\ \A x : Clear(x).type = "clear" /\ Clear(x).loc = x
      /\ \A x : Add(x).type = "add" /\ Add(x).loc = x
      /\ \A x : Del(x).type = "del"
  BY DEF Clear, Add, Del
<1>4. /\ Full(Carried(c, u)).type = "full" /\ Full(Carried(c, u)).conf = Carried(c, u)
      /\ \A ok : Reply(u, ok).type = "reply" /\ Reply(u, ok).id = u /\ Reply(u, ok).ok = ok
  BY DEF Full, Reply
<1> HIDE DEF m, l
<1>5. /\ \A x : m = Clear(x) => requests[u].op = "del" /\ l = x /\ Possible(c, u)
      /\ \A x : m = Add(x) => requests[u].op = "add" /\ l = x /\ Possible(c, u)
      /\ m.type = "full" => m.conf = Carried(c, u)
      /\ m.type = "reply" /\ m.ok => m.id = u /\ Possible(c, u)
  <2>1. CASE requests[u].op = "del" /\ Possible(c, u) /\ (m = Clear(l) \/ m = Del(l))
    BY <1>3, <2>1
  <2>2. CASE requests[u].op = "add" /\ Possible(c, u) /\ m = Add(l)
    BY <1>3, <2>2
  <2>3. CASE m = Full(Carried(c, u))
    BY <1>3, <1>4, <2>3
  <2>4. ASSUME NEW ok \in BOOLEAN, m = Reply(u, ok), ok => Possible(c, u)
        PROVE  /\ \A x : m # Clear(x) /\ m # Add(x)
               /\ m.type # "full" /\ m.id = u /\ (m.ok => Possible(c, u))
    BY <1>3, <1>4, <2>4
  <2> QED BY <1>2, <2>1, <2>2, <2>3, <2>4
<1> QED BY <1>5 DEF m, l

(* The first of it is what the change itself amounts to.                   *)
LEMMA SentFirst ==
  ASSUME RequestType, NEW u \in DOMAIN requests, NEW c, Possible(c, u)
  PROVE  /\ 1 \in DOMAIN Sent(c, u)
         /\ requests[u].op = "put" => Sent(c, u)[1].type = "full"
         /\ requests[u].op = "add" => Sent(c, u)[1] = Add(requests[u].loc)
         /\ requests[u].op = "del" => Sent(c, u)[1] = Clear(requests[u].loc)
<1> DEFINE l == requests[u].loc
<1>1. requests[u].op \in {"put", "add", "del"}
  BY RequestOf
<1>2. CASE requests[u].op = "put"
  <2>1. Sent(c, u) = <<Full(Carried(c, u)), Reply(u, Possible(c, u))>>
    BY <1>2, CarriedCases
  <2>2. 1 \in DOMAIN Sent(c, u) /\ Sent(c, u)[1] = Full(Carried(c, u))
    BY <2>1
  <2>3. Full(Carried(c, u)).type = "full"
    BY DEF Full
  <2> QED BY <1>2, <2>2, <2>3
<1>3. CASE requests[u].op = "add"
  <2>1. Sent(c, u) = <<Add(l), Reply(u, TRUE)>>
    BY <1>3, CarriedCases
  <2> QED BY <1>3, <2>1
<1>4. CASE requests[u].op = "del"
  <2>1. Sent(c, u) = <<Clear(l), Del(l), Full(Carried(c, u)), Reply(u, TRUE)>>
    BY <1>4, CarriedCases
  <2> QED BY <1>4, <2>1
<1> QED BY <1>1, <1>2, <1>3, <1>4

(* An earlier setting is still shown after change u, unless u deletes its  *)
(* location.                                                               *)
LEMMA CarriedShows ==
  ASSUME RequestType, NEW u \in DOMAIN requests, NEW v \in DOMAIN requests, v < u,
         NEW c \in Confs, Shows(c, v)
  PROVE  \/ Shows(Carried(c, u), v)
         \/ requests[u].op = "del" /\ requests[u].loc = requests[v].loc /\ Possible(c, u)
<1> DEFINE l == requests[u].loc
<1>1. /\ requests[u].op \in {"put", "add", "del"} /\ u \in Nat /\ v \in Nat
      /\ requests[v].loc \in DOMAIN c /\ c[requests[v].loc] >= v
  BY RequestOf DEF Shows
<1>2. CASE requests[u].op = "put"
  <2>1. Carried(c, u) = c \/ Carried(c, u) = [c EXCEPT ![l] = u]
    BY <1>2, CarriedCases
  <2> QED BY <1>1, <2>1 DEF Shows
<1>3. CASE requests[u].op = "add"
  <2>1. Carried(c, u) = AddLocation(c, l)
    BY <1>3, CarriedCases
  <2> QED BY <1>1, <2>1 DEF Shows, AddLocation
<1>4. CASE requests[u].op = "del"
  <2>1. Carried(c, u) = DelLocation(c, l) /\ (Possible(c, u) <=> l \in DOMAIN c)
    BY <1>4, CarriedCases
  <2> QED BY <1>1, <1>4, <2>1 DEF Shows, DelLocation
<1> QED BY <1>1, <1>2, <1>3, <1>4

(* The agent carries out a change, publishes and answers.                  *)
LEMMA CarryOutKept ==
  ASSUME KeptInv, Types', CarryOut
  PROVE  AgentMail' /\ AgentListed' /\ AnswersClaim'
<1>1. Types /\ AgentMail /\ AgentListed /\ AnswersClaim /\ RequestType
  BY DEF KeptInv, Types
<1> DEFINE mail == inbox[Agent]
<1>2. PICK n \in Nat : n = Len(outbox)
  BY <1>1, InboxOfAgent
<1>3. /\ mail \in Seq(ToProc) /\ mail # <<>> /\ Head(mail) = mail[1]
      /\ 1 \in DOMAIN mail /\ mail[1].type = "rpc" /\ mail[1].id \in DOMAIN requests
  <2>1. mail \in Seq(ToProc) /\ mail # <<>> /\ Head(mail).type = "rpc"
    BY <1>1, InboxOfAgent DEF CarryOut
  <2> QED BY <1>1, <2>1 DEF Types, ApiType
<1>4. PICK u \in DOMAIN requests : u = mail[1].id
  BY <1>3
<1>5. PICK c : c = conf[Agent]
  OBVIOUS
<1>6. PICK s : s = Sent(c, u)
  OBVIOUS
<1>7. /\ conf' = [conf EXCEPT ![Agent] = Carried(c, u)]
      /\ outbox' = outbox \o s
      /\ done' = IF Possible(c, u) THEN done \cup {u} ELSE done
      /\ inbox' = [inbox EXCEPT ![Agent] = Tail(mail)]
      /\ UNCHANGED <<linked, keptAdds, keptFull, requests, answered, torn>>
  BY <1>3, <1>4, <1>5, <1>6 DEF CarryOut, broker, api
<1>8. /\ c \in Confs /\ Static \subseteq DOMAIN c
      /\ conf'[Agent] = Carried(c, u) /\ inbox'[Agent] = Tail(mail)
  BY <1>1, <1>5, <1>7, InboxOfAgent DEF Types, ProcType, MailType
<1>9. s \in Seq(FromProc)
  BY <1>1, <1>6, <1>8, SentMsgs
<1>10. /\ DOMAIN outbox = 1 .. n
       /\ \A j \in DOMAIN outbox' :
            \/ j \in 1 .. n /\ outbox'[j] = outbox[j]
            \/ j - n \in DOMAIN s /\ outbox'[j] = s[j - n] /\ j > n
       /\ \A i \in DOMAIN s : n + i \in DOMAIN outbox' /\ outbox'[n + i] = s[i]
       /\ DOMAIN outbox' = 1 .. Len(outbox') /\ Len(outbox') \in Nat
       /\ Len(outbox') >= n
  <2>1. outbox \in Seq(FromProc)
    BY <1>1, InboxOfAgent
  <2> QED BY <1>2, <1>7, <1>9, <2>1
<1>11. /\ linked[Agent]
       /\ \A i \in DOMAIN mail : mail[i].type = "rpc"
       /\ \A i \in DOMAIN mail : i # 1 => u < mail[i].id
       /\ \A w \in done : w < u
  <2>1. \A i \in DOMAIN mail : i = 1 \/ 1 < i
    BY <1>3
  <2> QED BY <1>1, <1>3, <1>4, <2>1 DEF AgentMail
<1>12. \A i \in DOMAIN inbox'[Agent] :
         /\ i \in Nat /\ i + 1 \in DOMAIN mail /\ i + 1 # 1
         /\ inbox'[Agent][i] = mail[i + 1]
  <2>1. /\ Len(mail) >= 1 /\ DOMAIN Tail(mail) = 1 .. (Len(mail) - 1)
        /\ \A i \in 1 .. (Len(mail) - 1) : Tail(mail)[i] = mail[i + 1]
        /\ DOMAIN mail = 1 .. Len(mail) /\ Len(mail) \in Nat
    BY <1>3
  <2> QED BY <1>8, <2>1
<1>13. \A i \in DOMAIN inbox'[Agent] :
         inbox'[Agent][i].type = "rpc" /\ u < inbox'[Agent][i].id
  BY <1>11, <1>12
<1> HIDE DEF mail
<1>14. AgentMail'
  <2>1. ASSUME NEW i \in DOMAIN inbox'[Agent], NEW j \in DOMAIN inbox'[Agent], i < j
        PROVE  inbox'[Agent][i].id < inbox'[Agent][j].id
    <3>1. i + 1 < j + 1 /\ mail[i + 1].type = "rpc"
      BY <1>11, <1>12, <2>1
    <3> QED BY <1>1, <1>12, <3>1 DEF AgentMail, mail
  <2>2. \A i \in DOMAIN inbox'[Agent], w \in done' : w < inbox'[Agent][i].id
    <3> TAKE i \in DOMAIN inbox'[Agent], w \in done'
    <3>1. w \in done \/ w = u
      BY <1>7
    <3>2. CASE w \in done
      BY <1>1, <1>11, <1>12, <3>2 DEF AgentMail, mail
    <3>3. CASE w = u
      BY <1>13, <3>3
    <3> QED BY <3>1, <3>2, <3>3
  <2> QED BY <1>7, <1>11, <1>13, <2>1, <2>2 DEF AgentMail
<1>15. \A i \in DOMAIN s :
         /\ \A l : s[i] = Clear(l) => requests[u].op = "del" /\ requests[u].loc = l /\ Possible(c, u)
         /\ \A l : s[i] = Add(l) => requests[u].op = "add" /\ requests[u].loc = l /\ Possible(c, u)
         /\ s[i].type = "full" => s[i].conf = Carried(c, u)
         /\ s[i].type = "reply" /\ s[i].ok => s[i].id = u /\ Possible(c, u)
  BY <1>1, <1>6, SentFacts
<1>16. ASSUME NEW l, NEW k \in n .. Len(outbox'), ListedFrom(l, n),
              ~(requests[u].op = "del" /\ requests[u].loc = l /\ Possible(c, u))
       PROVE  ListedFrom(l, k)'
  <2>1. \A i \in DOMAIN s : s[i] # Clear(l)
    BY <1>15, <1>16
  <2>2. ListedFrom(l, n)'
    <3>1. n \in 0 .. Len(outbox) /\ Types /\ outbox' = outbox \o s
          /\ UNCHANGED <<keptAdds, keptFull, requests>>
      BY <1>1, <1>2, <1>7
    <3> QED BY <1>9, <1>16, <2>1, <3>1, Appended
  <2>3. n <= k
    BY <1>10
  <2> QED BY <2>2, <2>3 DEF ListedFrom
<1>17. /\ Possible(c, u) =>
            /\ 1 \in DOMAIN s
            /\ requests[u].op = "put" => s[1].type = "full"
            /\ requests[u].op = "add" => s[1] = Add(requests[u].loc)
            /\ requests[u].op = "del" => s[1] = Clear(requests[u].loc)
  BY <1>1, <1>6, SentFirst
<1>18. ASSUME NEW k \in (n + 1) .. Len(outbox'), NEW l, requests[u].op = "add",
              requests[u].loc = l, Possible(c, u)
       PROVE  ListedFrom(l, k)'
  <2>1. outbox'[n + 1] = Add(l) /\ n + 1 \in 0 .. k /\ n + 1 # 0
    BY <1>10, <1>17, <1>18
  <2>2. \A m \in DOMAIN outbox' : m > n + 1 => outbox'[m] # Clear(l)
    BY <1>10, <1>15, <1>18
  <2> QED BY <2>1, <2>2 DEF ListedFrom
<1>19. AgentListed'
  <2>1. PICK k : k = Len(outbox')
    OBVIOUS
  <2>2. ASSUME NEW l \in Dynamic, l \notin torn, l \in DOMAIN Carried(c, u)
        PROVE  ListedFrom(l, k)'
    <3>1. CASE requests[u].op = "add" /\ requests[u].loc = l /\ Possible(c, u)
      BY <1>10, <1>17, <1>18, <2>1, <3>1
    <3>2. CASE ~(requests[u].op = "add" /\ requests[u].loc = l /\ Possible(c, u))
      <4>1. l \in DOMAIN c /\ ~(requests[u].op = "del" /\ requests[u].loc = l)
        <5>1. requests[u].op \in {"put", "add", "del"}
          BY <1>1, RequestOf
        <5>2. CASE requests[u].op = "put"
          <6>1. Carried(c, u) = c \/ Carried(c, u) = [c EXCEPT ![requests[u].loc] = u]
            BY <1>1, <5>2, CarriedCases
          <6> QED BY <2>2, <5>2, <6>1
        <5>3. CASE requests[u].op = "add"
          <6>1. Carried(c, u) = AddLocation(c, requests[u].loc)
                /\ (Possible(c, u) <=> requests[u].loc \notin DOMAIN c)
            BY <1>1, <5>3, CarriedCases
          <6> QED BY <2>2, <3>2, <5>3, <6>1 DEF AddLocation
        <5>4. CASE requests[u].op = "del"
          <6>1. Carried(c, u) = DelLocation(c, requests[u].loc)
            BY <1>1, <5>4, CarriedCases
          <6> QED BY <2>2, <5>4, <6>1 DEF DelLocation
        <5> QED BY <5>1, <5>2, <5>3, <5>4
      <4>2. ListedFrom(l, n)
        BY <1>1, <1>2, <1>5, <2>2, <4>1 DEF AgentListed
      <4> QED BY <1>10, <1>16, <2>1, <4>1, <4>2
    <3> QED BY <3>1, <3>2
  <2>3. \A i \in DOMAIN inbox'[Agent], l \in Dynamic : inbox'[Agent][i] # Add(l)
    BY <1>13 DEF Add
  <2> QED BY <1>7, <1>8, <2>1, <2>2, <2>3 DEF AgentListed
<1>20. ASSUME NEW v \in DOMAIN requests, v \in done, NEW k \in 0 .. n, Claim(v, k)
       PROVE  Claim(v, k)'
  <2>1. PICK l : l = requests[v].loc /\ l = requests'[v].loc
    BY <1>7
  <2>2. /\ v < u /\ u \in Nat /\ v \in Nat /\ requests[u].op \in {"put", "add", "del"}
        /\ Grows
    BY <1>1, <1>7, <1>11, <1>20, RequestOf DEF Grows
  <2>3. requests'[u] = [op |-> requests[u].op, loc |-> requests[u].loc]
    <3> DEFINE R == [op : {"put", "add", "del"}, loc : Locs]
    <3>1. requests \in Seq(R)
      BY <1>1 DEF RequestType
    <3> HIDE DEF R
    <3>2. requests[u] \in R
      BY <3>1
    <3> QED BY <1>7, <3>2 DEF R
  <2>4. ASSUME NEW op, requests[u].op = op, requests[u].loc = l, Possible(c, u)
        PROVE  Lost(v, op)'
    <3>1. u \in done' /\ u > v /\ requests'[u] = [op |-> op, loc |-> l]
      BY <1>7, <2>2, <2>3, <2>4
    <3> QED BY <2>1, <3>1 DEF Lost, Superseded
  <2>5. n = Len(outbox) /\ k \in 0 .. Len(outbox) /\ Types /\ outbox' = outbox \o s
        /\ UNCHANGED <<keptAdds, keptFull, requests>>
    BY <1>1, <1>2, <1>7
  <2>6. ListedFrom(l, k) => ListedFrom(l, k)' \/ Lost(v, "del")'
    <3>1. CASE requests[u].op = "del" /\ requests[u].loc = l /\ Possible(c, u)
      BY <2>4, <3>1
    <3>2. CASE \A i \in DOMAIN s : s[i] # Clear(l)
      BY <1>9, <2>5, <3>2, Appended
    <3> QED BY <1>15, <3>1, <3>2
  <2>7. GoneFrom(l, k) => GoneFrom(l, k)' \/ Lost(v, "add")'
    <3>1. CASE requests[u].op = "add" /\ requests[u].loc = l /\ Possible(c, u)
      BY <2>4, <3>1
    <3>2. CASE \A i \in DOMAIN s : s[i] # Add(l)
      BY <1>9, <2>5, <3>2, Appended
    <3> QED BY <1>15, <3>1, <3>2
  <2>8. ASSUME ShownFrom(v, k), AgentShows(v)
        PROVE  (ShownFrom(v, k)' /\ AgentShows(v)') \/ Lost(v, "del")'
    <3>1. Shows(c, v)
      BY <1>5, <1>11, <2>8 DEF AgentShows, mail
    <3>2. CASE Shows(Carried(c, u), v)
      <4>1. ShownFrom(v, k)'
        BY <1>9, <1>15, <2>5, <2>8, <3>2, Appended
      <4>2. AgentShows(v)'
        BY <1>7, <1>8, <1>13, <3>2 DEF AgentShows, Shows
      <4> QED BY <4>1, <4>2
    <3>3. CASE requests[u].op = "del" /\ requests[u].loc = l /\ Possible(c, u)
      BY <2>4, <3>3
    <3> QED BY <1>1, <1>8, <2>1, <2>2, <3>1, <3>2, <3>3, CarriedShows
  <2> QED BY <1>1, <1>20, <2>1, <2>2, <2>6, <2>7, <2>8, ClaimKept
<1>21. ASSUME NEW j \in (n + 1) .. Len(outbox'), Possible(c, u)
       PROVE  Claim(u, j)'
  <2>1. PICK l : l = requests[u].loc /\ l = requests'[u].loc
    BY <1>7
  <2>2. requests[u].op \in {"put", "add", "del"} /\ requests'[u] = requests[u] /\ l \in Locs
        /\ u \in Nat
    BY <1>1, <1>7, <2>1, RequestOf
  <2>3. CASE requests[u].op = "put"
    <3>1. l \in DOMAIN c /\ Carried(c, u) = [c EXCEPT ![l] = u]
      BY <1>1, <1>21, <2>1, <2>3, CarriedCases
    <3>2. Shows(Carried(c, u), u)
      BY <2>1, <2>2, <3>1 DEF Shows
    <3>3. ShownFrom(u, j)'
      <4>1. /\ n + 1 \in 0 .. j /\ n + 1 # 0
            /\ outbox'[n + 1].type = "full" /\ outbox'[n + 1].conf = Carried(c, u)
        BY <1>10, <1>15, <1>17, <1>21, <2>3
      <4>2. \A m \in DOMAIN outbox' :
              m > n + 1 /\ outbox'[m].type = "full" => outbox'[m].conf = Carried(c, u)
        BY <1>10, <1>15
      <4> QED BY <2>2, <3>2, <4>1, <4>2 DEF ShownFrom, Shows
    <3>4. AgentShows(u)'
      BY <1>8, <1>13, <2>2, <3>2 DEF AgentShows, Shows
    <3>5. l \in torn' \/ l \in Static \/ ListedFrom(l, j)'
      <4>1. ASSUME l \in Dynamic \ torn PROVE ListedFrom(l, n)
        BY <1>1, <1>2, <1>5, <3>1, <4>1 DEF AgentListed
      <4>2. j \in n .. Len(outbox')
        OBVIOUS
      <4> QED BY <1>7, <1>16, <2>2, <2>3, <4>1, <4>2 DEF Locs
    <3> QED BY <2>1, <2>2, <2>3, <3>3, <3>4, <3>5 DEF Claim, Lost
  <2>4. CASE requests[u].op = "add"
    <3>1. ListedFrom(l, j)'
      BY <1>18, <1>21, <2>1, <2>4
    <3> QED BY <2>1, <2>2, <2>4, <3>1 DEF Claim
  <2>5. CASE requests[u].op = "del"
    <3>1. outbox'[n + 1] = Clear(l) /\ n + 1 \in 0 .. j /\ n + 1 # 0
      BY <1>10, <1>17, <1>21, <2>1, <2>5
    <3>2. \A m \in DOMAIN outbox' : m > n + 1 => outbox'[m] # Add(l)
      BY <1>10, <1>15, <2>5
    <3>3. GoneFrom(l, j)'
      BY <3>1, <3>2 DEF GoneFrom
    <3> QED BY <2>1, <2>2, <2>5, <3>3 DEF Claim
  <2> QED BY <2>2, <2>3, <2>4, <2>5
<1>22. ASSUME NEW v \in answered' PROVE Claim(v, 0)'
  <2>1. v \in answered /\ v \in done /\ v \in DOMAIN requests /\ Claim(v, 0)
    BY <1>1, <1>7 DEF AnswersClaim, Types, ApiType
  <2> QED BY <1>20, <2>1
<1>23. ASSUME NEW j \in DOMAIN outbox', outbox'[j].type = "reply", outbox'[j].ok,
              NEW v, v = outbox'[j].id
       PROVE  Claim(v, j)'
  <2>1. CASE j \in 1 .. n /\ outbox'[j] = outbox[j]
    <3>1. v \in done /\ v \in DOMAIN requests /\ Claim(v, j)
      BY <1>1, <1>10, <1>23, <2>1 DEF AnswersClaim, Types, ApiType
    <3> QED BY <1>20, <2>1, <3>1
  <2>2. CASE j - n \in DOMAIN s /\ outbox'[j] = s[j - n] /\ j > n
    <3>1. v = u /\ Possible(c, u)
      BY <1>15, <1>23, <2>2
    <3>2. j \in (n + 1) .. Len(outbox')
      BY <1>10, <2>2
    <3> QED BY <1>21, <3>1, <3>2
  <2> QED BY <1>10, <2>1, <2>2
<1>24. AnswersClaim'
  BY <1>22, <1>23 DEF AnswersClaim
<1> QED BY <1>14, <1>19, <1>24

-----------------------------------------------------------------------------
LEMMA KeptInit == Init => KeptInv
<1> SUFFICES ASSUME Init PROVE KeptInv
    OBVIOUS
<1>1. Types
  BY TypesInit
<1>2. /\ inbox[Agent] = <<>> /\ outbox = <<>> /\ answered = {}
      /\ conf[Agent] = FileConf
  BY DEF Init, Procs
<1>3. AgentMail
  BY <1>2 DEF AgentMail
<1>4. AgentListed
  BY <1>2, InitialConfs, LocsAreDistinct DEF AgentListed
<1>5. AnswersClaim
  BY <1>2 DEF AnswersClaim
<1> QED BY <1>1, <1>3, <1>4, <1>5 DEF KeptInv

LEMMA KeptNext == KeptInv /\ [Next]_vars => KeptInv'
<1> SUFFICES ASSUME KeptInv, [Next]_vars PROVE KeptInv'
    OBVIOUS
<1>1. Types'
  BY TypesNext DEF KeptInv
<1> DEFINE Rest == AgentMail' /\ AgentListed' /\ AnswersClaim'
<1>2. ASSUME UNCHANGED vars PROVE Rest
  <2>1. UNCHANGED <<outbox, keptAdds, keptFull, requests, done, answered, torn,
                    conf, linked, inbox>>
    BY <1>2 DEF vars, broker, api, history
  <2> QED BY <2>1, ElsewhereKept
<1>3. ASSUME NEW u \in Ids, TimerFired(u) PROVE Rest
  <2>1. UNCHANGED <<outbox, keptAdds, keptFull, requests, done, answered, torn,
                    conf, linked, inbox>>
    BY <1>3 DEF TimerFired, broker, history
  <2> QED BY <2>1, ElsewhereKept
<1>4. ASSUME NEW p \in Procs, Receive(p) \/ Connect(p) \/ Break(p) \/ Die(p) PROVE Rest
  <2>1. CASE p = Agent
    BY <1>1, <1>4, <2>1, ReceiveKept, ConnectKept, CutKept
  <2>2. CASE p # Agent
    <3>1. /\ conf'[Agent] = conf[Agent] /\ linked'[Agent] = linked[Agent]
          /\ inbox'[Agent] = inbox[Agent]
      BY <1>4, <2>2 DEF Receive, Connect, Break, Die, Cut, KeptInv, Types, ProcType, MailType,
                        Procs
    <3>2. /\ UNCHANGED <<outbox, keptAdds, keptFull, requests, done, answered>>
          /\ torn \subseteq torn'
      BY <1>4, <2>2 DEF Receive, Connect, Break, Die, Cut, broker, api, history
    <3> QED BY <3>1, <3>2, ElsewhereKept
  <2> QED BY <2>1, <2>2
<1>5. ASSUME Progress PROVE Rest
  BY <1>1, <1>3, <1>4, <1>5, CarryOutKept, RouteKept DEF Progress
<1>6. ASSUME Change PROVE Rest
  BY <1>1, <1>6, SendKept DEF Change, Locs
<1>7. ASSUME NEW p \in Procs, Break(p) \/ Die(p) PROVE Rest
  BY <1>4, <1>7
<1> QED BY <1>1, <1>2, <1>5, <1>6, <1>7 DEF Next, KeptInv

(* The agent, the broker and what is under way between them always fit     *)
(* together as KeptInv says: KvConfig's handlers keep it, one by one.      *)
THEOREM KeptInvHolds == Spec => []KeptInv
BY KeptInit, KeptNext, PTL DEF Spec

(* The state of every run is what the code can hold: known locations with  *)
(* settings that were sent, and a session exactly as long as its timer     *)
(* runs (njt_http_sendmsg_module.c).                                       *)
THEOREM TypeCorrect == Spec => []TypeOK
<1>1. KeptInv => TypeOK
  BY DEF KeptInv, Types, RequestType, ApiType, BrokerType, ProcType, TypeOK
<1> QED BY <1>1, KeptInvHolds, PTL

(* A change whose success the API was told is with the broker, for every   *)
(* worker that starts later, until a later change of the same location:    *)
(* for any number of workers, locations, changes, broken connections and   *)
(* deaths (njt_http_kv_module.c publishes before it answers).              *)
THEOREM AnsweredKeptHolds == Spec => []AnsweredKept
<1>1. KeptInv => AnsweredKept
  <2> SUFFICES ASSUME KeptInv, NEW u \in answered, requests[u].loc \notin torn
               PROVE  Kept(u)
    BY DEF AnsweredKept
  <2>1. Claim(u, 0) /\ u \in DOMAIN requests /\ RequestType
    BY DEF KeptInv, AnswersClaim, Types, ApiType
  <2>2. requests[u].op \in {"put", "add", "del"}
    BY <2>1, RequestOf
  <2>3. CASE requests[u].op = "put"
    <3>1. Superseded(u, "del") \/ ShownFrom(u, 0)
      BY <2>1, <2>3 DEF Claim, Lost
    <3>2. ShownFrom(u, 0) => Shows(keptFull, u)
      BY DEF ShownFrom
    <3> QED BY <2>3, <3>1, <3>2 DEF Kept, Shows
  <2>4. CASE requests[u].op = "add"
    BY <2>1, <2>4 DEF Claim, Lost, ListedFrom, Kept
  <2>5. CASE requests[u].op = "del"
    BY <2>1, <2>5 DEF Claim, Lost, GoneFrom, Kept
  <2> QED BY <2>2, <2>3, <2>4, <2>5
<1> QED BY <1>1, KeptInvHolds, PTL

-----------------------------------------------------------------------------
(* No worker goes back (NeverBack).  A worker's way is its configuration   *)
(* c, at position 0, and the messages s it has yet to read.                *)
Val(c, l) == IF l \in DOMAIN c THEN c[l] ELSE 0

IsStage(s, i) == i = 0 \/ (i \in DOMAIN s /\ s[i].type = "full")
Stage(c, s, i) == IF i = 0 THEN c ELSE s[i].conf
Deleted(s, l, i, j) == \E k \in DOMAIN s : i < k /\ k < j /\ s[k] = Del(l)

(* Location l is there when position i is reached: it was there or added   *)
(* before, and not deleted since.                                          *)
Has(c, s, l, m) == IF m = 0 THEN l \in DOMAIN c ELSE m \in DOMAIN s /\ s[m] = Add(l)
Present(c, s, l, i) ==
    \E m \in 0 .. Len(s) :
      /\ m <= i /\ Has(c, s, l, m)
      /\ \A k \in DOMAIN s : m < k /\ k <= i => s[k] # Del(l)

(* The settings that are taken over never fall, but for a deletion between *)
(* them; none is above v, but for one that is deleted later; the location  *)
(* is not there at the end.                                                *)
Taken(c, s, l, i) == IsStage(s, i) /\ Present(c, s, l, i) /\ l \in DOMAIN Stage(c, s, i)
Forward(c, s, l) ==
    \A i, j \in 0 .. Len(s) :
      /\ i < j /\ Taken(c, s, l, i) /\ IsStage(s, j) /\ l \in DOMAIN Stage(c, s, j)
      /\ Stage(c, s, j)[l] < Stage(c, s, i)[l]
      => Deleted(s, l, i, j)
Behind(c, s, l, v) ==
    \A i \in 0 .. Len(s) :
      Taken(c, s, l, i) /\ v < Stage(c, s, i)[l] => Deleted(s, l, i, Len(s) + 1)
Absent(c, s, l) ==
    \A m \in 0 .. Len(s) : Has(c, s, l, m) => Deleted(s, l, m, Len(s) + 1)

LEMMA StageNat ==
  ASSUME NEW c \in Confs, NEW s \in Seq(ToProc), NEW l, NEW i \in 0 .. Len(s), IsStage(s, i)
  PROVE  /\ Stage(c, s, i) \in Confs
         /\ l \in DOMAIN Stage(c, s, i) => Stage(c, s, i)[l] \in Nat
<1>1. CASE i = 0
  BY <1>1, ConfsMember, BoundsAreNaturals DEF Stage
<1>2. CASE i # 0
  <2>1. s[i] \in ToProc /\ s[i].type = "full"
    BY <1>2 DEF IsStage
  <2>2. s[i].conf \in Confs
    BY <2>1 DEF ToProc, FullMsgs
  <2> QED BY <1>2, <2>2, ConfsMember, BoundsAreNaturals DEF Stage
<1> QED BY <1>1, <1>2

LEMMA AbsentBehind ==
  ASSUME NEW c, NEW s \in Seq(ToProc), NEW l, Absent(c, s, l), NEW v
  PROVE  Behind(c, s, l, v)
<1> SUFFICES ASSUME NEW i \in 0 .. Len(s), Present(c, s, l, i)
             PROVE  Deleted(s, l, i, Len(s) + 1)
  BY DEF Behind, Taken
<1>1. PICK m \in 0 .. Len(s) : /\ m <= i /\ Has(c, s, l, m)
                               /\ \A k \in DOMAIN s : m < k /\ k <= i => s[k] # Del(l)
  BY DEF Present
<1>2. PICK k \in DOMAIN s : m < k /\ k < Len(s) + 1 /\ s[k] = Del(l)
  BY <1>1 DEF Absent, Deleted
<1>3. i < k
  BY <1>1, <1>2
<1> QED BY <1>2, <1>3 DEF Deleted

LEMMA BehindLess ==
  ASSUME NEW c \in Confs, NEW s \in Seq(ToProc), NEW l, NEW v \in Nat, NEW w \in Nat, v <= w,
         Behind(c, s, l, v)
  PROVE  Behind(c, s, l, w)
<1> SUFFICES ASSUME NEW i \in 0 .. Len(s), Taken(c, s, l, i), w < Stage(c, s, i)[l]
             PROVE  Deleted(s, l, i, Len(s) + 1)
  BY DEF Behind
<1>1. Stage(c, s, i)[l] \in Nat
  BY StageNat DEF Taken
<1>2. v < Stage(c, s, i)[l]
  BY <1>1
<1> QED BY <1>2 DEF Behind

(* A message is appended to the way.                                       *)
LEMMA AddedWay ==
  ASSUME NEW c \in Confs, NEW s \in Seq(ToProc), NEW m \in ToProc, NEW t \in Seq(ToProc),
         t = Append(s, m), NEW l
  PROVE  /\   /\ Forward(c, s, l)
              /\ m.type = "full" /\ l \in DOMAIN m.conf => Behind(c, s, l, m.conf[l])
              => Forward(c, t, l)
         /\ \A v \in Nat :
              \/ m = Del(l)
              \/ Behind(c, s, l, v) /\ (m.type = "full" /\ l \in DOMAIN m.conf => m.conf[l] <= v)
              => Behind(c, t, l, v)
         /\ m = Del(l) \/ (Absent(c, s, l) /\ m # Add(l)) => Absent(c, t, l)
<1>1. PICK n \in Nat : n = Len(s)
  OBVIOUS
<1>2. /\ Len(t) = n + 1 /\ DOMAIN t = 1 .. n + 1 /\ DOMAIN s = 1 .. n
      /\ t[n + 1] = m /\ \A k \in 1 .. n : t[k] = s[k]
  BY <1>1
<1>3. Del(l).type = "del" /\ Add(l).type = "add"
  BY DEF Del, Add
<1>4. ASSUME NEW i \in 0 .. n
      PROVE  /\ IsStage(t, i) <=> IsStage(s, i)
             /\ IsStage(s, i) => Stage(c, t, i) = Stage(c, s, i)
             /\ Has(c, t, l, i) <=> Has(c, s, l, i)
             /\ Present(c, t, l, i) => Present(c, s, l, i)
             /\ Taken(c, t, l, i) => Taken(c, s, l, i)
  <2>1. \A k \in 0 .. n : Has(c, t, l, k) <=> Has(c, s, l, k)
    BY <1>2 DEF Has
  <2>2. /\ IsStage(t, i) <=> IsStage(s, i)
        /\ IsStage(s, i) => Stage(c, t, i) = Stage(c, s, i)
    BY <1>2 DEF IsStage, Stage
  <2>3. ASSUME Present(c, t, l, i) PROVE Present(c, s, l, i)
    <3>1. PICK k \in 0 .. n + 1 : /\ k <= i /\ Has(c, t, l, k)
                                  /\ \A x \in DOMAIN t : k < x /\ x <= i => t[x] # Del(l)
      BY <1>2, <2>3 DEF Present
    <3>2. k \in 0 .. n /\ \A x \in DOMAIN s : k < x /\ x <= i => s[x] # Del(l)
      BY <1>2, <3>1
    <3> QED BY <1>1, <2>1, <3>1, <3>2 DEF Present
  <2> QED BY <2>1, <2>2, <2>3 DEF Taken
<1>5. ASSUME NEW i, NEW j, Deleted(s, l, i, j) PROVE Deleted(t, l, i, j)
  BY <1>2, <1>5 DEF Deleted
<1>6. ASSUME Forward(c, s, l), m.type = "full" /\ l \in DOMAIN m.conf => Behind(c, s, l, m.conf[l])
      PROVE  Forward(c, t, l)
  <2> SUFFICES ASSUME NEW i \in 0 .. n + 1, NEW j \in 0 .. n + 1, i < j, Taken(c, t, l, i),
                      IsStage(t, j), l \in DOMAIN Stage(c, t, j),
                      Stage(c, t, j)[l] < Stage(c, t, i)[l]
               PROVE  Deleted(t, l, i, j)
    BY <1>2 DEF Forward
  <2>1. i \in 0 .. n /\ Taken(c, s, l, i) /\ Stage(c, t, i) = Stage(c, s, i)
    BY <1>4 DEF Taken
  <2>2. CASE j \in 0 .. n
    <3>1. IsStage(s, j) /\ Stage(c, t, j) = Stage(c, s, j)
      BY <1>4, <2>2
    <3>2. Deleted(s, l, i, j)
      BY <1>1, <1>6, <2>1, <2>2, <3>1 DEF Forward
    <3> QED BY <1>5, <3>2
  <2>3. CASE j = n + 1
    <3>1. m.type = "full" /\ Stage(c, t, j) = m.conf
      BY <1>2, <2>3 DEF IsStage, Stage
    <3>2. Behind(c, s, l, m.conf[l]) /\ m.conf[l] < Stage(c, s, i)[l]
      BY <1>6, <2>1, <3>1
    <3>3. Deleted(s, l, i, n + 1)
      BY <1>1, <2>1, <3>2 DEF Behind
    <3> QED BY <1>5, <2>3, <3>3
  <2> QED BY <2>2, <2>3
<1>7. ASSUME NEW v \in Nat,
             \/ m = Del(l)
             \/ Behind(c, s, l, v) /\ (m.type = "full" /\ l \in DOMAIN m.conf => m.conf[l] <= v)
      PROVE  Behind(c, t, l, v)
  <2> SUFFICES ASSUME NEW i \in 0 .. n + 1, Taken(c, t, l, i), v < Stage(c, t, i)[l]
               PROVE  Deleted(t, l, i, n + 2)
    BY <1>2 DEF Behind
  <2>1. CASE i = n + 1
    <3>1. m.type = "full" /\ l \in DOMAIN m.conf /\ v < m.conf[l]
      BY <1>2, <2>1 DEF Taken, IsStage, Stage
    <3>2. m.conf \in Confs
      BY <3>1 DEF ToProc, FullMsgs
    <3>3. m.conf[l] \in Nat
      BY <3>1, <3>2, ConfsMember, BoundsAreNaturals
    <3> QED BY <1>3, <1>7, <3>1, <3>3
  <2>2. CASE i \in 0 .. n /\ m = Del(l)
    <3>1. n + 1 \in DOMAIN t /\ t[n + 1] = Del(l) /\ i < n + 1 /\ n + 1 < n + 2
      BY <1>2, <2>2
    <3> QED BY <3>1 DEF Deleted
  <2>3. CASE i \in 0 .. n /\ Behind(c, s, l, v)
    <3>1. Deleted(s, l, i, n + 1)
      BY <1>1, <1>4, <2>3 DEF Behind, Taken
    <3>2. Deleted(s, l, i, n + 2)
      BY <1>1, <3>1 DEF Deleted
    <3> QED BY <1>5, <3>2
  <2> QED BY <1>7, <2>1, <2>2, <2>3
<1>8. ASSUME m = Del(l) \/ (Absent(c, s, l) /\ m # Add(l)) PROVE Absent(c, t, l)
  <2> SUFFICES ASSUME NEW i \in 0 .. n + 1, Has(c, t, l, i) PROVE Deleted(t, l, i, n + 2)
    BY <1>2 DEF Absent
  <2>1. i # n + 1
    <3>1. ASSUME i = n + 1 PROVE m = Add(l)
      BY <1>2, <3>1 DEF Has
    <3>2. Del(l) # Add(l)
      BY <1>3
    <3> QED BY <1>8, <3>1, <3>2
  <2>2. CASE m = Del(l)
    <3>1. n + 1 \in DOMAIN t /\ t[n + 1] = Del(l) /\ i < n + 1 /\ n + 1 < n + 2
      BY <1>2, <2>1, <2>2
    <3> QED BY <3>1 DEF Deleted
  <2>3. CASE Absent(c, s, l)
    <3>1. Deleted(s, l, i, n + 1)
      BY <1>1, <1>4, <2>1, <2>3 DEF Absent
    <3>2. Deleted(s, l, i, n + 2)
      BY <1>1, <3>1 DEF Deleted
    <3> QED BY <1>5, <3>2
  <2> QED BY <1>8, <2>2, <2>3
<1> QED BY <1>6, <1>7, <1>8

(* The first message of the way is read.                                   *)
LEMMA ReadWay ==
  ASSUME NEW c \in Confs, NEW s \in Seq(ToProc), s # <<>>, s[1].type # "rpc",
         NEW d \in Confs, d = Apply(c, s[1]), NEW t, t = Tail(s), NEW l, Forward(c, s, l)
  PROVE  /\ Forward(d, t, l)
         /\ \A v \in Nat : Behind(c, s, l, v) => Behind(d, t, l, v)
         /\ Absent(c, s, l) => Absent(d, t, l)
         /\ l \in DOMAIN c \cap DOMAIN d => ~(d[l] < c[l])
<1>1. PICK n \in Nat : n = Len(s)
  OBVIOUS
<1>2. /\ n >= 1 /\ Len(t) = n - 1 /\ DOMAIN t = 1 .. n - 1 /\ DOMAIN s = 1 .. n
      /\ \A k \in 1 .. n - 1 : t[k] = s[k + 1]
      /\ s[1] \in ToProc /\ t \in Seq(ToProc)
  BY <1>1
<1>3. /\ \A x : Del(x).type = "del" /\ Del(x).loc = x /\ Add(x).type = "add" /\ Add(x).loc = x
      /\ s[1].type = "add" => s[1] = Add(s[1].loc)
      /\ s[1].type = "del" => s[1] = Del(s[1].loc)
      /\ s[1].type \in {"add", "del", "full"}
  BY <1>2 DEF Del, Add, ToProc, FullMsgs
(* Where a location of d comes from.                                       *)
<1>4. ASSUME l \in DOMAIN d
      PROVE  s[1] # Del(l) /\ (l \in DOMAIN c \/ s[1] = Add(l))
  <2>1. CASE s[1].type = "add"
    BY <1>3, <1>4, <2>1 DEF Apply, AddLocation
  <2>2. CASE s[1].type = "del"
    BY <1>3, <1>4, <2>2 DEF Apply, DelLocation
  <2>3. CASE s[1].type = "full"
    BY <1>3, <1>4, <2>3 DEF Apply, ApplyFull
  <2> QED BY <1>3, <2>1, <2>2, <2>3
<1>5. ASSUME l \in DOMAIN d
      PROVE  \/ d[l] = 0
             \/ /\ l \in DOMAIN c /\ d[l] = c[l]
             \/ /\ l \in DOMAIN c /\ s[1].type = "full" /\ l \in DOMAIN s[1].conf
                /\ d[l] = s[1].conf[l]
  <2>1. CASE s[1].type = "add"
    BY <1>3, <1>5, <2>1 DEF Apply, AddLocation
  <2>2. CASE s[1].type = "del"
    BY <1>3, <1>5, <2>2 DEF Apply, DelLocation
  <2>3. CASE s[1].type = "full"
    BY <1>3, <1>5, <2>3 DEF Apply, ApplyFull
  <2> QED BY <1>3, <2>1, <2>2, <2>3
(* Positions of the old way.                                               *)
<1>6. ASSUME NEW i \in 1 .. n - 1
      PROVE  /\ IsStage(t, i) <=> IsStage(s, i + 1)
             /\ Stage(d, t, i) = Stage(c, s, i + 1)
             /\ Has(d, t, l, i) <=> Has(c, s, l, i + 1)
  BY <1>2 DEF IsStage, Stage, Has
<1>7. ASSUME Has(d, t, l, 0)
      PROVE  \E m \in {0, 1} : Has(c, s, l, m) /\ s[1] # Del(l)
  BY <1>2, <1>4, <1>7 DEF Has
<1>8. ASSUME NEW i \in 0 .. n - 1, Present(d, t, l, i) PROVE Present(c, s, l, i + 1)
  <2>1. PICK m \in 0 .. n - 1 : /\ m <= i /\ Has(d, t, l, m)
                                /\ \A k \in DOMAIN t : m < k /\ k <= i => t[k] # Del(l)
    BY <1>2, <1>8 DEF Present
  <2>2. ASSUME NEW k \in DOMAIN s, m + 1 < k, k <= i + 1 PROVE s[k] # Del(l)
    <3>1. k - 1 \in DOMAIN t /\ m < k - 1 /\ k - 1 <= i /\ t[k - 1] = s[k]
      BY <1>2, <2>2
    <3> QED BY <2>1, <3>1
  <2>3. CASE m >= 1
    <3>1. Has(c, s, l, m + 1) /\ m + 1 \in 0 .. n /\ m + 1 <= i + 1
      BY <1>2, <1>6, <2>1, <2>3
    <3> QED BY <1>1, <2>2, <3>1 DEF Present
  <2>4. CASE m = 0
    <3>1. PICK x \in {0, 1} : Has(c, s, l, x) /\ s[1] # Del(l)
      BY <1>7, <2>1, <2>4
    <3>2. x \in 0 .. n /\ x <= i + 1
      BY <1>2
    <3>3. ASSUME NEW k \in DOMAIN s, x < k, k <= i + 1 PROVE s[k] # Del(l)
      BY <1>2, <2>2, <2>4, <3>1, <3>3
    <3> QED BY <1>1, <3>1, <3>2, <3>3 DEF Present
  <2> QED BY <2>3, <2>4
<1>9. ASSUME NEW i \in 0 .. n - 1, Taken(d, t, l, i)
      PROVE  \/ Stage(d, t, i)[l] = 0
             \/ \E x \in 0 .. n : /\ Taken(c, s, l, x) /\ Stage(c, s, x)[l] = Stage(d, t, i)[l]
                                  /\ x <= i + 1
                                  /\ \A k \in DOMAIN s : k > x /\ s[k] = Del(l) => k > i + 1
  <2>1. CASE i >= 1
    <3>1. i + 1 \in 0 .. n /\ Taken(c, s, l, i + 1) /\ Stage(c, s, i + 1)[l] = Stage(d, t, i)[l]
      BY <1>2, <1>6, <1>8, <1>9, <2>1 DEF Taken
    <3> QED BY <1>2, <2>1, <3>1
  <2>2. CASE i = 0
    <3>1. l \in DOMAIN d /\ Stage(d, t, i) = d
      BY <1>9, <2>2 DEF Taken, Stage
    <3>2. s[1] # Del(l)
      BY <1>4, <3>1
    <3>3. CASE l \in DOMAIN c /\ d[l] = c[l]
      <4>1. Has(c, s, l, 0) /\ IsStage(s, 0) /\ Stage(c, s, 0) = c
        BY <3>3 DEF Has, IsStage, Stage
      <4>2. Present(c, s, l, 0)
        BY <1>1, <1>2, <4>1 DEF Present
      <4>3. Taken(c, s, l, 0) /\ Stage(c, s, 0)[l] = Stage(d, t, i)[l]
        BY <3>1, <3>3, <4>1, <4>2 DEF Taken
      <4>4. 0 \in 0 .. n /\ 0 <= i + 1 /\ \A k \in DOMAIN s : k > 0 /\ s[k] = Del(l) => k > i + 1
        BY <1>2, <2>2, <3>2
      <4> QED BY <4>3, <4>4
    <3>4. CASE l \in DOMAIN c /\ s[1].type = "full" /\ l \in DOMAIN s[1].conf /\ d[l] = s[1].conf[l]
      <4>1. Has(c, s, l, 0) /\ IsStage(s, 1) /\ Stage(c, s, 1) = s[1].conf
        BY <1>2, <3>4 DEF Has, IsStage, Stage
      <4>2. Present(c, s, l, 1)
        BY <1>1, <1>2, <3>2, <4>1 DEF Present
      <4>3. Taken(c, s, l, 1) /\ Stage(c, s, 1)[l] = Stage(d, t, i)[l]
        BY <3>1, <3>4, <4>1, <4>2 DEF Taken
      <4>4. 1 \in 0 .. n /\ 1 <= i + 1 /\ \A k \in DOMAIN s : k > 1 /\ s[k] = Del(l) => k > i + 1
        BY <1>2, <2>2
      <4> QED BY <4>3, <4>4
    <3> QED BY <1>5, <3>1, <3>3, <3>4
  <2> QED BY <2>1, <2>2
<1>10. ASSUME NEW i \in 0 .. n, NEW j \in Nat, Deleted(s, l, i, j),
              NEW y \in 0 .. n, \A k \in DOMAIN s : k > i /\ s[k] = Del(l) => k > y + 1
       PROVE  Deleted(t, l, y, j - 1)
  <2>1. PICK k \in DOMAIN s : i < k /\ k < j /\ s[k] = Del(l)
    BY <1>10 DEF Deleted
  <2>2. k > y + 1
    BY <1>2, <1>10, <2>1
  <2>3. k - 1 \in DOMAIN t /\ y < k - 1 /\ k - 1 < j - 1 /\ t[k - 1] = Del(l)
    BY <1>2, <2>1, <2>2
  <2> QED BY <2>3 DEF Deleted
<1>11. ASSUME NEW i \in 0 .. n - 1, IsStage(t, i), l \in DOMAIN Stage(d, t, i)
       PROVE  Stage(d, t, i)[l] \in Nat
  BY <1>2, <1>11, StageNat
<1>12. Forward(d, t, l)
  <2> SUFFICES ASSUME NEW i \in 0 .. n - 1, NEW j \in 0 .. n - 1, i < j, Taken(d, t, l, i),
                      IsStage(t, j), l \in DOMAIN Stage(d, t, j),
                      Stage(d, t, j)[l] < Stage(d, t, i)[l]
               PROVE  Deleted(t, l, i, j)
    BY <1>2 DEF Forward
  <2>1. Stage(d, t, i)[l] # 0
    BY <1>11
  <2>2. PICK x \in 0 .. n : /\ Taken(c, s, l, x) /\ Stage(c, s, x)[l] = Stage(d, t, i)[l]
                            /\ x <= i + 1
                            /\ \A k \in DOMAIN s : k > x /\ s[k] = Del(l) => k > i + 1
    BY <1>9, <2>1
  <2>3. j \in 1 .. n - 1
    OBVIOUS
  <2>4. IsStage(s, j + 1) /\ Stage(d, t, j) = Stage(c, s, j + 1) /\ x < j + 1 /\ j + 1 \in 0 .. n
    BY <1>2, <1>6, <2>2, <2>3
  <2>5. Deleted(s, l, x, j + 1)
    BY <1>1, <2>2, <2>4 DEF Forward
  <2>6. i \in 0 .. n /\ j + 1 \in Nat /\ (j + 1) - 1 = j
    BY <1>2
  <2>7. \A k \in DOMAIN s : k > x /\ s[k] = Del(l) => k > i + 1
    BY <2>2
  <2>8. Deleted(t, l, i, (j + 1) - 1)
    BY <1>10, <2>5, <2>6, <2>7
  <2> QED BY <2>6, <2>8
<1>13. ASSUME NEW v \in Nat, Behind(c, s, l, v) PROVE Behind(d, t, l, v)
  <2> SUFFICES ASSUME NEW i \in 0 .. n - 1, Taken(d, t, l, i), v < Stage(d, t, i)[l]
               PROVE  Deleted(t, l, i, n)
    BY <1>2 DEF Behind
  <2>1. Stage(d, t, i)[l] # 0
    BY <1>11
  <2>2. PICK x \in 0 .. n : /\ Taken(c, s, l, x) /\ Stage(c, s, x)[l] = Stage(d, t, i)[l]
                            /\ x <= i + 1
                            /\ \A k \in DOMAIN s : k > x /\ s[k] = Del(l) => k > i + 1
    BY <1>9, <2>1
  <2>3. Deleted(s, l, x, n + 1)
    BY <1>1, <1>13, <2>2 DEF Behind
  <2>4. i \in 0 .. n /\ n + 1 \in Nat /\ (n + 1) - 1 = n
    BY <1>2
  <2>5. \A k \in DOMAIN s : k > x /\ s[k] = Del(l) => k > i + 1
    BY <2>2
  <2>6. Deleted(t, l, i, (n + 1) - 1)
    BY <1>10, <2>3, <2>4, <2>5
  <2> QED BY <2>4, <2>6
<1>14. ASSUME Absent(c, s, l) PROVE Absent(d, t, l)
  <2> SUFFICES ASSUME NEW m \in 0 .. n - 1, Has(d, t, l, m) PROVE Deleted(t, l, m, n)
    BY <1>2 DEF Absent
  <2>1. PICK x \in 0 .. n : /\ Has(c, s, l, x)
                            /\ \A k \in DOMAIN s : k > x /\ s[k] = Del(l) => k > m + 1
    <3>1. CASE m = 0
      BY <1>2, <1>7, <3>1
    <3>2. CASE m >= 1
      BY <1>2, <1>6, <3>2
    <3> QED BY <3>1, <3>2
  <2>2. Deleted(s, l, x, n + 1)
    BY <1>1, <1>14, <2>1 DEF Absent
  <2>3. m \in 0 .. n /\ n + 1 \in Nat /\ (n + 1) - 1 = n
    BY <1>2
  <2>4. \A k \in DOMAIN s : k > x /\ s[k] = Del(l) => k > m + 1
    BY <2>1
  <2>5. Deleted(t, l, m, (n + 1) - 1)
    BY <1>10, <2>2, <2>3, <2>4
  <2> QED BY <2>3, <2>5
<1>15. ASSUME l \in DOMAIN c \cap DOMAIN d, d[l] < c[l] PROVE FALSE
  <2>1. c[l] \in Nat /\ d[l] # c[l]
    BY <1>15, ConfsMember, BoundsAreNaturals
  <2>2. s[1].type = "full" /\ l \in DOMAIN s[1].conf /\ d[l] = s[1].conf[l]
    <3>1. CASE s[1].type = "add"
      BY <1>3, <1>15, <2>1, <3>1 DEF Apply, AddLocation
    <3>2. CASE s[1].type = "del"
      BY <1>3, <1>15, <2>1, <3>2 DEF Apply, DelLocation
    <3>3. CASE s[1].type = "full"
      BY <1>3, <1>15, <2>1, <3>3 DEF Apply, ApplyFull
    <3> QED BY <1>3, <3>1, <3>2, <3>3
  <2>3. Has(c, s, l, 0) /\ IsStage(s, 0) /\ Stage(c, s, 0) = c
    BY <1>15 DEF Has, IsStage, Stage
  <2>4. Present(c, s, l, 0)
    BY <1>1, <1>2, <2>3 DEF Present
  <2>5. Taken(c, s, l, 0) /\ IsStage(s, 1) /\ Stage(c, s, 1) = s[1].conf
    BY <1>2, <1>15, <2>2, <2>3, <2>4 DEF Taken, IsStage, Stage
  <2>6. Deleted(s, l, 0, 1)
    BY <1>1, <1>2, <1>15, <2>2, <2>3, <2>5 DEF Forward
  <2> QED BY <1>2, <2>6 DEF Deleted
<1> QED BY <1>12, <1>13, <1>14, <1>15

(* What is on its way is lost.                                             *)
LEMMA EmptyWay ==
  ASSUME NEW c \in Confs, NEW l
  PROVE  /\ Forward(c, <<>>, l)
         /\ \A s \in Seq(ToProc), v \in Nat :
              Behind(c, s, l, v) /\ (\A k \in DOMAIN s : s[k] # Del(l)) => Behind(c, <<>>, l, v)
         /\ \A s \in Seq(ToProc) :
              Absent(c, s, l) /\ (\A k \in DOMAIN s : s[k] # Del(l)) => Absent(c, <<>>, l)
         /\ Absent(c, <<>>, l) <=> l \notin DOMAIN c
         /\ Behind(c, <<>>, l, 0) <=> (l \in DOMAIN c => c[l] = 0)
<1>1. Len(<<>>) = 0 /\ DOMAIN <<>> = {}
  OBVIOUS
<1>2. PICK e : e = <<>>
  OBVIOUS
<1>3. Len(e) = 0 /\ DOMAIN e = {} /\ \A i, j : ~Deleted(e, l, i, j)
  BY <1>1, <1>2 DEF Deleted
<1>4. Forward(c, e, l)
  BY <1>3 DEF Forward
<1>5. Absent(c, e, l) <=> l \notin DOMAIN c
  BY <1>3 DEF Absent, Has
<1>6. Taken(c, e, l, 0) <=> l \in DOMAIN c
  BY <1>3 DEF Taken, IsStage, Stage, Present, Has
<1>7. \A v : Behind(c, e, l, v) <=> (l \in DOMAIN c => ~(v < c[l]))
  BY <1>3, <1>6 DEF Behind, Stage
<1>8. ASSUME NEW s \in Seq(ToProc), \A k \in DOMAIN s : s[k] # Del(l)
      PROVE  /\ \A i, j : ~Deleted(s, l, i, j)
             /\ l \in DOMAIN c => Taken(c, s, l, 0) /\ Has(c, s, l, 0)
             /\ Stage(c, s, 0) = c /\ 0 \in 0 .. Len(s)
  <2>1. Len(s) \in Nat /\ \A i, j : ~Deleted(s, l, i, j)
    BY <1>8 DEF Deleted
  <2> QED BY <1>8, <2>1 DEF Taken, IsStage, Stage, Present, Has
<1>9. ASSUME NEW s \in Seq(ToProc), NEW v \in Nat, Behind(c, s, l, v),
             \A k \in DOMAIN s : s[k] # Del(l)
      PROVE  Behind(c, e, l, v)
  BY <1>7, <1>8, <1>9 DEF Behind
<1>10. ASSUME NEW s \in Seq(ToProc), Absent(c, s, l), \A k \in DOMAIN s : s[k] # Del(l)
       PROVE  Absent(c, e, l)
  BY <1>5, <1>8, <1>10 DEF Absent
<1>11. l \in DOMAIN c => c[l] \in Nat
  BY ConfsMember, BoundsAreNaturals
<1> QED BY <1>2, <1>4, <1>5, <1>7, <1>9, <1>10, <1>11

(* A process connects and finds what is retained.                          *)
LEMMA NewWay ==
  ASSUME NEW c \in Confs, BrokerType, NEW l, NEW s, s = Replayed,
         Behind(c, <<>>, l, Val(keptFull, l))
  PROVE  /\ Forward(c, s, l) /\ Behind(c, s, l, Val(keptFull, l))
         /\ l \notin keptAdds /\ Absent(c, <<>>, l) => Absent(c, s, l)
<1>1. PICK n \in Nat :
        /\ s \in Seq(ToProc) /\ Len(s) = n + 1 /\ DOMAIN s = 1 .. n + 1
        /\ s[n + 1] = Full(keptFull) /\ \A i \in 1 .. n : \E x \in keptAdds : s[i] = Add(x)
  <2>1. /\ Replayed \in Seq(ToProc)
        /\ \E n \in Nat : /\ Len(Replayed) = n + 1 /\ Replayed[n + 1] = Full(keptFull)
                          /\ \A i \in 1 .. n : \E x \in keptAdds : Replayed[i] = Add(x)
    BY ReplayedMsgs
  <2> QED BY <2>1
<1>2. /\ \A x : Add(x).type = "add" /\ Add(x).loc = x
      /\ Full(keptFull).type = "full" /\ Full(keptFull).conf = keptFull
  BY DEF Add, Full
<1>3. /\ \A i \in 0 .. n : IsStage(s, i) => i = 0
      /\ Stage(c, s, 0) = c /\ Stage(c, s, n + 1) = keptFull
  BY <1>1, <1>2 DEF IsStage, Stage
<1>4. l \in DOMAIN c => c[l] \in Nat /\ ~(Val(keptFull, l) < c[l])
  <2>1. Taken(c, <<>>, l, 0) <=> l \in DOMAIN c
    BY DEF Taken, IsStage, Stage, Present, Has
  <2>2. \A i, j : ~Deleted(<<>>, l, i, j)
    BY DEF Deleted
  <2>3. Stage(c, <<>>, 0) = c /\ 0 \in 0 .. Len(<<>>)
    BY DEF Stage
  <2> QED BY <2>1, <2>2, <2>3, ConfsMember, BoundsAreNaturals DEF Behind
<1>5. \A i \in 0 .. n + 1 : IsStage(s, i) => i = 0 \/ i = n + 1
  BY <1>3
<1>6. Forward(c, s, l)
  <2> SUFFICES ASSUME NEW i \in 0 .. n + 1, NEW j \in 0 .. n + 1, i < j, Taken(c, s, l, i),
                      IsStage(s, j), l \in DOMAIN Stage(c, s, j),
                      Stage(c, s, j)[l] < Stage(c, s, i)[l]
               PROVE  FALSE
    BY <1>1 DEF Forward
  <2>1. i = 0 /\ j = n + 1
    BY <1>5 DEF Taken
  <2> QED BY <1>3, <1>4, <2>1 DEF Taken, Val
<1>7. Behind(c, s, l, Val(keptFull, l))
  <2> SUFFICES ASSUME NEW i \in 0 .. n + 1, Taken(c, s, l, i),
                      Val(keptFull, l) < Stage(c, s, i)[l]
               PROVE  FALSE
    BY <1>1 DEF Behind
  <2>1. CASE i = 0
    BY <1>3, <1>4, <2>1 DEF Taken
  <2>2. CASE i = n + 1
    <3>1. l \in DOMAIN keptFull /\ keptFull[l] \in Nat
      BY <1>3, <2>2, ConfsMember, BoundsAreNaturals DEF Taken, BrokerType
    <3> QED BY <1>3, <2>2, <3>1 DEF Val
  <2> QED BY <1>5, <2>1, <2>2 DEF Taken
<1>8. ASSUME l \notin keptAdds, Absent(c, <<>>, l) PROVE Absent(c, s, l)
  <2>1. l \notin DOMAIN c
    BY <1>8, EmptyWay
  <2>2. ASSUME NEW m \in 0 .. n + 1 PROVE ~Has(c, s, l, m)
    <3>1. CASE m = 0
      BY <2>1, <3>1 DEF Has
    <3>2. CASE m \in 1 .. n
      BY <1>1, <1>2, <1>8, <3>2 DEF Has
    <3>3. CASE m = n + 1
      BY <1>1, <1>2, <3>3 DEF Has
    <3> QED BY <3>1, <3>2, <3>3
  <2> QED BY <1>1, <2>2 DEF Absent
<1> QED BY <1>6, <1>7, <1>8

-----------------------------------------------------------------------------
(* The agent's link: level 0 is the configuration f that the broker keeps, *)
(* level i the one in message i of s.  A is keptAdds, B is clearing.       *)
LevelGone(s, l, B, i, j) == (i = 0 /\ l \in B) \/ Deleted(s, l, i, j)
Falling(f, s, l, B) ==
    \A i, j \in 0 .. Len(s) :
      /\ i < j /\ IsStage(s, i) /\ IsStage(s, j)
      /\ Val(Stage(f, s, j), l) < Val(Stage(f, s, i), l)
      => LevelGone(s, l, B, i, j)

(* The agent's own configuration c is the last level.                      *)
Ahead(f, s, l, B, c) ==
    \A i \in 0 .. Len(s) :
      IsStage(s, i) /\ Val(c, l) < Val(Stage(f, s, i), l) => LevelGone(s, l, B, i, Len(s) + 1)

(* A level that has location l comes after the location itself.            *)
Backs(s, l, A, m) == IF m = 0 THEN l \in A ELSE m \in DOMAIN s /\ s[m] = Add(l)
Uncleared(s, l, m, i) == \A k \in DOMAIN s : m < k /\ k <= i => s[k] # Clear(l)
Backed(f, s, l, A, B) ==
    \A i \in 0 .. Len(s) :
      IsStage(s, i) /\ l \in DOMAIN Stage(f, s, i) =>
        \/ i = 0 /\ l \in B
        \/ \E m \in 0 .. Len(s) : m <= i /\ Backs(s, l, A, m) /\ Uncleared(s, l, m, i)

(* A deletion goes out in one piece.                                       *)
Shape(s, B) ==
    \A k \in DOMAIN s :
      /\ s[k].type = "clear" => k + 1 \in DOMAIN s /\ s[k + 1] = Del(s[k].loc)
      /\ s[k].type = "del" =>
           /\ k + 1 \in DOMAIN s /\ s[k + 1].type = "full"
           /\ s[k].loc \notin DOMAIN s[k + 1].conf
           /\ IF k = 1 THEN s[k].loc \in B ELSE s[k - 1] = Clear(s[k].loc)
Begun(s, l, A) ==
    /\ l \notin A /\ s # <<>>
    /\ s[1] = Del(l) \/ (s[1].type = "full" /\ l \notin DOMAIN s[1].conf)

LEMMA LevelVal ==
  ASSUME NEW f \in Confs, NEW s \in Seq(FromProc), NEW l, NEW i \in 0 .. Len(s), IsStage(s, i)
  PROVE  Stage(f, s, i) \in Confs /\ Val(Stage(f, s, i), l) \in Nat
<1>1. Stage(f, s, i) \in Confs
  <2>1. CASE i = 0
    BY <2>1 DEF Stage
  <2>2. CASE i # 0
    <3>1. s[i] \in FromProc /\ s[i].type = "full"
      BY <2>2 DEF IsStage
    <3> QED BY <2>2, <3>1 DEF FromProc, FullMsgs, Stage
  <2> QED BY <2>1, <2>2
<1>2. \A c \in Confs : Val(c, l) \in Nat
  BY ConfsMember, BoundsAreNaturals DEF Val
<1> QED BY <1>1, <1>2

(* The broker takes the first message.                                     *)
Retained(h, A) == IF h.type = "add" THEN A \cup {h.loc}
                  ELSE IF h.type = "clear" THEN A \ {h.loc} ELSE A
Clearing(h, B) == IF h.type = "clear" THEN B \cup {h.loc}
                  ELSE IF h.type = "full" THEN {} ELSE B
Replacing(h, f) == IF h.type = "full" THEN h.conf ELSE f
LEMMA TakenLink ==
  ASSUME NEW f \in Confs, NEW s \in Seq(FromProc), s # <<>>,
         NEW A \in SUBSET Dynamic, NEW B \in SUBSET Dynamic, Shape(s, B)
  PROVE  /\ Shape(Tail(s), Clearing(s[1], B))
         /\ \A l : Falling(f, s, l, B)
                    => Falling(Replacing(s[1], f), Tail(s), l, Clearing(s[1], B))
         /\ \A l, c : Ahead(f, s, l, B, c)
                       => Ahead(Replacing(s[1], f), Tail(s), l, Clearing(s[1], B), c)
         /\ \A l : Backed(f, s, l, A, B)
                    => Backed(Replacing(s[1], f), Tail(s), l, Retained(s[1], A), Clearing(s[1], B))
         /\ \A T : (\A l \in B \ T : Begun(s, l, A))
                   => \A l \in Clearing(s[1], B) \ T : Begun(Tail(s), l, Retained(s[1], A))
<1>12. PICK t, h, g, C, D :
         /\ t = Tail(s) /\ h = s[1] /\ g = Replacing(h, f)
         /\ C = Retained(h, A) /\ D = Clearing(h, B)
  OBVIOUS
<1> USE <1>12 DEF Replacing
<1>1. PICK n \in Nat : n = Len(s)
  OBVIOUS
<1>2. /\ n >= 1 /\ Len(t) = n - 1 /\ DOMAIN t = 1 .. n - 1 /\ DOMAIN s = 1 .. n
      /\ \A k \in 1 .. n - 1 : t[k] = s[k + 1]
      /\ h \in FromProc /\ t \in Seq(FromProc)
  BY <1>1
<1>3. /\ \A x : /\ Del(x).type = "del" /\ Del(x).loc = x /\ Add(x).type = "add" /\ Add(x).loc = x
                /\ Clear(x).type = "clear" /\ Clear(x).loc = x
      /\ h.type = "add" => h = Add(h.loc)
      /\ h.type = "del" => h = Del(h.loc)
      /\ h.type = "clear" => h = Clear(h.loc)
      /\ h.type \in {"add", "del", "clear", "full", "reply"}
  BY <1>2 DEF Del, Add, Clear, FromProc, FullMsgs
<1>4. /\ h.type = "clear" => t # <<>> /\ t[1] = Del(h.loc)
      /\ h.type = "del" => /\ t # <<>> /\ t[1].type = "full" /\ h.loc \notin DOMAIN t[1].conf
                           /\ h.loc \in B
  <2>1. 1 \in DOMAIN s
    BY <1>2
  <2>2. /\ h.type = "clear" => 2 \in DOMAIN s /\ s[2] = Del(h.loc)
        /\ h.type = "del" => /\ 2 \in DOMAIN s /\ s[2].type = "full"
                             /\ h.loc \notin DOMAIN s[2].conf /\ h.loc \in B
    BY <2>1 DEF Shape
  <2>3. 2 \in DOMAIN s => t[1] = s[2] /\ t # <<>>
    BY <1>2
  <2> QED BY <2>2, <2>3
<1>5. Shape(t, D)
  <2> SUFFICES ASSUME NEW k \in DOMAIN t
               PROVE  /\ t[k].type = "clear" => k + 1 \in DOMAIN t /\ t[k + 1] = Del(t[k].loc)
                      /\ t[k].type = "del" =>
                           /\ k + 1 \in DOMAIN t /\ t[k + 1].type = "full"
                           /\ t[k].loc \notin DOMAIN t[k + 1].conf
                           /\ IF k = 1 THEN t[k].loc \in D ELSE t[k - 1] = Clear(t[k].loc)
    BY DEF Shape
  <2>1. /\ k \in 1 .. n - 1 /\ k + 1 \in DOMAIN s /\ t[k] = s[k + 1]
        /\ k + 2 \in DOMAIN s => k + 1 \in DOMAIN t /\ t[k + 1] = s[k + 2]
    BY <1>2
  <2>2. /\ t[k].type = "clear" => k + 2 \in DOMAIN s /\ s[k + 2] = Del(t[k].loc)
        /\ t[k].type = "del" =>
             /\ k + 2 \in DOMAIN s /\ s[k + 2].type = "full" /\ t[k].loc \notin DOMAIN s[k + 2].conf
             /\ s[k] = Clear(t[k].loc)
    <3>1. (k + 1) + 1 = k + 2 /\ (k + 1) - 1 = k /\ k + 1 # 1
      BY <2>1
    <3> QED BY <2>1, <3>1 DEF Shape
  <2>3. t[k].type = "del" => IF k = 1 THEN t[k].loc \in D ELSE t[k - 1] = Clear(t[k].loc)
    <3>1. CASE k = 1
      BY <1>3, <2>2, <3>1 DEF Clearing
    <3>2. CASE k # 1
      BY <1>2, <2>1, <2>2, <3>2
    <3> QED BY <3>1, <3>2
  <2> QED BY <2>1, <2>2, <2>3
(* Where the levels were.                                                  *)
<1> DEFINE was(i) == IF i >= 1 THEN i + 1 ELSE IF h.type = "full" THEN 1 ELSE 0
<1>6. ASSUME NEW i \in 0 .. n - 1, IsStage(t, i)
      PROVE  /\ was(i) \in 0 .. n /\ IsStage(s, was(i)) /\ Stage(g, t, i) = Stage(f, s, was(i))
             /\ i <= was(i) /\ was(i) <= i + 1
  <2>1. CASE i >= 1
    BY <1>2, <1>6, <2>1 DEF IsStage, Stage
  <2>2. CASE i = 0
    BY <1>2, <2>2 DEF IsStage, Stage
  <2> QED BY <2>1, <2>2
<1>7. ASSUME NEW l, NEW i \in 0 .. n - 1, IsStage(t, i), NEW j \in Nat,
             LevelGone(s, l, B, was(i), j)
      PROVE  LevelGone(t, l, D, i, j - 1)
  <2>1. CASE was(i) = 0 /\ l \in B
    BY <1>3, <2>1 DEF LevelGone, Clearing
  <2>2. ASSUME NEW k \in DOMAIN s, was(i) < k, k < j, s[k] = Del(l), k # 1
        PROVE  LevelGone(t, l, D, i, j - 1)
    <3>1. CASE k = i + 1
      <4>1. i = 0 \/ k = was(i)
        BY <3>1
      <4> QED BY <2>2, <3>1, <4>1
    <3>2. CASE k # i + 1
      <4>1. k - 1 \in DOMAIN t /\ i < k - 1 /\ k - 1 < j - 1 /\ t[k - 1] = Del(l)
        BY <1>2, <1>6, <1>7, <2>2, <3>2
      <4> QED BY <4>1 DEF LevelGone, Deleted
    <3> QED BY <3>1, <3>2
  <2>3. ASSUME s[1] = Del(l), was(i) < 1
        PROVE  LevelGone(t, l, D, i, j - 1)
    <3>1. i = 0 /\ h.type = "del" /\ h.loc = l
      BY <1>3, <2>3
    <3>2. l \in D
      BY <1>4, <3>1 DEF Clearing
    <3> QED BY <3>1, <3>2 DEF LevelGone
  <2> HIDE DEF was
  <2>4. (was(i) = 0 /\ l \in B) \/ \E k \in DOMAIN s : was(i) < k /\ k < j /\ s[k] = Del(l)
    BY <1>7 DEF LevelGone, Deleted
  <2> QED BY <2>1, <2>2, <2>3, <2>4
<1>8. ASSUME NEW l, Falling(f, s, l, B) PROVE Falling(g, t, l, D)
  <2> SUFFICES ASSUME NEW i \in 0 .. n - 1, NEW j \in 0 .. n - 1, i < j, IsStage(t, i), IsStage(t, j),
                      Val(Stage(g, t, j), l) < Val(Stage(g, t, i), l)
               PROVE  LevelGone(t, l, D, i, j)
    BY <1>2 DEF Falling
  <2>1. was(j) = j + 1 /\ was(i) < j + 1 /\ was(i) \in 0 .. n /\ j + 1 \in 0 .. n
    BY <1>6
  <2>2. /\ IsStage(s, was(i)) /\ Stage(g, t, i) = Stage(f, s, was(i))
        /\ IsStage(s, j + 1) /\ Stage(g, t, j) = Stage(f, s, j + 1)
    BY <1>6, <2>1
  <2> HIDE DEF was
  <2>3. LevelGone(s, l, B, was(i), j + 1)
    BY <1>1, <1>8, <2>1, <2>2 DEF Falling
  <2>4. j + 1 \in Nat /\ (j + 1) - 1 = j
    OBVIOUS
  <2> QED BY <1>7, <2>3, <2>4
<1>9. ASSUME NEW l, NEW c, Ahead(f, s, l, B, c) PROVE Ahead(g, t, l, D, c)
  <2> SUFFICES ASSUME NEW i \in 0 .. n - 1, IsStage(t, i), Val(c, l) < Val(Stage(g, t, i), l)
               PROVE  LevelGone(t, l, D, i, n)
    BY <1>2 DEF Ahead
  <2>1. was(i) \in 0 .. n /\ IsStage(s, was(i)) /\ Stage(g, t, i) = Stage(f, s, was(i))
    BY <1>6
  <2> HIDE DEF was
  <2>2. LevelGone(s, l, B, was(i), n + 1)
    BY <1>1, <1>9, <2>1 DEF Ahead
  <2>3. n + 1 \in Nat /\ (n + 1) - 1 = n
    OBVIOUS
  <2> QED BY <1>7, <2>2, <2>3
<1>10. ASSUME NEW l, Backed(f, s, l, A, B) PROVE Backed(g, t, l, C, D)
  <2> SUFFICES ASSUME NEW i \in 0 .. n - 1, IsStage(t, i), l \in DOMAIN Stage(g, t, i),
                      ~(i = 0 /\ l \in D)
               PROVE  \E m \in 0 .. n - 1 : m <= i /\ Backs(t, l, C, m) /\ Uncleared(t, l, m, i)
    BY <1>2 DEF Backed
  <2>1. was(i) \in 0 .. n /\ IsStage(s, was(i)) /\ Stage(g, t, i) = Stage(f, s, was(i))
        /\ i <= was(i) /\ was(i) <= i + 1
    BY <1>6
  <2>2. ~(was(i) = 0 /\ l \in B)
    BY <1>3 DEF Clearing
  <2> HIDE DEF was
  <2>3. PICK m \in 0 .. n : m <= was(i) /\ Backs(s, l, A, m) /\ Uncleared(s, l, m, was(i))
    BY <1>1, <1>10, <2>1, <2>2 DEF Backed
  <2>4. ASSUME NEW k \in DOMAIN t, Down(m) < k, k <= i PROVE t[k] # Clear(l)
    <3>1. k + 1 \in DOMAIN s /\ m < k + 1 /\ t[k] = s[k + 1] /\ i >= 1
      BY <1>2, <2>4 DEF Down
    <3>2. k + 1 <= was(i)
      BY <2>4, <3>1 DEF was
    <3> QED BY <2>3, <3>1, <3>2 DEF Uncleared
  <2>5. Down(m) \in 0 .. n - 1 /\ Down(m) <= i
    BY <1>2, <2>1, <2>3 DEF Down
  <2>6. Backs(t, l, C, Down(m))
    <3>1. CASE m > 1
      BY <1>2, <2>3, <3>1 DEF Backs, Down
    <3>2. CASE m = 1
      BY <1>3, <2>3, <3>2 DEF Backs, Down, Retained
    <3>3. CASE m = 0
      <4>1. l \in A
        BY <2>3, <3>3 DEF Backs
      <4>2. h # Clear(l)
        <5>1. CASE was(i) >= 1
          BY <1>2, <2>3, <3>3, <5>1 DEF Uncleared
        <5>2. CASE was(i) = 0
          <6>1. i = 0
            BY <5>2 DEF was
          <6>2. h = Clear(l) => l \in D
            BY <1>3 DEF Clearing
          <6> QED BY <6>1, <6>2
        <5> QED BY <2>1, <5>1, <5>2
      <4>3. l \in C
        BY <1>3, <4>1, <4>2 DEF Retained
      <4> QED BY <3>3, <4>3 DEF Backs, Down
    <3> QED BY <3>1, <3>2, <3>3
  <2> QED BY <2>4, <2>5, <2>6 DEF Uncleared
<1>11. ASSUME NEW T, \A l \in B \ T : Begun(s, l, A), NEW l \in D \ T PROVE Begun(t, l, C)
  <2>1. l \in B => /\ h.type \in {"del", "full"} /\ l \notin A
                   /\ h.type = "del" => h.loc = l
    BY <1>3, <1>11 DEF Begun
  <2>2. CASE h.type = "clear"
    BY <1>3, <1>4, <2>1, <2>2 DEF Begun, Clearing, Retained
  <2>3. CASE h.type = "del"
    BY <1>3, <1>4, <2>1, <2>3 DEF Begun, Clearing, Retained
  <2>4. CASE h.type \in {"full", "add", "reply"}
    BY <1>3, <2>1, <2>4 DEF Clearing
  <2> QED BY <1>3, <2>2, <2>3, <2>4
<1> QED BY <1>5, <1>8, <1>9, <1>10, <1>11, <1>12

(* The agent publishes: q follows what is under way, and its configuration *)
(* c becomes d.                                                            *)
LEMMA SentLink ==
  ASSUME NEW f \in Confs, NEW s \in Seq(FromProc), NEW q \in Seq(FromProc),
         NEW c \in Confs, NEW d \in Confs,
         NEW A \in SUBSET Dynamic, NEW B \in SUBSET Dynamic
  PROVE  /\ \A l :
              /\ Falling(f, s, l, B) /\ Ahead(f, s, l, B, c)
              /\ \/ Val(c, l) <= Val(d, l)
                 \/ \E p \in DOMAIN q : /\ q[p] = Del(l)
                                        /\ \A k \in DOMAIN q : q[k].type = "full" => p < k
              /\ \A k \in DOMAIN q : q[k].type = "full" => q[k].conf = d
              => Falling(f, s \o q, l, B) /\ Ahead(f, s \o q, l, B, d)
         /\ \A l :
              /\ Backed(f, s, l, A, B)
              /\ \A k \in DOMAIN q : q[k].type = "full" /\ l \in DOMAIN q[k].conf =>
                   /\ \E m \in 0 .. Len(s) : Backs(s, l, A, m) /\ Uncleared(s, l, m, Len(s))
                   /\ \A x \in DOMAIN q : q[x] # Clear(l)
              => Backed(f, s \o q, l, A, B)
         /\ Shape(s, B) /\ Shape(q, {}) => Shape(s \o q, B)
         /\ \A l : Begun(s, l, A) => Begun(s \o q, l, A)
<1>12. PICK t : t = s \o q
  OBVIOUS
<1>1. PICK n \in Nat, o \in Nat : n = Len(s) /\ o = Len(q)
  OBVIOUS
<1>2. /\ t \in Seq(FromProc) /\ Len(t) = n + o /\ DOMAIN t = 1 .. n + o
      /\ DOMAIN s = 1 .. n /\ DOMAIN q = 1 .. o
      /\ \A k \in 1 .. n : t[k] = s[k]
      /\ \A k \in 1 .. o : t[n + k] = q[k]
  BY <1>1, <1>12, ConcatProperties
<1>3. \A x : Val(c, x) \in Nat /\ Val(d, x) \in Nat
  BY ConfsMember, BoundsAreNaturals DEF Val
<1>4. ASSUME NEW i \in 0 .. n
      PROVE  /\ IsStage(t, i) <=> IsStage(s, i)
             /\ IsStage(s, i) => Stage(f, t, i) = Stage(f, s, i)
             /\ \A l : Backs(t, l, A, i) <=> Backs(s, l, A, i)
  <2>1. i # 0 => t[i] = s[i] /\ i \in DOMAIN t /\ i \in DOMAIN s
    BY <1>2
  <2> QED BY <2>1 DEF IsStage, Stage, Backs
<1>5. ASSUME NEW i \in (n + 1) .. (n + o)
      PROVE  /\ i - n \in DOMAIN q /\ t[i] = q[i - n] /\ i # 0
             /\ IsStage(t, i) <=> q[i - n].type = "full"
             /\ Stage(f, t, i) = q[i - n].conf
  <2>1. i - n \in 1 .. o /\ n + (i - n) = i /\ i # 0 /\ i \in DOMAIN t
    BY <1>2
  <2>2. t[i] = q[i - n]
    BY <1>2, <2>1
  <2> QED BY <1>2, <2>1, <2>2 DEF IsStage, Stage
<1>6. ASSUME NEW l, NEW i \in Nat, NEW j \in Nat, NEW x \in Nat, LevelGone(s, l, B, i, j), j <= x
      PROVE  LevelGone(t, l, B, i, x)
  <2>1. CASE i = 0 /\ l \in B
    BY <2>1 DEF LevelGone
  <2>2. ASSUME NEW k \in DOMAIN s, i < k, k < j, s[k] = Del(l)
        PROVE  LevelGone(t, l, B, i, x)
    <3>1. k \in DOMAIN t /\ t[k] = s[k] /\ k \in Nat
      BY <1>2
    <3>2. k < x
      BY <1>6, <2>2, <3>1
    <3> QED BY <2>2, <3>1, <3>2 DEF LevelGone, Deleted
  <2> QED BY <1>6, <2>1, <2>2 DEF LevelGone, Deleted
(* A level before, compared with the new configuration.                    *)
<1>7. ASSUME NEW l, Ahead(f, s, l, B, c),
             \/ Val(c, l) <= Val(d, l)
             \/ \E p \in DOMAIN q : /\ q[p] = Del(l)
                                    /\ \A k \in DOMAIN q : q[k].type = "full" => p < k,
             NEW i \in 0 .. n, IsStage(s, i), Val(d, l) < Val(Stage(f, s, i), l),
             NEW j \in (n + 1) .. (n + o + 1), j = n + o + 1 \/ IsStage(t, j)
      PROVE  LevelGone(t, l, B, i, j)
  <2>1. Val(Stage(f, s, i), l) \in Nat
    BY <1>1, <1>7, LevelVal
  <2>2. CASE Val(c, l) <= Val(d, l)
    <3>1. Val(c, l) < Val(Stage(f, s, i), l)
      BY <1>3, <1>7, <2>1, <2>2
    <3>2. LevelGone(s, l, B, i, n + 1)
      BY <1>1, <1>7, <3>1 DEF Ahead
    <3>3. n + 1 <= j /\ j \in Nat /\ n + 1 \in Nat /\ i \in Nat
      OBVIOUS
    <3> QED BY <1>6, <3>2, <3>3
  <2>3. ASSUME NEW p \in DOMAIN q, q[p] = Del(l), \A k \in DOMAIN q : q[k].type = "full" => p < k
        PROVE  LevelGone(t, l, B, i, j)
    <3>1. n + p \in DOMAIN t /\ t[n + p] = Del(l) /\ i < n + p /\ p \in 1 .. o
      BY <1>2, <2>3
    <3>2. n + p < j
      <4>1. CASE j = n + o + 1
        BY <3>1, <4>1
      <4>2. CASE j # n + o + 1
        <5>1. j \in (n + 1) .. (n + o) /\ IsStage(t, j)
          BY <1>7, <4>2
        <5>2. p < j - n
          BY <1>5, <2>3, <5>1
        <5> QED BY <3>1, <5>1, <5>2
      <4> QED BY <4>1, <4>2
    <3> QED BY <3>1, <3>2 DEF LevelGone, Deleted
  <2> QED BY <1>7, <2>2, <2>3
<1>8. ASSUME NEW l, Falling(f, s, l, B), Ahead(f, s, l, B, c),
             \/ Val(c, l) <= Val(d, l)
             \/ \E p \in DOMAIN q : /\ q[p] = Del(l)
                                    /\ \A k \in DOMAIN q : q[k].type = "full" => p < k,
             \A k \in DOMAIN q : q[k].type = "full" => q[k].conf = d
      PROVE  Falling(f, t, l, B) /\ Ahead(f, t, l, B, d)
  <2>1. ASSUME NEW i \in (n + 1) .. (n + o), IsStage(t, i)
        PROVE  Stage(f, t, i) = d
    BY <1>5, <1>8, <2>1
  <2>2. Falling(f, t, l, B)
    <3> SUFFICES ASSUME NEW i \in 0 .. n + o, NEW j \in 0 .. n + o, i < j, IsStage(t, i),
                        IsStage(t, j), Val(Stage(f, t, j), l) < Val(Stage(f, t, i), l)
                 PROVE  LevelGone(t, l, B, i, j)
      BY <1>2 DEF Falling
    <3>1. CASE j \in 0 .. n
      <4>1. i \in 0 .. n
        BY <3>1
      <4>2. LevelGone(s, l, B, i, j)
        BY <1>1, <1>4, <1>8, <3>1, <4>1 DEF Falling
      <4> QED BY <1>6, <4>2
    <3>2. CASE i \in 0 .. n /\ j \in (n + 1) .. (n + o)
      <4>1. IsStage(s, i) /\ Val(d, l) < Val(Stage(f, s, i), l)
        BY <1>4, <2>1, <3>2
      <4>2. j \in (n + 1) .. (n + o + 1)
        BY <3>2
      <4> QED BY <1>7, <1>8, <3>2, <4>1, <4>2
    <3>3. CASE i \in (n + 1) .. (n + o) /\ j \in (n + 1) .. (n + o)
      BY <1>3, <2>1, <3>3
    <3> QED BY <3>1, <3>2, <3>3
  <2>3. Ahead(f, t, l, B, d)
    <3> SUFFICES ASSUME NEW i \in 0 .. n + o, IsStage(t, i), Val(d, l) < Val(Stage(f, t, i), l)
                 PROVE  LevelGone(t, l, B, i, n + o + 1)
      BY <1>2 DEF Ahead
    <3>1. CASE i \in 0 .. n
      <4>1. IsStage(s, i) /\ Val(d, l) < Val(Stage(f, s, i), l)
        BY <1>4, <3>1
      <4>2. n + o + 1 \in (n + 1) .. (n + o + 1)
        OBVIOUS
      <4> QED BY <1>7, <1>8, <3>1, <4>1, <4>2
    <3>2. CASE i \in (n + 1) .. (n + o)
      BY <1>3, <2>1, <3>2
    <3> QED BY <3>1, <3>2
  <2> QED BY <2>2, <2>3
<1>9. ASSUME NEW l, Backed(f, s, l, A, B),
             \A k \in DOMAIN q : q[k].type = "full" /\ l \in DOMAIN q[k].conf =>
               /\ \E m \in 0 .. Len(s) : Backs(s, l, A, m) /\ Uncleared(s, l, m, Len(s))
               /\ \A x \in DOMAIN q : q[x] # Clear(l)
      PROVE  Backed(f, t, l, A, B)
  <2> SUFFICES ASSUME NEW i \in 0 .. n + o, IsStage(t, i), l \in DOMAIN Stage(f, t, i),
                      ~(i = 0 /\ l \in B)
               PROVE  \E m \in 0 .. n + o : m <= i /\ Backs(t, l, A, m) /\ Uncleared(t, l, m, i)
    BY <1>2 DEF Backed
  <2>1. CASE i \in 0 .. n
    <3>1. PICK m \in 0 .. n : m <= i /\ Backs(s, l, A, m) /\ Uncleared(s, l, m, i)
      BY <1>1, <1>4, <1>9, <2>1 DEF Backed
    <3>2. Uncleared(t, l, m, i)
      BY <1>2, <2>1, <3>1 DEF Uncleared
    <3>3. Backs(t, l, A, m) /\ m \in 0 .. n + o
      BY <1>4, <3>1
    <3> QED BY <3>1, <3>2, <3>3
  <2>2. CASE i \in (n + 1) .. (n + o)
    <3>1. i - n \in DOMAIN q /\ q[i - n].type = "full" /\ l \in DOMAIN q[i - n].conf
      BY <1>5, <2>2
    <3>2. PICK m \in 0 .. n : Backs(s, l, A, m) /\ Uncleared(s, l, m, n)
      BY <1>1, <1>9, <3>1
    <3>3. \A x \in DOMAIN q : q[x] # Clear(l)
      BY <1>9, <3>1
    <3>4. Uncleared(t, l, m, i)
      <4> SUFFICES ASSUME NEW k \in DOMAIN t, m < k, k <= i PROVE t[k] # Clear(l)
        BY DEF Uncleared
      <4>1. CASE k \in 1 .. n
        BY <1>2, <3>2, <4>1 DEF Uncleared
      <4>2. CASE k \in (n + 1) .. (n + o)
        BY <1>5, <3>3, <4>2
      <4> QED BY <1>2, <4>1, <4>2
    <3>5. Backs(t, l, A, m) /\ m \in 0 .. n + o /\ m <= i
      BY <1>4, <2>2, <3>2
    <3> QED BY <3>4, <3>5
  <2> QED BY <2>1, <2>2
<1>10. ASSUME Shape(s, B), Shape(q, {}) PROVE Shape(t, B)
  <2> SUFFICES ASSUME NEW k \in DOMAIN t
               PROVE  /\ t[k].type = "clear" => k + 1 \in DOMAIN t /\ t[k + 1] = Del(t[k].loc)
                      /\ t[k].type = "del" =>
                           /\ k + 1 \in DOMAIN t /\ t[k + 1].type = "full"
                           /\ t[k].loc \notin DOMAIN t[k + 1].conf
                           /\ IF k = 1 THEN t[k].loc \in B ELSE t[k - 1] = Clear(t[k].loc)
    BY DEF Shape
  <2>1. CASE k \in 1 .. n
    <3>1. /\ k \in DOMAIN s /\ t[k] = s[k]
          /\ k + 1 \in DOMAIN s => k + 1 \in DOMAIN t /\ t[k + 1] = s[k + 1]
          /\ k # 1 => t[k - 1] = s[k - 1]
      BY <1>2, <2>1
    <3> QED BY <1>10, <3>1 DEF Shape
  <2>2. CASE k \in (n + 1) .. (n + o)
    <3>1. PICK x \in 1 .. o : k = n + x
      <4>1. k - n \in 1 .. o /\ k = n + (k - n)
        BY <2>2
      <4> QED BY <4>1
    <3>2. /\ x \in DOMAIN q /\ t[k] = q[x]
          /\ x + 1 \in DOMAIN q => k + 1 \in DOMAIN t /\ t[k + 1] = q[x + 1]
          /\ x # 1 => t[k - 1] = q[x - 1] /\ k # 1
      <4>1. x + 1 \in DOMAIN q => k + 1 \in DOMAIN t /\ t[k + 1] = q[x + 1]
        <5>1. k + 1 = n + (x + 1)
          BY <3>1
        <5> QED BY <1>2, <5>1
      <4>2. x # 1 => t[k - 1] = q[x - 1] /\ k # 1
        <5>1. x # 1 => k - 1 = n + (x - 1) /\ x - 1 \in 1 .. o
          BY <3>1
        <5> QED BY <1>2, <3>1, <5>1
      <4> QED BY <1>2, <3>1, <4>1, <4>2
    <3>3. /\ q[x].type = "clear" => x + 1 \in DOMAIN q /\ q[x + 1] = Del(q[x].loc)
          /\ q[x].type = "del" =>
               /\ x + 1 \in DOMAIN q /\ q[x + 1].type = "full"
               /\ q[x].loc \notin DOMAIN q[x + 1].conf
               /\ x # 1 /\ q[x - 1] = Clear(q[x].loc)
      BY <1>10, <3>2 DEF Shape
    <3> QED BY <3>2, <3>3
  <2> QED BY <1>2, <2>1, <2>2
<1>11. ASSUME NEW l, Begun(s, l, A) PROVE Begun(t, l, A)
  <2>1. s # <<>>
    BY <1>11 DEF Begun
  <2>2. n >= 1
    BY <1>1, <2>1
  <2>3. t # <<>> /\ t[1] = s[1]
    BY <1>2, <2>2
  <2> QED BY <1>11, <2>3 DEF Begun
<1> QED BY <1>1, <1>8, <1>9, <1>10, <1>11, <1>12

(* What a change sends, and what it does to the settings.                  *)
LEMMA SentShape ==
  ASSUME RequestType, NEW u \in DOMAIN requests, NEW c \in Confs, Static \subseteq DOMAIN c,
         \A x \in DOMAIN c : c[x] < u, NEW q, q = Sent(c, u), NEW d, d = Carried(c, u)
  PROVE  /\ Shape(q, {})
         /\ \A l : \/ Val(c, l) <= Val(d, l)
                  \/ \E p \in DOMAIN q : /\ q[p] = Del(l)
                                         /\ \A k \in DOMAIN q : q[k].type = "full" => p < k
         /\ \A k \in DOMAIN q : q[k].type = "full" =>
              /\ q[k].conf = d
              /\ \A l \in DOMAIN d : l \in DOMAIN c /\ \A x \in DOMAIN q : q[x] # Clear(l)
         /\ \A l \in DOMAIN d : \/ d[l] = 0 \/ (l \in DOMAIN c /\ d[l] = c[l])
                              \/ (d[l] = u /\ Possible(c, u))
<1> DEFINE r == requests[u]
<1>1. /\ u \in Nat /\ r.op \in {"put", "add", "del"}
      /\ \A x \in DOMAIN c : c[x] \in Nat
  BY RequestOf, ConfsMember, BoundsAreNaturals
<1>2. /\ \A x : /\ Del(x).type = "del" /\ Del(x).loc = x /\ Add(x).type = "add"
                /\ Clear(x).type = "clear" /\ Clear(x).loc = x
                /\ Full(x).type = "full" /\ Full(x).conf = x
      /\ Reply(u, Possible(c, u)).type = "reply"
      /\ \A x, y : Clear(x) = Clear(y) => x = y
  BY DEF Del, Add, Clear, Full, Reply
<1>6. PICK yes : yes = Reply(u, TRUE)
  OBVIOUS
<1>7. PICK no : no = Reply(u, FALSE)
  OBVIOUS
<1>8. yes.type = "reply" /\ no.type = "reply"
  BY <1>6, <1>7 DEF Reply
<1>3. CASE r.op = "put"
  <2>1. /\ Possible(c, u) <=> r.loc \in DOMAIN c
        /\ d = IF Possible(c, u) THEN [c EXCEPT ![r.loc] = u] ELSE c
        /\ q = <<Full(d), Reply(u, Possible(c, u))>>
    BY <1>3, CarriedCases
  <2>2. DOMAIN q = 1 .. 2 /\ q[1] = Full(d) /\ q[2] = Reply(u, Possible(c, u))
    BY <2>1
  <2>3. \A k \in DOMAIN q : k = 1 \/ k = 2
    BY <2>2
  <2>4. /\ DOMAIN d = DOMAIN c
        /\ \A l \in DOMAIN c : d[l] = c[l] \/ (d[l] = u /\ Possible(c, u))
    BY <2>1
  <2>5. \A l : Val(c, l) <= Val(d, l)
    BY <1>1, <2>4 DEF Val
  <2>6. Shape(q, {})
    BY <1>2, <2>2, <2>3 DEF Shape
  <2>7. \A k \in DOMAIN q : \A l : q[k] # Clear(l)
    BY <1>2, <2>2, <2>3
  <2>8. \A k \in DOMAIN q : q[k].type = "full" => q[k].conf = d
    BY <1>2, <2>2, <2>3
  <2> QED BY <2>4, <2>5, <2>6, <2>7, <2>8
<1>4. CASE r.op = "add"
  <2>1. /\ d = AddLocation(c, r.loc)
        /\ q = IF Possible(c, u) THEN <<Add(r.loc), yes>> ELSE <<no>>
    BY <1>4, <1>6, <1>7, CarriedCases
  <2>2. \A k \in DOMAIN q : q[k].type \in {"add", "reply"}
    <3>1. CASE Possible(c, u)
      <4>1. q = <<Add(r.loc), yes>>
        BY <2>1, <3>1
      <4>2. \A k \in DOMAIN q : q[k] = Add(r.loc) \/ q[k] = yes
        BY <4>1, PairElems
      <4> QED BY <1>2, <1>8, <4>2
    <3>2. CASE ~Possible(c, u)
      <4>1. \A k \in DOMAIN q : q[k] = no
        BY <2>1, <3>2, OneElem
      <4> QED BY <1>8, <4>1
    <3> QED BY <3>1, <3>2
  <2>3. /\ DOMAIN d = DOMAIN c \cup {r.loc}
        /\ \A l \in DOMAIN d : d[l] = IF l \in DOMAIN c THEN c[l] ELSE 0
    BY <2>1 DEF AddLocation
  <2>4. \A l : Val(c, l) <= Val(d, l)
    BY <1>1, <2>3 DEF Val
  <2>5. Shape(q, {})
    BY <2>2 DEF Shape
  <2> QED BY <2>2, <2>3, <2>4, <2>5
<1>5. CASE r.op = "del"
  <2>1. /\ Possible(c, u) <=> r.loc \in DOMAIN c
        /\ d = DelLocation(c, r.loc)
        /\ q = IF Possible(c, u)
               THEN <<Clear(r.loc), Del(r.loc), Full(d), yes>>
               ELSE <<no>>
    BY <1>5, <1>6, <1>7, CarriedCases
  <2>2. /\ DOMAIN d = DOMAIN c \ {r.loc} /\ \A l \in DOMAIN d : d[l] = c[l]
    BY <2>1 DEF DelLocation
  <2>3. \A l : l # r.loc => Val(c, l) <= Val(d, l)
    BY <1>1, <2>2 DEF Val
  <2>4. CASE Possible(c, u)
    <3>1. /\ DOMAIN q = 1 .. 4 /\ q[1] = Clear(r.loc) /\ q[2] = Del(r.loc)
          /\ q[3] = Full(d) /\ q[4] = yes
      BY <2>1, <2>4
    <3>2. \A k \in DOMAIN q : k = 1 \/ k = 2 \/ k = 3 \/ k = 4
      BY <3>1
    <3>3. /\ q[1].type = "clear" /\ q[2].type = "del" /\ q[3].type = "full" /\ q[4].type = "reply"
          /\ q[1].loc = r.loc /\ q[2].loc = r.loc /\ q[3].conf = d
      BY <1>2, <1>8, <3>1
    <3>9. \A k \in DOMAIN q : q[k].type = "full" => k = 3 /\ q[k].conf = d
      BY <3>2, <3>3
    <3>4. r.loc \notin DOMAIN d
      BY <2>2
    <3>5. Shape(q, {})
      <4>1. 2 \in DOMAIN q /\ 3 \in DOMAIN q /\ 1 + 1 = 2 /\ 2 + 1 = 3 /\ 2 - 1 = 1
        BY <3>1
      <4> HIDE DEF r
      <4> SUFFICES ASSUME NEW k \in DOMAIN q
                   PROVE  /\ q[k].type = "clear" => k + 1 \in DOMAIN q /\ q[k + 1] = Del(q[k].loc)
                          /\ q[k].type = "del" =>
                               /\ k + 1 \in DOMAIN q /\ q[k + 1].type = "full"
                               /\ q[k].loc \notin DOMAIN q[k + 1].conf
                               /\ k # 1 /\ q[k - 1] = Clear(q[k].loc)
        BY DEF Shape
      <4>2. q[k].type = "clear" => k = 1
        BY <3>2, <3>3
      <4>3. q[k].type = "del" => k = 2
        BY <3>2, <3>3
      <4> QED BY <3>1, <3>3, <3>4, <4>1, <4>2, <4>3
    <3>6. \A l \in DOMAIN d, x \in DOMAIN q : q[x] # Clear(l)
      <4>1. \A l : \A x \in DOMAIN q : q[x] = Clear(l) => l = r.loc
        BY <1>2, <3>1, <3>2, <3>3
      <4> QED BY <3>4, <4>1
    <3>7. /\ 2 \in DOMAIN q /\ q[2] = Del(r.loc)
          /\ \A k \in DOMAIN q : q[k].type = "full" => 2 < k
      BY <3>1, <3>9
    <3>8. \A l : \/ Val(c, l) <= Val(d, l)
                \/ \E p \in DOMAIN q : /\ q[p] = Del(l)
                                       /\ \A k \in DOMAIN q : q[k].type = "full" => p < k
      BY <2>3, <3>7
    <3> QED BY <2>2, <2>4, <3>4, <3>5, <3>6, <3>8, <3>9
  <2>5. CASE ~Possible(c, u)
    <3>1. \A k \in DOMAIN q : q[k].type = "reply"
      BY <1>8, <2>1, <2>5, OneElem
    <3>2. DOMAIN d = DOMAIN c
      BY <2>1, <2>2, <2>5
    <3>3. \A l : Val(c, l) <= Val(d, l)
      BY <1>1, <2>2, <3>2 DEF Val
    <3>4. Shape(q, {})
      BY <3>1 DEF Shape
    <3> QED BY <2>2, <3>1, <3>2, <3>3, <3>4
  <2> QED BY <2>4, <2>5
<1> QED BY <1>1, <1>3, <1>4, <1>5

-----------------------------------------------------------------------------
(* What holds between the agent, the broker and the workers, but for the   *)
(* locations that were torn.  The link from the agent to the broker;       *)
Link(f, s, A, B, T) ==
    /\ Shape(s, B)
    /\ \A l \in B \ T : Begun(s, l, A)
    /\ \A l \in Locs \ T : Falling(f, s, l, B)
    /\ \A l \in Dynamic \ T : Backed(f, s, l, A, B)

(* the agent, which has read what the broker kept ...                      *)
Ready == linked[Agent] /\ \A i \in DOMAIN inbox[Agent] : inbox[Agent][i].type # "full"
Leads == Ready => \A l \in Locs \ torn : Ahead(keptFull, outbox, l, clearing, conf[Agent])

(* ... or is about to;                                                     *)
Starts ==
    \A i \in DOMAIN inbox[Agent] : inbox[Agent][i].type = "full" =>
      /\ inbox[Agent][i].conf = keptFull /\ outbox = <<>>
      /\ \A l \in keptAdds :
           \/ l \in DOMAIN conf[Agent]
           \/ \E m \in DOMAIN inbox[Agent] : m < i /\ inbox[Agent][m] = Add(l)

(* every setting is one of a change that was carried out;                  *)
Known(c) == \A l \in DOMAIN c : c[l] \in done \cup {0}
Settings ==
    /\ Known(conf[Agent]) /\ Known(keptFull)
    /\ \A i \in DOMAIN outbox : outbox[i].type = "full" => Known(outbox[i].conf)

(* the way of worker w.  Of a location that is being deleted nothing is    *)
(* left on it once the deletion has been sent.                             *)
Way(w) ==
    /\ ~linked[w] => inbox[w] = <<>>
    /\ \A l \in Locs \ torn :
         /\ Forward(conf[w], inbox[w], l)
         /\ Behind(conf[w], inbox[w], l, Val(keptFull, l))
         /\ l \in clearing /\ outbox[1] # Del(l) => Absent(conf[w], inbox[w], l)

BackInv ==
    /\ Link(keptFull, outbox, keptAdds, clearing, torn)
    /\ Leads /\ Starts /\ Settings
    /\ \A w \in Workers : Way(w)

-----------------------------------------------------------------------------
(* The agent and its link, step by step.                                   *)

(* More locations are torn.                                                *)
LEMMA LinkTorn ==
  ASSUME NEW f, NEW s, NEW A, NEW B, NEW T, NEW U, T \subseteq U, Link(f, s, A, B, T)
  PROVE  Link(f, s, A, B, U)
BY DEF Link

(* Neither the link nor the agent moves.                                   *)
LEMMA ElsewhereBack ==
  ASSUME BackInv, torn \subseteq torn',
         UNCHANGED <<outbox, keptAdds, keptFull, done, clearing>>,
         conf'[Agent] = conf[Agent], linked'[Agent] = linked[Agent],
         inbox'[Agent] = inbox[Agent]
  PROVE  /\ Link(keptFull, outbox, keptAdds, clearing, torn)'
         /\ Leads' /\ Starts' /\ Settings'
<1>1. Link(keptFull, outbox, keptAdds, clearing, torn) /\ Leads /\ Starts /\ Settings
  BY DEF BackInv
<1>2. Link(keptFull', outbox', keptAdds', clearing', torn')
  BY <1>1, LinkTorn
<1>3. Leads'
  BY <1>1 DEF Leads, Ready
<1>4. Starts'
  BY <1>1 DEF Starts
<1>5. Settings'
  BY <1>1 DEF Settings, Known
<1> QED BY <1>2, <1>3, <1>4, <1>5

(* A change is sent to the agent.                                          *)
LEMMA SendBack ==
  ASSUME Types, BackInv, NEW l \in Locs, NEW op, SendRpc(op, l)
  PROVE  /\ Link(keptFull, outbox, keptAdds, clearing, torn)'
         /\ Leads' /\ Starts' /\ Settings'
<1>1. /\ UNCHANGED <<outbox, keptAdds, keptFull, done, clearing, torn, conf, linked>>
      /\ \/ inbox'[Agent] = inbox[Agent]
         \/ inbox'[Agent] = Append(inbox[Agent], Rpc(Len(requests) + 1))
  BY DEF SendRpc, broker, history, Types, MailType, Procs
<1>2. CASE inbox'[Agent] = inbox[Agent]
  BY <1>1, <1>2, ElsewhereBack
<1>3. CASE inbox'[Agent] = Append(inbox[Agent], Rpc(Len(requests) + 1))
  <2>1. PICK s, t, m : s = inbox[Agent] /\ t = inbox'[Agent] /\ m = Rpc(Len(requests) + 1)
    OBVIOUS
  <2>2. s \in Seq(ToProc) /\ m.type = "rpc" /\ t = Append(s, m)
    BY <1>3, <2>1, InboxOfAgent DEF Rpc
  <2>3. /\ DOMAIN s = 1 .. Len(s) /\ DOMAIN t = 1 .. Len(s) + 1 /\ Len(s) \in Nat
        /\ t[Len(s) + 1] = m /\ \A i \in DOMAIN s : t[i] = s[i]
    BY <2>2
  <2>4. \A i \in DOMAIN t : t[i].type = "full" => i \in DOMAIN s /\ s[i] = t[i]
    BY <2>2, <2>3
  <2>5. \A i \in DOMAIN s : i \in DOMAIN t /\ t[i] = s[i]
    BY <2>3
  <2>6. Link(keptFull, outbox, keptAdds, clearing, torn)' /\ Settings'
    BY <1>1 DEF BackInv, Settings, Known
  <2>7. Leads'
    <3>1. Ready' => Ready
      BY <1>1, <2>1, <2>5 DEF Ready
    <3> QED BY <1>1, <3>1 DEF BackInv, Leads
  <2>8. Starts'
    <3> SUFFICES ASSUME NEW i \in DOMAIN t, t[i].type = "full"
                 PROVE  /\ t[i].conf = keptFull' /\ outbox' = <<>>
                        /\ \A x \in keptAdds' :
                             \/ x \in DOMAIN conf'[Agent]
                             \/ \E k \in DOMAIN t : k < i /\ t[k] = Add(x)
      BY <2>1 DEF Starts
    <3>1. /\ s[i].conf = keptFull /\ outbox = <<>>
          /\ \A x \in keptAdds : \/ x \in DOMAIN conf[Agent]
                                 \/ \E k \in DOMAIN s : k < i /\ s[k] = Add(x)
      BY <2>1, <2>4 DEF BackInv, Starts
    <3> QED BY <1>1, <2>4, <2>5, <3>1
  <2> QED BY <2>6, <2>7, <2>8
<1> QED BY <1>1, <1>2, <1>3

(* The connection of the agent breaks.                                     *)
LEMMA CutBack ==
  ASSUME Types, BackInv, Break(Agent) \/ Die(Agent)
  PROVE  /\ Link(keptFull, outbox, keptAdds, clearing, torn)'
         /\ Leads' /\ Starts' /\ Settings'
<1>1. /\ UNCHANGED <<keptAdds, keptFull, done>>
      /\ outbox' = <<>> /\ clearing' = {} /\ inbox'[Agent] = <<>> /\ linked'[Agent] = FALSE
      /\ torn \cup clearing \subseteq torn'
      /\ conf'[Agent] = conf[Agent] \/ conf'[Agent] = FileConf
  BY DEF Break, Die, Cut, CutOff, broker, Types, MailType, ProcType, Procs
<1>2. /\ Link(keptFull, outbox, keptAdds, clearing, torn) /\ Settings
      /\ outbox \in Seq(FromProc)
  BY DEF BackInv, Types, MailType
<1>3. PICK e : e = <<>>
  OBVIOUS
<1>4. DOMAIN e = {} /\ Len(e) = 0
  BY <1>3
<1>5. ASSUME NEW l \in Dynamic \ torn', l \in DOMAIN keptFull PROVE l \in keptAdds
  <2>1. Backed(keptFull, outbox, l, keptAdds, clearing) /\ l \notin clearing
    BY <1>1, <1>2, <1>5 DEF Link
  <2>2. 0 \in 0 .. Len(outbox) /\ IsStage(outbox, 0) /\ Stage(keptFull, outbox, 0) = keptFull
    BY <1>2 DEF IsStage, Stage
  <2>3. PICK m \in 0 .. Len(outbox) : m <= 0 /\ Backs(outbox, l, keptAdds, m)
    BY <1>5, <2>1, <2>2 DEF Backed
  <2>4. m = 0
    BY <1>2, <2>3
  <2> QED BY <2>3, <2>4 DEF Backs
<1>6. Link(keptFull', e, keptAdds', {}, torn')
  <2>1. Shape(e, {})
    BY <1>4 DEF Shape
  <2>2. \A l : Falling(keptFull', e, l, {})
    BY <1>4 DEF Falling
  <2>3. ASSUME NEW l \in Dynamic \ torn' PROVE Backed(keptFull', e, l, keptAdds', {})
    <3> SUFFICES ASSUME NEW i \in 0 .. Len(e), l \in DOMAIN Stage(keptFull', e, i)
                 PROVE  \E m \in 0 .. Len(e) : m <= i /\ Backs(e, l, keptAdds', m)
                                               /\ Uncleared(e, l, m, i)
      BY DEF Backed
    <3>1. i = 0 /\ 0 \in 0 .. Len(e)
      BY <1>4
    <3>2. l \in keptAdds'
      BY <1>1, <1>5, <3>1 DEF Stage
    <3>3. Backs(e, l, keptAdds', 0) /\ Uncleared(e, l, 0, i)
      BY <1>4, <3>2 DEF Backs, Uncleared
    <3> QED BY <3>1, <3>3
  <2> QED BY <2>1, <2>2, <2>3 DEF Link
<1>7. Leads' /\ Starts'
  BY <1>1 DEF Leads, Ready, Starts
<1>8. Settings'
  <2>1. Known(FileConf)
    BY DEF Known, FileConf
  <2> QED BY <1>1, <1>2, <2>1 DEF Settings, Known
<1> QED BY <1>1, <1>3, <1>6, <1>7, <1>8

(* The agent connects.                                                     *)
LEMMA ConnectBack ==
  ASSUME Types, AgentMail, BackInv, Connect(Agent)
  PROVE  /\ Link(keptFull, outbox, keptAdds, clearing, torn)'
         /\ Leads' /\ Starts' /\ Settings'
<1>1. /\ UNCHANGED <<outbox, keptAdds, keptFull, done, clearing, torn, conf>>
      /\ inbox'[Agent] = Replayed /\ ~linked[Agent]
  BY DEF Connect, broker, history, Types, MailType, Procs
<1>2. PICK t : t = Replayed
  OBVIOUS
<1>3. BrokerType
  BY DEF Types
<1>4. t \in Seq(ToProc)
  BY <1>2, <1>3, ReplayedMsgs
<1>5. PICK n \in Nat :
        /\ Len(t) = n + 1 /\ t[n + 1] = Full(keptFull)
        /\ \A i \in 1 .. n : \E l \in keptAdds : t[i] = Add(l)
        /\ \A l \in keptAdds : \E i \in 1 .. n : t[i] = Add(l)
  BY <1>2, <1>3, ReplayedMsgs
<1>6. /\ DOMAIN t = 1 .. n + 1
      /\ \A l : Add(l).type = "add"
      /\ Full(keptFull).type = "full" /\ Full(keptFull).conf = keptFull
  BY <1>4, <1>5 DEF Add, Full
<1>7. \A i \in DOMAIN t : t[i].type = "full" => i = n + 1
  BY <1>5, <1>6
<1>8. Link(keptFull, outbox, keptAdds, clearing, torn)' /\ Settings'
  BY <1>1 DEF BackInv, Settings, Known
<1>9. Leads'
  <2>1. n + 1 \in DOMAIN t /\ t[n + 1].type = "full"
    BY <1>5, <1>6
  <2> QED BY <1>1, <1>2, <2>1 DEF Leads, Ready
<1>10. Starts'
  <2> SUFFICES ASSUME NEW i \in DOMAIN t, t[i].type = "full"
               PROVE  /\ t[i].conf = keptFull' /\ outbox' = <<>>
                      /\ \A l \in keptAdds' :
                           \/ l \in DOMAIN conf'[Agent]
                           \/ \E m \in DOMAIN t : m < i /\ t[m] = Add(l)
    BY <1>1, <1>2 DEF Starts
  <2>1. i = n + 1 /\ outbox = <<>>
    BY <1>1, <1>7 DEF AgentMail
  <2>2. \A l \in keptAdds : \E m \in DOMAIN t : m < n + 1 /\ t[m] = Add(l)
    BY <1>5, <1>6
  <2> QED BY <1>1, <1>5, <1>6, <2>1, <2>2
<1> QED BY <1>8, <1>9, <1>10

(* The agent reads a retained message.                                     *)
LEMMA ReceiveBack ==
  ASSUME Types, AgentMail, BackInv, Receive(Agent)
  PROVE  /\ Link(keptFull, outbox, keptAdds, clearing, torn)'
         /\ Leads' /\ Starts' /\ Settings'
<1>1. PICK s, t, c, d : s = inbox[Agent] /\ t = Tail(s) /\ c = conf[Agent] /\ d = Apply(c, s[1])
  OBVIOUS
<1>2. /\ UNCHANGED <<outbox, keptAdds, keptFull, done, clearing, torn, linked>>
      /\ inbox'[Agent] = t /\ conf'[Agent] = d /\ s # <<>> /\ s[1].type # "rpc"
      /\ s \in Seq(ToProc) /\ c \in Confs /\ Static \subseteq DOMAIN c /\ keptFull \in Confs
      /\ outbox \in Seq(FromProc)
  BY <1>1 DEF Receive, broker, history, Types, MailType, ProcType, BrokerType, Procs
<1>3. PICK n \in Nat : n = Len(s)
  BY <1>2
<1>4. /\ n >= 1 /\ DOMAIN s = 1 .. n /\ DOMAIN t = 1 .. n - 1
      /\ \A k \in 1 .. n - 1 : t[k] = s[k + 1]
      /\ s[1] \in ToProc
  BY <1>1, <1>2, <1>3
<1>5. \A k \in DOMAIN t : k + 1 \in DOMAIN s /\ t[k] = s[k + 1] /\ k + 1 > 1
  BY <1>4
<1>6. s[1].type \in {"add", "full"} /\ 1 \in DOMAIN s
  BY <1>1, <1>2, <1>4 DEF AgentMail, ToProc, FullMsgs
<1>7. d \in Confs
  BY <1>1, <1>2, <1>4, ApplyConf
<1>8. Link(keptFull, outbox, keptAdds, clearing, torn)'
  BY <1>2 DEF BackInv
<1>9. CASE s[1].type = "add"
  <2>1. d = AddLocation(c, s[1].loc) /\ s[1] = Add(s[1].loc)
    BY <1>1, <1>4, <1>9 DEF Apply, Add, ToProc, FullMsgs
  <2>2. /\ DOMAIN d = DOMAIN c \cup {s[1].loc}
        /\ \A l \in DOMAIN d : d[l] = IF l \in DOMAIN c THEN c[l] ELSE 0
    BY <2>1 DEF AddLocation
  <2>3. \A l : Val(d, l) = Val(c, l)
    BY <2>2 DEF Val
  <2>4. Leads'
    <3>1. Ready' => Ready
      <4>1. ASSUME NEW i \in DOMAIN s, \A k \in DOMAIN t : t[k].type # "full"
            PROVE  s[i].type # "full"
        <5>1. CASE i = 1
          BY <1>9, <5>1
        <5>2. CASE i # 1
          <6>1. i - 1 \in 1 .. n - 1 /\ (i - 1) + 1 = i
            BY <1>4, <5>2
          <6> QED BY <1>4, <4>1, <6>1
        <5> QED BY <5>1, <5>2
      <4> QED BY <1>1, <1>2, <4>1 DEF Ready
    <3>2. \A l : Ahead(keptFull, outbox, l, clearing, c) => Ahead(keptFull, outbox, l, clearing, d)
      BY <2>3 DEF Ahead
    <3> QED BY <1>1, <1>2, <3>1, <3>2 DEF BackInv, Leads
  <2>5. Starts'
    <3> SUFFICES ASSUME NEW i \in DOMAIN t, t[i].type = "full"
                 PROVE  /\ t[i].conf = keptFull /\ outbox = <<>>
                        /\ \A l \in keptAdds :
                             \/ l \in DOMAIN d
                             \/ \E m \in DOMAIN t : m < i /\ t[m] = Add(l)
      BY <1>2 DEF Starts
    <3>1. /\ t[i].conf = keptFull /\ outbox = <<>>
          /\ \A l \in keptAdds : \/ l \in DOMAIN c
                                 \/ \E m \in DOMAIN s : m < i + 1 /\ s[m] = Add(l)
      BY <1>1, <1>5 DEF BackInv, Starts
    <3>2. ASSUME NEW l, NEW m \in DOMAIN s, m < i + 1, s[m] = Add(l)
          PROVE  l \in DOMAIN d \/ \E k \in DOMAIN t : k < i /\ t[k] = Add(l)
      <4>1. CASE m = 1
        <5>1. s[1].loc = l
          BY <3>2, <4>1 DEF Add
        <5> QED BY <2>2, <5>1
      <4>2. CASE m # 1
        <5>1. m - 1 \in 1 .. n - 1 /\ (m - 1) + 1 = m /\ m - 1 < i /\ i \in Nat
          BY <1>4, <3>2, <4>2
        <5> QED BY <1>4, <3>2, <5>1
      <4> QED BY <4>1, <4>2
    <3> QED BY <2>2, <3>1, <3>2
  <2>6. Settings'
    BY <1>1, <1>2, <2>2 DEF BackInv, Settings, Known
  <2> QED BY <1>8, <2>4, <2>5, <2>6
<1>10. CASE s[1].type = "full"
  <2>1. d = ApplyFull(c, keptFull) /\ outbox = <<>> /\ keptAdds \subseteq DOMAIN c
    <3>1. /\ s[1].conf = keptFull /\ outbox = <<>>
          /\ \A l \in keptAdds : \/ l \in DOMAIN c
                                 \/ \E m \in DOMAIN s : m < 1 /\ s[m] = Add(l)
      BY <1>1, <1>6, <1>10 DEF BackInv, Starts
    <3>2. \A m \in DOMAIN s : ~(m < 1)
      BY <1>4
    <3> QED BY <1>1, <1>10, <3>1, <3>2 DEF Apply
  <2>2. /\ DOMAIN d = DOMAIN c
        /\ \A l \in DOMAIN c : d[l] = IF l \in DOMAIN keptFull THEN keptFull[l] ELSE c[l]
    BY <2>1 DEF ApplyFull
  <2>3. \A k \in DOMAIN t : t[k].type = "rpc"
    BY <1>1, <1>5, <1>6, <1>10 DEF AgentMail
  <2>4. ASSUME NEW l \in Locs \ torn PROVE Ahead(keptFull, outbox, l, clearing, d)
    <3> SUFFICES ASSUME NEW i \in 0 .. Len(outbox), Val(d, l) < Val(Stage(keptFull, outbox, i), l)
                 PROVE  LevelGone(outbox, l, clearing, i, Len(outbox) + 1)
      BY DEF Ahead
    <3>1. i = 0 /\ Val(d, l) < Val(keptFull, l)
      BY <2>1 DEF Stage
    <3>2. l \in DOMAIN keptFull /\ l \notin DOMAIN c
      <4>1. Val(d, l) \in Nat /\ Val(keptFull, l) \in Nat
        BY <1>2, <1>7, ConfsMember, BoundsAreNaturals DEF Val
      <4>2. l \in DOMAIN keptFull
        BY <3>1, <4>1 DEF Val
      <4>3. l \in DOMAIN c => Val(d, l) = Val(keptFull, l)
        BY <2>2, <4>2 DEF Val
      <4> QED BY <3>1, <4>1, <4>2, <4>3
    <3>3. l \in Dynamic \ torn /\ l \notin keptAdds
      BY <1>2, <2>1, <2>4, <3>2 DEF Locs
    <3>4. Backed(keptFull, outbox, l, keptAdds, clearing)
      BY <3>3 DEF BackInv, Link
    <3>5. IsStage(outbox, 0) /\ Stage(keptFull, outbox, 0) = keptFull /\ 0 \in 0 .. Len(outbox)
      BY <1>2 DEF IsStage, Stage
    <3>6. l \in clearing \/ \E m \in 0 .. Len(outbox) : m <= 0 /\ Backs(outbox, l, keptAdds, m)
      BY <3>2, <3>4, <3>5 DEF Backed
    <3>7. l \in clearing
      BY <1>2, <3>3, <3>6 DEF Backs
    <3> QED BY <3>1, <3>7 DEF LevelGone
  <2>5. Leads'
    BY <1>2, <2>4 DEF Leads
  <2>6. Starts'
    BY <1>2, <2>3 DEF Starts
  <2>7. Settings'
    BY <1>1, <1>2, <2>2 DEF BackInv, Settings, Known
  <2> QED BY <1>8, <2>5, <2>6, <2>7
<1> QED BY <1>6, <1>9, <1>10

(* The broker takes a message.                                             *)
LEMMA TakenBack ==
  ASSUME Types, BackInv, outbox # <<>>, outbox' = Tail(outbox),
         keptAdds' = Retained(outbox[1], keptAdds),
         keptFull' = (IF outbox[1].type = "full" THEN outbox[1].conf ELSE keptFull),
         clearing' = Clearing(outbox[1], clearing),
         torn \subseteq torn', UNCHANGED <<conf, linked, done>>, inbox'[Agent] = inbox[Agent]
  PROVE  /\ Link(keptFull, outbox, keptAdds, clearing, torn)'
         /\ Leads' /\ Starts' /\ Settings'
<1>1. PICK s, t, h, f, g, A, C, B, D :
        /\ s = outbox /\ t = Tail(s) /\ h = s[1]
        /\ f = keptFull /\ g = keptFull' /\ A = keptAdds /\ C = keptAdds'
        /\ B = clearing /\ D = clearing'
  OBVIOUS
<1>2. /\ s \in Seq(FromProc) /\ s # <<>> /\ f \in Confs
      /\ g = (IF h.type = "full" THEN h.conf ELSE f)
      /\ C = Retained(h, A) /\ D = Clearing(h, B) /\ t = outbox'
      /\ t = Tail(s) /\ h = s[1] /\ t \in Seq(FromProc) /\ h \in FromProc
      /\ A \in SUBSET Dynamic /\ B \in SUBSET Dynamic
  BY <1>1 DEF Types, MailType, BrokerType, ProcType
<1>11. C \in SUBSET Dynamic /\ D \in SUBSET Dynamic /\ g \in Confs
  BY <1>2 DEF Retained, Clearing, FromProc, FullMsgs
<1>3. Link(f, s, A, B, torn)
  BY <1>1 DEF BackInv
<1>10. Shape(s, B)
  BY <1>3 DEF Link
<1>4. /\ Shape(t, D)
      /\ \A l : Falling(f, s, l, B) => Falling(g, t, l, D)
      /\ \A l, c : Ahead(f, s, l, B, c) => Ahead(g, t, l, D, c)
      /\ \A l : Backed(f, s, l, A, B) => Backed(g, t, l, C, D)
      /\ \A T : (\A l \in B \ T : Begun(s, l, A)) => \A l \in D \ T : Begun(t, l, C)
  <2>1. f \in Confs /\ s \in Seq(FromProc) /\ s # <<>> /\ A \in SUBSET Dynamic /\ B \in SUBSET Dynamic
    BY <1>2
  <2>2. /\ Shape(Tail(s), Clearing(s[1], B))
        /\ \A l : Falling(f, s, l, B)
                   => Falling(Replacing(s[1], f), Tail(s), l, Clearing(s[1], B))
        /\ \A l, c : Ahead(f, s, l, B, c)
                      => Ahead(Replacing(s[1], f), Tail(s), l, Clearing(s[1], B), c)
        /\ \A l : Backed(f, s, l, A, B)
                   => Backed(Replacing(s[1], f), Tail(s), l, Retained(s[1], A), Clearing(s[1], B))
        /\ \A T : (\A l \in B \ T : Begun(s, l, A))
                  => \A l \in Clearing(s[1], B) \ T : Begun(Tail(s), l, Retained(s[1], A))
    BY <1>10, <2>1, TakenLink
  <2>3. t = Tail(s) /\ g = Replacing(s[1], f) /\ D = Clearing(s[1], B) /\ C = Retained(s[1], A)
    BY <1>2 DEF Replacing
  <2> QED BY <2>2, <2>3
<1>5. Link(g, t, C, D, torn)
  BY <1>3, <1>4 DEF Link
<1>6. Link(g, t, C, D, torn')
  BY <1>5, LinkTorn
<1>7. Leads'
  <2>1. Ready' => Ready
    BY DEF Ready
  <2>2. Ready => \A l \in Locs \ torn : Ahead(f, s, l, B, conf[Agent])
    BY <1>1 DEF BackInv, Leads
  <2> QED BY <1>1, <1>2, <1>4, <2>1, <2>2 DEF Leads
<1>8. Starts'
  BY DEF BackInv, Starts
<1>9. Settings'
  <2>1. 1 \in DOMAIN s /\ \A i \in DOMAIN t : i + 1 \in DOMAIN s /\ t[i] = s[i + 1]
    BY <1>1, <1>2
  <2>2. Known(conf[Agent]) /\ Known(f) /\ \A i \in DOMAIN s : s[i].type = "full" => Known(s[i].conf)
    BY <1>1 DEF BackInv, Settings
  <2>3. Known(g) /\ \A i \in DOMAIN t : t[i].type = "full" => Known(t[i].conf)
    BY <1>1, <1>2, <2>1, <2>2
  <2> QED BY <1>1, <1>2, <2>2, <2>3 DEF Settings, Known
<1> QED BY <1>1, <1>2, <1>6, <1>7, <1>8, <1>9

LEMMA RoutedBack ==
  ASSUME Types, BackInv, RoutePublished \/ RouteReply
  PROVE  /\ Link(keptFull, outbox, keptAdds, clearing, torn)'
         /\ Leads' /\ Starts' /\ Settings'
<1>1. PICK m : m = Head(outbox) /\ m = outbox[1]
  BY DEF RoutePublished, RouteReply, Types, MailType
<1>2. /\ outbox # <<>> /\ outbox' = Tail(outbox) /\ torn \subseteq torn'
      /\ UNCHANGED <<conf, linked, done>>
  BY DEF RoutePublished, RouteReply, history, broker
<1>3. inbox'[Agent] = inbox[Agent]
  <2>1. CASE RoutePublished
    BY <2>1, ProcsAreDistinct DEF RoutePublished, Deliver, Listeners, Procs
  <2>2. CASE RouteReply
    BY <2>2 DEF RouteReply
  <2> QED BY <2>1, <2>2
<1>4. /\ keptAdds' = Retained(m, keptAdds)
      /\ keptFull' = (IF m.type = "full" THEN m.conf ELSE keptFull)
      /\ clearing' = Clearing(m, clearing)
  <2>1. CASE RoutePublished
    BY <1>1, <2>1 DEF RoutePublished, Retain, Retained, Clearing
  <2>2. CASE RouteReply
    BY <1>1, <2>2 DEF RouteReply, broker, history, Retained, Clearing
  <2> QED BY <2>1, <2>2
<1> QED BY <1>1, <1>2, <1>3, <1>4, TakenBack

(* The agent carries out a change.                                         *)
LEMMA CarryOutBack ==
  ASSUME Types, AgentMail, AgentListed, BackInv, CarryOut
  PROVE  /\ Link(keptFull, outbox, keptAdds, clearing, torn)'
         /\ Leads' /\ Starts' /\ Settings'
<1>1. PICK u, c, mail : u = Head(inbox[Agent]).id /\ c = conf[Agent] /\ mail = inbox[Agent]
  OBVIOUS
<1>2. PICK s, q, d : s = outbox /\ q = Sent(c, u) /\ d = Carried(c, u)
  OBVIOUS
<1>3. /\ outbox' = s \o q /\ conf'[Agent] = d /\ inbox'[Agent] = Tail(mail)
      /\ UNCHANGED <<linked, keptAdds, keptFull, clearing, torn>>
      /\ done' = (IF Possible(c, u) THEN done \cup {u} ELSE done)
      /\ mail # <<>> /\ mail[1].type = "rpc" /\ mail[1].id = u
      /\ mail \in Seq(ToProc) /\ s \in Seq(FromProc) /\ c \in Confs /\ Static \subseteq DOMAIN c
      /\ keptFull \in Confs
  BY <1>1, <1>2 DEF CarryOut, broker, Types, MailType, ProcType, BrokerType, Procs
<1>4. /\ 1 \in DOMAIN mail /\ \A i \in DOMAIN mail : i = 1 \/ 1 < i
      /\ \A i \in DOMAIN Tail(mail) : i + 1 \in DOMAIN mail /\ Tail(mail)[i] = mail[i + 1]
  BY <1>3
<1>5. RequestType /\ u \in DOMAIN requests
  BY <1>1, <1>3, <1>4 DEF Types, ApiType
<1>6. \A i \in DOMAIN mail : mail[i].type = "rpc"
  BY <1>1, <1>3, <1>4 DEF AgentMail
<1>7. Ready
  <2>1. linked[Agent]
    BY <1>1, <1>3 DEF AgentMail
  <2> QED BY <1>1, <1>6, <2>1 DEF Ready
<1>8. \A x \in DOMAIN c : c[x] < u
  <2>1. \A w \in done : w < u
    BY <1>1, <1>3, <1>4 DEF AgentMail
  <2>2. \A x \in DOMAIN c : c[x] \in done \cup {0}
    BY <1>1 DEF BackInv, Settings, Known
  <2>3. u \in Nat /\ 0 < u
    BY <1>5, RequestOf
  <2> QED BY <2>1, <2>2, <2>3
<1>9. /\ q \in Seq(FromProc) /\ d \in Confs
  BY <1>2, <1>3, <1>5, SentMsgs, CarriedConf
<1>10. /\ Shape(q, {})
       /\ \A l : \/ Val(c, l) <= Val(d, l)
                 \/ \E p \in DOMAIN q : /\ q[p] = Del(l)
                                        /\ \A k \in DOMAIN q : q[k].type = "full" => p < k
       /\ \A k \in DOMAIN q : q[k].type = "full" =>
            /\ q[k].conf = d
            /\ \A l \in DOMAIN d : l \in DOMAIN c /\ \A x \in DOMAIN q : q[x] # Clear(l)
       /\ \A l \in DOMAIN d : \/ d[l] = 0 \/ (l \in DOMAIN c /\ d[l] = c[l])
                              \/ (d[l] = u /\ Possible(c, u))
  <2>1. c \in Confs /\ Static \subseteq DOMAIN c /\ q = Sent(c, u) /\ d = Carried(c, u)
    BY <1>2, <1>3
  <2> QED BY <1>5, <1>8, <2>1, SentShape
<1>11. PICK t, f, A, B : t = s \o q /\ f = keptFull /\ A = keptAdds /\ B = clearing
  OBVIOUS
<1>12. /\ f \in Confs /\ A \in SUBSET Dynamic /\ B \in SUBSET Dynamic
       /\ t \in Seq(FromProc)
  BY <1>3, <1>9, <1>11 DEF Types, BrokerType, ProcType
<1>22. /\ \A l :
            /\ Falling(f, s, l, B) /\ Ahead(f, s, l, B, c)
            /\ \/ Val(c, l) <= Val(d, l)
               \/ \E p \in DOMAIN q : /\ q[p] = Del(l)
                                      /\ \A k \in DOMAIN q : q[k].type = "full" => p < k
            /\ \A k \in DOMAIN q : q[k].type = "full" => q[k].conf = d
            => Falling(f, s \o q, l, B) /\ Ahead(f, s \o q, l, B, d)
       /\ \A l :
            /\ Backed(f, s, l, A, B)
            /\ \A k \in DOMAIN q : q[k].type = "full" /\ l \in DOMAIN q[k].conf =>
                 /\ \E m \in 0 .. Len(s) : Backs(s, l, A, m) /\ Uncleared(s, l, m, Len(s))
                 /\ \A x \in DOMAIN q : q[x] # Clear(l)
            => Backed(f, s \o q, l, A, B)
       /\ Shape(s, B) /\ Shape(q, {}) => Shape(s \o q, B)
       /\ \A l : Begun(s, l, A) => Begun(s \o q, l, A)
  <2>1. s \in Seq(FromProc) /\ c \in Confs
    BY <1>3
  <2> QED BY <1>9, <1>12, <2>1, SentLink
<1>13. /\ \A l :
            /\ Falling(f, s, l, B) /\ Ahead(f, s, l, B, c)
            /\ \/ Val(c, l) <= Val(d, l)
               \/ \E p \in DOMAIN q : /\ q[p] = Del(l)
                                      /\ \A k \in DOMAIN q : q[k].type = "full" => p < k
            /\ \A k \in DOMAIN q : q[k].type = "full" => q[k].conf = d
            => Falling(f, t, l, B) /\ Ahead(f, t, l, B, d)
       /\ \A l :
            /\ Backed(f, s, l, A, B)
            /\ \A k \in DOMAIN q : q[k].type = "full" /\ l \in DOMAIN q[k].conf =>
                 /\ \E m \in 0 .. Len(s) : Backs(s, l, A, m) /\ Uncleared(s, l, m, Len(s))
                 /\ \A x \in DOMAIN q : q[x] # Clear(l)
            => Backed(f, t, l, A, B)
       /\ Shape(s, B) /\ Shape(q, {}) => Shape(t, B)
       /\ \A l : Begun(s, l, A) => Begun(t, l, A)
  BY <1>11, <1>22
<1>14. Link(f, s, A, B, torn) /\ \A l \in Locs \ torn : Ahead(f, s, l, B, c)
  BY <1>1, <1>2, <1>7, <1>11 DEF BackInv, Leads
<1>15. ASSUME NEW l \in Locs \ torn PROVE Falling(f, t, l, B) /\ Ahead(f, t, l, B, d)
  <2>1. Falling(f, s, l, B) /\ Ahead(f, s, l, B, c)
    BY <1>14 DEF Link
  <2>2. \A k \in DOMAIN q : q[k].type = "full" => q[k].conf = d
    BY <1>10
  <2> QED BY <1>10, <1>13, <2>1, <2>2
<1>16. ASSUME NEW l \in Dynamic \ torn PROVE Backed(f, t, l, A, B)
  <2>1. Backed(f, s, l, A, B)
    BY <1>14 DEF Link
  <2>2. ASSUME NEW k \in DOMAIN q, q[k].type = "full", l \in DOMAIN q[k].conf
        PROVE  /\ \E m \in 0 .. Len(s) : Backs(s, l, A, m) /\ Uncleared(s, l, m, Len(s))
               /\ \A x \in DOMAIN q : q[x] # Clear(l)
    <3>1. l \in DOMAIN c /\ \A x \in DOMAIN q : q[x] # Clear(l)
      BY <1>10, <2>2
    <3>2. ListedFrom(l, Len(outbox))
      BY <1>1, <3>1 DEF AgentListed
    <3>3. PICK m \in 0 .. Len(s) :
            /\ IF m = 0 THEN l \in A ELSE s[m] = Add(l)
            /\ \A k2 \in DOMAIN s : k2 > m => s[k2] # Clear(l)
      BY <1>2, <1>11, <3>2 DEF ListedFrom
    <3>4. Backs(s, l, A, m)
      BY <1>3, <3>3 DEF Backs
    <3>5. Uncleared(s, l, m, Len(s))
      BY <1>3, <3>3 DEF Uncleared
    <3> QED BY <3>1, <3>4, <3>5
  <2> QED BY <1>13, <2>1, <2>2
<1>17. Link(f, t, A, B, torn)
  BY <1>10, <1>13, <1>14, <1>15, <1>16 DEF Link
<1>18. Link(keptFull, outbox, keptAdds, clearing, torn)'
  BY <1>3, <1>11, <1>17
<1>19. Leads'
  BY <1>3, <1>11, <1>15 DEF Leads
<1>20. Starts'
  <2>1. \A i \in DOMAIN inbox'[Agent] : inbox'[Agent][i].type = "rpc"
    BY <1>3, <1>4, <1>6
  <2> QED BY <2>1 DEF Starts
<1>21. Settings'
  <2>1. \A x : Known(x) => \A l \in DOMAIN x : x[l] \in done' \cup {0}
    BY <1>3 DEF Known
  <2>2. Known(c) /\ Known(keptFull) /\ \A i \in DOMAIN s : s[i].type = "full" => Known(s[i].conf)
    BY <1>1, <1>2 DEF BackInv, Settings
  <2>3. \A l \in DOMAIN d : d[l] \in done' \cup {0}
    BY <1>3, <1>10, <2>1, <2>2
  <2>4. \A i \in DOMAIN t : t[i].type = "full" =>
          \A l \in DOMAIN t[i].conf : t[i].conf[l] \in done' \cup {0}
    <3> SUFFICES ASSUME NEW i \in DOMAIN t, t[i].type = "full"
                 PROVE  \A l \in DOMAIN t[i].conf : t[i].conf[l] \in done' \cup {0}
      OBVIOUS
    <3>1. (i \in DOMAIN s /\ t[i] = s[i]) \/ (i - Len(s) \in DOMAIN q /\ t[i] = q[i - Len(s)])
      <4>1. PICK n \in Nat, o \in Nat : n = Len(s) /\ o = Len(q)
        BY <1>3, <1>9
      <4>2. /\ Len(t) = n + o /\ DOMAIN t = 1 .. n + o /\ DOMAIN s = 1 .. n /\ DOMAIN q = 1 .. o
            /\ \A k \in 1 .. n + o : t[k] = IF k <= n THEN s[k] ELSE q[k - n]
        BY <1>3, <1>9, <1>11, <4>1, ConcatProperties
      <4> QED BY <4>1, <4>2
    <3>2. CASE i \in DOMAIN s /\ t[i] = s[i]
      BY <2>1, <2>2, <3>2
    <3>3. CASE i - Len(s) \in DOMAIN q /\ t[i] = q[i - Len(s)]
      BY <1>10, <2>3, <3>3
    <3> QED BY <3>1, <3>2, <3>3
  <2> QED BY <1>3, <1>11, <2>1, <2>2, <2>3, <2>4 DEF Settings, Known
<1> QED BY <1>18, <1>19, <1>20, <1>21

-----------------------------------------------------------------------------
(* The ways of the workers, step by step.                                  *)
LEMMA InboxOf ==
  ASSUME Types, NEW w \in Workers
  PROVE  /\ w \in Procs /\ w # Agent /\ conf[w] \in Confs /\ Static \subseteq DOMAIN conf[w]
         /\ inbox[w] \in Seq(ToProc) /\ outbox \in Seq(FromProc) /\ keptFull \in Confs
         /\ clearing \subseteq Dynamic /\ \A l : Val(keptFull, l) \in Nat
<1>1. /\ w \in Procs /\ w # Agent /\ conf[w] \in Confs /\ Static \subseteq DOMAIN conf[w]
      /\ inbox[w] \in Seq(ToProc) /\ outbox \in Seq(FromProc) /\ keptFull \in Confs
      /\ clearing \subseteq Dynamic
  BY ProcsAreDistinct DEF Types, MailType, ProcType, BrokerType, Procs
<1>2. \A l : Val(keptFull, l) \in Nat
  BY <1>1, ConfsMember, BoundsAreNaturals DEF Val
<1> QED BY <1>1, <1>2

(* The worker and what the broker keeps do not move.                       *)
LEMMA ElsewhereWay ==
  ASSUME BackInv, NEW w \in Workers, torn \subseteq torn', UNCHANGED keptFull,
         conf'[w] = conf[w], linked'[w] = linked[w], inbox'[w] = inbox[w],
         \A l \in clearing' \ torn' :
           (l \in clearing /\ outbox'[1] = outbox[1]) \/ outbox'[1] = Del(l)
  PROVE  Way(w)'
<1>1. Way(w)
  BY DEF BackInv
<1>2. ~linked'[w] => inbox'[w] = <<>>
  BY <1>1 DEF Way
<1>3. ASSUME NEW l \in Locs \ torn'
      PROVE  /\ Forward(conf'[w], inbox'[w], l)
             /\ Behind(conf'[w], inbox'[w], l, Val(keptFull', l))
             /\ l \in clearing' /\ outbox'[1] # Del(l) => Absent(conf'[w], inbox'[w], l)
  BY <1>1, <1>3 DEF Way
<1> QED BY <1>2, <1>3 DEF Way

(* The broker takes a message that it has for the workers.                 *)
LEMMA RoutedWay ==
  ASSUME Types, BackInv, NEW w \in Workers, RoutePublished
  PROVE  Way(w)'
<1>1. PICK m, c, s, v : m = outbox[1] /\ c = conf[w] /\ s = inbox[w] /\ v = keptFull'
  OBVIOUS
<1>2. /\ outbox # <<>> /\ m \in FromProc /\ m.type # "reply" /\ m = Head(outbox)
      /\ UNCHANGED <<conf, linked>> /\ torn \subseteq torn'
      /\ 1 \in DOMAIN outbox
      /\ outbox' = Tail(outbox)
      /\ v = (IF m.type = "full" THEN m.conf ELSE keptFull)
      /\ clearing' = Clearing(m, clearing)
      /\ m.type = "del" /\ ~linked[w] => m.loc \in torn'
  <2>1. outbox \in Seq(FromProc) /\ outbox # <<>> /\ m = Head(outbox)
    BY <1>1 DEF RoutePublished, Types, MailType
  <2>2. m \in FromProc /\ 1 \in DOMAIN outbox
    BY <1>1, <2>1
  <2>3. /\ m.type # "reply" /\ UNCHANGED <<conf, linked>> /\ torn \subseteq torn'
        /\ outbox' = Tail(outbox)
        /\ v = (IF m.type = "full" THEN m.conf ELSE keptFull)
    BY <1>1, <2>1 DEF RoutePublished, Retain
  <2>4. clearing' = Clearing(m, clearing)
    BY <2>1 DEF RoutePublished, Clearing
  <2>5. m.type = "del" /\ ~linked[w] => m.loc \in torn'
    BY <2>1 DEF RoutePublished, Listeners
  <2> QED BY <2>1, <2>2, <2>3, <2>4, <2>5
<1>3. /\ w \in Procs /\ c \in Confs /\ s \in Seq(ToProc) /\ outbox \in Seq(FromProc)
      /\ keptFull \in Confs /\ v \in Confs /\ \A l : Val(keptFull, l) \in Nat /\ Val(v, l) \in Nat
  <2>1. v \in Confs
    BY <1>2, InboxOf DEF FromProc, FullMsgs
  <2> QED BY <1>1, <2>1, InboxOf, ConfsMember, BoundsAreNaturals DEF Val
<1>4. /\ ~linked[w] => s = <<>>
      /\ \A l \in Locs \ torn :
           /\ Forward(c, s, l) /\ Behind(c, s, l, Val(keptFull, l))
           /\ l \in clearing /\ m # Del(l) => Absent(c, s, l)
  BY <1>1 DEF BackInv, Way
<1>5. /\ \A x : Del(x).type = "del" /\ Del(x).loc = x /\ Add(x).type = "add"
      /\ m.type = "del" => m = Del(m.loc)
      /\ m.type \in {"add", "del", "clear", "full"}
  BY <1>2 DEF Del, Add, FromProc, FullMsgs
<1>6. \A l \in clearing \ torn : \/ m = Del(l)
                                 \/ m.type = "full" /\ l \notin DOMAIN m.conf
  BY <1>1 DEF BackInv, Link, Begun
(* A configuration that is taken is not older than the one before.         *)
<1>7. ASSUME NEW l \in Locs \ torn, m.type = "full"
      PROVE  Val(keptFull, l) <= Val(m.conf, l) \/ l \in clearing
  <2>1. Falling(keptFull, outbox, l, clearing)
    BY DEF BackInv, Link
  <2>2. /\ 0 \in 0 .. Len(outbox) /\ 1 \in 0 .. Len(outbox) /\ 0 < 1
        /\ IsStage(outbox, 0) /\ IsStage(outbox, 1)
        /\ Stage(keptFull, outbox, 0) = keptFull /\ Stage(keptFull, outbox, 1) = m.conf
    BY <1>1, <1>2, <1>3, <1>7 DEF IsStage, Stage
  <2>3. \A k \in DOMAIN outbox : ~(0 < k /\ k < 1)
    BY <1>3
  <2>4. Val(m.conf, l) < Val(keptFull, l) => l \in clearing
    BY <2>1, <2>2, <2>3 DEF Falling, LevelGone, Deleted
  <2>5. Val(m.conf, l) \in Nat /\ Val(keptFull, l) \in Nat
    BY <1>2, <1>3, <1>7
  <2> QED BY <2>4, <2>5
<1>8. ASSUME NEW l \in Locs \ torn, m # Del(l)
      PROVE  Behind(c, s, l, Val(v, l))
  <2>1. CASE m.type # "full"
    BY <1>2, <1>4, <2>1
  <2>2. CASE m.type = "full" /\ Val(keptFull, l) <= Val(m.conf, l)
    <3>1. v = m.conf /\ Val(v, l) \in Nat /\ Val(keptFull, l) \in Nat
      BY <1>2, <1>3, <2>2
    <3>2. Behind(c, s, l, Val(keptFull, l)) /\ Val(keptFull, l) <= Val(v, l)
      BY <1>4, <2>2, <3>1
    <3> QED BY <1>3, <3>1, <3>2, BehindLess
  <2>3. CASE l \in clearing
    <3>1. Absent(c, s, l)
      BY <1>4, <1>8, <2>3
    <3> QED BY <1>3, <3>1, AbsentBehind
  <2> QED BY <1>7, <2>1, <2>2, <2>3
<1>9. CASE m.type = "clear"
  <2>1. inbox' = inbox /\ keptFull' = keptFull
    BY <1>1, <1>2, <1>9 DEF RoutePublished
  <2>2. clearing' = clearing \cup {m.loc}
    BY <1>2, <1>9 DEF Clearing
  <2>3. outbox'[1] = Del(m.loc)
    <3>1. 2 \in DOMAIN outbox /\ outbox[2] = Del(m.loc)
      BY <1>1, <1>2, <1>9 DEF BackInv, Link, Shape
    <3> QED BY <1>2, <1>3, <3>1
  <2>4. clearing \ torn = {}
    BY <1>5, <1>6, <1>9
  <2>5. \A l \in clearing' \ torn' :
          (l \in clearing /\ outbox'[1] = outbox[1]) \/ outbox'[1] = Del(l)
    BY <1>2, <2>2, <2>3, <2>4
  <2> QED BY <1>2, <2>1, <2>5, ElsewhereWay
<1>10. CASE m.type # "clear"
  <2>1. /\ inbox'[w] = IF linked[w] THEN Append(s, m) ELSE s
        /\ m \in ToProc
    <3>1. inbox'[w] = IF linked[w] THEN Append(s, m) ELSE s
      BY <1>1, <1>2, <1>3, <1>10 DEF RoutePublished, Deliver, Listeners
    <3>2. m \in ToProc
      BY <1>2, <1>10 DEF ToProc, FromProc
    <3> QED BY <3>1, <3>2
  <2>2. ASSUME NEW l \in clearing' \ torn' PROVE m = Del(l)
    <3>1. l \in clearing \ torn /\ m.type # "full"
      BY <1>2, <1>10, <2>2 DEF Clearing
    <3> QED BY <1>6, <3>1
  <2>3. CASE linked[w]
    <3>1. PICK t : t = Append(s, m)
      OBVIOUS
    <3>2. t \in Seq(ToProc) /\ inbox'[w] = t
      BY <1>3, <2>1, <2>3, <3>1
    <3>3. ASSUME NEW l \in Locs \ torn'
          PROVE  /\ Forward(c, t, l) /\ Behind(c, t, l, Val(v, l))
                 /\ l \in clearing' => Absent(c, t, l)
      <4>1. l \in Locs \ torn
        BY <1>2, <3>3
      <4>2. /\   /\ Forward(c, s, l)
                 /\ m.type = "full" /\ l \in DOMAIN m.conf => Behind(c, s, l, m.conf[l])
                 => Forward(c, t, l)
            /\ \A x \in Nat :
                 \/ m = Del(l)
                 \/ Behind(c, s, l, x) /\ (m.type = "full" /\ l \in DOMAIN m.conf => m.conf[l] <= x)
                 => Behind(c, t, l, x)
            /\ m = Del(l) \/ (Absent(c, s, l) /\ m # Add(l)) => Absent(c, t, l)
        BY <1>3, <2>1, <3>1, <3>2, AddedWay
      <4>3. m.type = "full" /\ l \in DOMAIN m.conf => Val(v, l) = m.conf[l] /\ m # Del(l)
        BY <1>2, <1>5 DEF Val
      <4>4. m.type = "full" /\ l \in DOMAIN m.conf => Behind(c, s, l, m.conf[l])
        BY <1>8, <4>1, <4>3
      <4>5. Forward(c, t, l)
        BY <1>4, <4>1, <4>2, <4>4
      <4>6. Behind(c, t, l, Val(v, l))
        <5>1. CASE m = Del(l)
          BY <1>3, <4>2, <5>1
        <5>2. CASE m # Del(l)
          <6>1. Behind(c, s, l, Val(v, l)) /\ Val(v, l) \in Nat
            BY <1>3, <1>8, <4>1, <5>2
          <6>2. m.type = "full" /\ l \in DOMAIN m.conf => m.conf[l] <= Val(v, l)
            BY <4>3, <6>1
          <6> QED BY <4>2, <6>1, <6>2
        <5> QED BY <5>1, <5>2
      <4>7. l \in clearing' => Absent(c, t, l)
        BY <2>2, <3>3, <4>2
      <4> QED BY <4>5, <4>6, <4>7
    <3> QED BY <1>1, <1>2, <2>3, <3>2, <3>3 DEF Way
  <2>4. CASE ~linked[w]
    <3>1. inbox'[w] = <<>> /\ s = <<>>
      BY <1>4, <2>1, <2>4
    <3>2. ASSUME NEW l \in Locs \ torn'
          PROVE  /\ Forward(c, s, l) /\ Behind(c, s, l, Val(v, l))
                 /\ l \notin clearing'
      <4>1. l \in Locs \ torn /\ m # Del(l)
        BY <1>2, <1>5, <2>4, <3>2
      <4> QED BY <1>4, <1>8, <2>2, <3>2, <4>1
    <3> QED BY <1>1, <1>2, <3>1, <3>2 DEF Way
  <2> QED BY <2>3, <2>4
<1> QED BY <1>9, <1>10

(* A worker reads a message; none takes it back to an older setting.       *)
LEMMA ReceiveWay ==
  ASSUME Types, BackInv, NEW w \in Workers, Receive(w)
  PROVE  /\ Way(w)' /\ linked'[w] = linked[w]
         /\ \A l \in (DOMAIN conf[w] \cap DOMAIN conf'[w]) \ torn : ~(conf'[w][l] < conf[w][l])
<1>1. PICK s, t, c, d : s = inbox[w] /\ t = Tail(s) /\ c = conf[w] /\ d = Apply(c, s[1])
  OBVIOUS
<1>2. /\ UNCHANGED <<outbox, keptAdds, keptFull, clearing, torn, linked>>
      /\ inbox'[w] = t /\ conf'[w] = d /\ s # <<>> /\ s[1].type # "rpc"
      /\ s \in Seq(ToProc) /\ c \in Confs /\ Static \subseteq DOMAIN c
      /\ \A l : Val(keptFull, l) \in Nat
  <2>1. /\ w \in Procs /\ c \in Confs /\ Static \subseteq DOMAIN c /\ s \in Seq(ToProc)
        /\ \A l : Val(keptFull, l) \in Nat
    BY <1>1, InboxOf
  <2>2. s # <<>> /\ Head(s) = s[1]
    BY <1>1, <2>1 DEF Receive
  <2> QED BY <1>1, <2>1, <2>2 DEF Receive, broker, history, Types, ProcType, MailType
<1>3. s[1] \in ToProc
  BY <1>2
<1>4. d \in Confs
  BY <1>1, <1>2, <1>3, ApplyConf
<1>5. /\ linked[w]
      /\ \A l \in Locs \ torn :
           /\ Forward(c, s, l) /\ Behind(c, s, l, Val(keptFull, l))
           /\ l \in clearing /\ outbox[1] # Del(l) => Absent(c, s, l)
  BY <1>1, <1>2 DEF BackInv, Way
<1>6. ASSUME NEW l \in Locs \ torn
      PROVE  /\ Forward(d, t, l) /\ Behind(d, t, l, Val(keptFull, l))
             /\ Absent(c, s, l) => Absent(d, t, l)
             /\ l \in DOMAIN c \cap DOMAIN d => ~(d[l] < c[l])
  <2>1. Forward(c, s, l) /\ Behind(c, s, l, Val(keptFull, l)) /\ Val(keptFull, l) \in Nat
    BY <1>2, <1>5
  <2>2. s # <<>> /\ s[1].type # "rpc" /\ d = Apply(c, s[1]) /\ t = Tail(s)
    BY <1>1, <1>2
  <2>3. /\ Forward(d, t, l)
        /\ \A v \in Nat : Behind(c, s, l, v) => Behind(d, t, l, v)
        /\ Absent(c, s, l) => Absent(d, t, l)
        /\ l \in DOMAIN c \cap DOMAIN d => ~(d[l] < c[l])
    BY <1>2, <1>4, <2>1, <2>2, ReadWay
  <2> QED BY <2>1, <2>3
<1>7. Way(w)'
  BY <1>2, <1>5, <1>6 DEF Way
<1>8. \A l \in DOMAIN c : l \in Locs
  BY <1>2, ConfsMember
<1> QED BY <1>1, <1>2, <1>6, <1>7, <1>8

(* A worker connects.                                                      *)
LEMMA ConnectWay ==
  ASSUME Types, BackInv, NEW w \in Workers, Connect(w)
  PROVE  Way(w)'
<1>1. PICK s, c : s = Replayed /\ c = conf[w]
  OBVIOUS
<1>2. /\ UNCHANGED <<outbox, keptAdds, keptFull, clearing, torn, conf>>
      /\ inbox'[w] = s /\ linked'[w] /\ ~linked[w] /\ c \in Confs
  BY <1>1, InboxOf DEF Connect, broker, history, Types, ProcType, MailType
<1>3. /\ inbox[w] = <<>>
      /\ \A l \in Locs \ torn :
           /\ Behind(c, <<>>, l, Val(keptFull, l))
           /\ l \in clearing /\ outbox[1] # Del(l) => Absent(c, <<>>, l)
  BY <1>1, <1>2 DEF BackInv, Way
<1>4. BrokerType /\ \A l \in clearing \ torn : l \notin keptAdds
  BY DEF Types, BackInv, Link, Begun
<1>5. ASSUME NEW l \in Locs \ torn
      PROVE  /\ Forward(c, s, l) /\ Behind(c, s, l, Val(keptFull, l))
             /\ l \notin keptAdds /\ Absent(c, <<>>, l) => Absent(c, s, l)
  BY <1>1, <1>2, <1>3, <1>4, NewWay
<1>6. ASSUME NEW l \in Locs \ torn, l \in clearing, outbox[1] # Del(l)
      PROVE  Absent(c, s, l)
  BY <1>3, <1>4, <1>5, <1>6
<1> QED BY <1>1, <1>2, <1>5, <1>6 DEF Way

(* The connection of a worker breaks.                                      *)
LEMMA BreakWay ==
  ASSUME Types, BackInv, NEW w \in Workers, Break(w)
  PROVE  Way(w)'
<1>1. PICK s, c : s = inbox[w] /\ c = conf[w]
  OBVIOUS
<1>2. /\ w \in Procs /\ w # Agent /\ c \in Confs /\ s \in Seq(ToProc)
      /\ \A l : Val(keptFull, l) \in Nat
  BY <1>1, InboxOf
<1>3. /\ UNCHANGED <<outbox, keptAdds, keptFull, clearing, conf>>
      /\ inbox'[w] = <<>> /\ torn' = torn \cup LocsOf(s, "del")
  BY <1>1, <1>2 DEF Break, Cut, CutOff, broker, Types, ProcType, MailType
<1>4. ASSUME NEW l \in Locs \ torn' PROVE l \notin torn /\ \A k \in DOMAIN s : s[k] # Del(l)
  <2>1. ASSUME NEW k \in DOMAIN s, s[k] = Del(l) PROVE l \in LocsOf(s, "del")
    <3>1. s[k] \in ToSet(s) /\ s[k].type = "del" /\ s[k].loc = l
      BY <2>1 DEF ToSet, Del
    <3> QED BY <3>1 DEF LocsOf
  <2> QED BY <1>3, <1>4, <2>1
<1>5. \A l \in Locs \ torn :
        /\ Behind(c, s, l, Val(keptFull, l))
        /\ l \in clearing /\ outbox[1] # Del(l) => Absent(c, s, l)
  BY <1>1 DEF BackInv, Way
<1>6. ASSUME NEW l \in Locs \ torn'
      PROVE  /\ Forward(c, <<>>, l) /\ Behind(c, <<>>, l, Val(keptFull, l))
             /\ l \in clearing /\ outbox[1] # Del(l) => Absent(c, <<>>, l)
  <2>1. l \in Locs \ torn /\ \A k \in DOMAIN s : s[k] # Del(l)
    BY <1>4, <1>6
  <2>2. Forward(c, <<>>, l)
    BY <1>2, EmptyWay
  <2>3. Behind(c, <<>>, l, Val(keptFull, l))
    BY <1>2, <1>5, <2>1, EmptyWay
  <2>4. Absent(c, s, l) => Absent(c, <<>>, l)
    BY <1>2, <2>1, EmptyWay
  <2> QED BY <1>5, <2>1, <2>2, <2>3, <2>4
<1> QED BY <1>1, <1>3, <1>6 DEF Way

(* Another worker starts in the place of one that died.                    *)
LEMMA DieWay ==
  ASSUME Types, BackInv, NEW w \in Workers, Die(w)
  PROVE  Way(w)' /\ ~linked'[w] /\ conf'[w] = FileConf
<1>1. /\ w \in Procs /\ w # Agent /\ clearing \subseteq Dynamic
      /\ \A l : Val(keptFull, l) \in Nat
  BY InboxOf
<1>2. /\ UNCHANGED <<outbox, keptAdds, keptFull, clearing, torn>>
      /\ inbox'[w] = <<>> /\ ~linked'[w] /\ conf'[w] = FileConf
  BY <1>1 DEF Die, Cut, broker, Types, ProcType, MailType
<1>3. /\ FileConf \in Confs /\ DOMAIN FileConf = Static /\ \A l \in Static : FileConf[l] = 0
  BY InitialConfs DEF FileConf
<1>4. ASSUME NEW l \in Locs \ torn
      PROVE  /\ Forward(FileConf, <<>>, l) /\ Behind(FileConf, <<>>, l, Val(keptFull, l))
             /\ l \in clearing => Absent(FileConf, <<>>, l)
  <2>1. Forward(FileConf, <<>>, l) /\ Behind(FileConf, <<>>, l, 0)
    BY <1>3, EmptyWay
  <2>2. Behind(FileConf, <<>>, l, Val(keptFull, l))
    <3>1. 0 <= Val(keptFull, l) /\ 0 \in Nat /\ Val(keptFull, l) \in Nat
      BY <1>1
    <3>2. <<>> \in Seq(ToProc)
      OBVIOUS
    <3> QED BY <1>3, <2>1, <3>1, <3>2, BehindLess
  <2>3. l \in clearing => Absent(FileConf, <<>>, l)
    BY <1>1, <1>3, LocsAreDistinct, EmptyWay
  <2> QED BY <2>1, <2>2, <2>3
<1> QED BY <1>2, <1>4 DEF Way

-----------------------------------------------------------------------------
LEMMA BackInit == Init => BackInv
<1> SUFFICES ASSUME Init PROVE BackInv
    OBVIOUS
<1>1. /\ outbox = <<>> /\ keptAdds = {} /\ keptFull = Nothing /\ clearing = {}
      /\ \A p \in Procs : conf[p] = FileConf /\ ~linked[p] /\ inbox[p] = <<>>
      /\ Agent \in Procs /\ Workers \subseteq Procs
  BY DEF Init, Procs
<1>2. DOMAIN Nothing = {} /\ Nothing \in Confs /\ FileConf \in Confs
      /\ \A l \in DOMAIN FileConf : FileConf[l] = 0
  BY InitialConfs DEF Nothing, FileConf
<1>3. PICK e : e = <<>>
  OBVIOUS
<1>4. DOMAIN e = {} /\ Len(e) = 0
  BY <1>3
<1>5. Link(Nothing, e, {}, {}, torn)
  <2>1. Shape(e, {}) /\ \A l : Falling(Nothing, e, l, {})
    BY <1>4 DEF Shape, Falling
  <2>2. \A l : Backed(Nothing, e, l, {}, {})
    BY <1>2, <1>4 DEF Backed, Stage
  <2> QED BY <2>1, <2>2 DEF Link
<1>6. Link(keptFull, outbox, keptAdds, clearing, torn)
  BY <1>1, <1>3, <1>5
<1>7. Leads /\ Starts /\ Settings
  BY <1>1, <1>2 DEF Leads, Ready, Starts, Settings, Known
<1>8. ASSUME NEW w \in Workers PROVE Way(w)
  <2>1. ASSUME NEW l PROVE Forward(FileConf, <<>>, l) /\ Behind(FileConf, <<>>, l, 0)
    BY <1>2, EmptyWay
  <2>2. \A l : Val(keptFull, l) = 0
    BY <1>1, <1>2 DEF Val
  <2> QED BY <1>1, <2>1, <2>2 DEF Way
<1> QED BY <1>6, <1>7, <1>8 DEF BackInv

LEMMA BackNext ==
  ASSUME KeptInv, BackInv, [Next]_vars
  PROVE  /\ BackInv'
         /\ \A w \in Workers :
              \A l \in (DOMAIN conf[w] \cap DOMAIN conf'[w]) \ torn :
                conf'[w][l] < conf[w][l] => ~linked'[w] /\ conf'[w] = FileConf
<1>1. Types /\ AgentMail /\ AgentListed
  BY DEF KeptInv
<1> DEFINE Agents == /\ Link(keptFull, outbox, keptAdds, clearing, torn)'
                     /\ Leads' /\ Starts' /\ Settings'
           Steady(w) == \A l \in (DOMAIN conf[w] \cap DOMAIN conf'[w]) \ torn :
                          conf'[w][l] < conf[w][l] => ~linked'[w] /\ conf'[w] = FileConf
           Good == Agents /\ \A w \in Workers : Way(w)' /\ Steady(w)
(* A worker whose configuration is the same has not gone back.             *)
<1>2. ASSUME NEW w \in Workers, conf'[w] = conf[w] PROVE Steady(w)
  <2>1. \A l \in DOMAIN conf[w] : conf[w][l] \in Nat
    BY <1>1, InboxOf, ConfsMember, BoundsAreNaturals
  <2> QED BY <1>2, <2>1
<1> HIDE DEF Steady
(* A worker that does not take part.                                       *)
<1>3. ASSUME NEW w \in Workers, torn \subseteq torn', UNCHANGED keptFull,
             conf'[w] = conf[w], linked'[w] = linked[w], inbox'[w] = inbox[w],
             \A l \in clearing' \ torn' :
               (l \in clearing /\ outbox'[1] = outbox[1]) \/ outbox'[1] = Del(l)
      PROVE  Way(w)' /\ Steady(w)
  BY <1>2, <1>3, ElsewhereWay
<1>4. ASSUME UNCHANGED <<conf, linked, inbox, outbox, keptAdds, keptFull, done, clearing, torn>>
      PROVE  Good
  <2>1. Agents
    BY <1>4, ElsewhereBack
  <2> QED BY <1>3, <1>4, <2>1
<1>5. ASSUME NEW l \in Locs, NEW op, SendRpc(op, l) PROVE Good
  <2>1. Agents
    BY <1>1, <1>5, SendBack
  <2>2. UNCHANGED <<conf, linked, outbox, keptFull, clearing, torn>>
        /\ \A w \in Workers : inbox'[w] = inbox[w]
    BY <1>5, ProcsAreDistinct DEF SendRpc, broker, history, Types, MailType, Procs
  <2> QED BY <1>3, <2>1, <2>2
<1>6. ASSUME CarryOut PROVE Good
  <2>1. Agents
    BY <1>1, <1>6, CarryOutBack
  <2>2. /\ UNCHANGED <<linked, keptFull, clearing, torn>>
        /\ \A w \in Workers : inbox'[w] = inbox[w] /\ conf'[w] = conf[w]
        /\ outbox' = outbox \o Sent(conf[Agent], Head(inbox[Agent]).id)
    BY <1>1, <1>6, ProcsAreDistinct DEF CarryOut, broker, Types, MailType, ProcType, Procs
  <2>3. ASSUME NEW l \in clearing \ torn PROVE outbox'[1] = outbox[1]
    <3>1. outbox # <<>>
      BY <2>3 DEF BackInv, Link, Begun
    <3>2. /\ outbox \in Seq(FromProc) /\ Sent(conf[Agent], Head(inbox[Agent]).id) \in Seq(FromProc)
      <4>1. PICK u, s : u = Head(inbox[Agent]).id /\ s = inbox[Agent]
        OBVIOUS
      <4>2. /\ s # <<>> /\ s[1].type = "rpc" /\ s[1].id = u /\ 1 \in DOMAIN s
        BY <1>1, <1>6, <4>1, InboxOfAgent DEF CarryOut
      <4>3. u \in DOMAIN requests /\ RequestType
        BY <1>1, <4>1, <4>2 DEF Types, ApiType
      <4>4. conf[Agent] \in Confs /\ Static \subseteq DOMAIN conf[Agent] /\ outbox \in Seq(FromProc)
        BY <1>1 DEF Types, ProcType, MailType, Procs
      <4> QED BY <4>1, <4>3, <4>4, SentMsgs
    <3> QED BY <2>2, <3>1, <3>2, ConcatProperties
  <2> QED BY <1>3, <2>1, <2>2, <2>3
<1>7. ASSUME RoutePublished PROVE Good
  <2>1. Agents
    BY <1>1, <1>7, RoutedBack
  <2>2. conf' = conf
    BY <1>7 DEF RoutePublished
  <2> QED BY <1>1, <1>2, <1>7, <2>1, <2>2, RoutedWay
<1>8. ASSUME RouteReply PROVE Good
  <2>1. Agents
    BY <1>1, <1>8, RoutedBack
  <2>2. UNCHANGED <<conf, linked, inbox, keptFull, clearing, torn>>
    BY <1>8 DEF RouteReply, broker, history
  <2>3. clearing \ torn = {}
    <3>1. outbox # <<>> /\ outbox[1].type = "reply"
      BY <1>1, <1>8 DEF RouteReply, Types, MailType
    <3>2. \A l \in clearing \ torn : outbox[1] = Del(l) \/ outbox[1].type = "full"
      BY DEF BackInv, Link, Begun
    <3>3. \A l : Del(l).type = "del"
      BY DEF Del
    <3> QED BY <3>1, <3>2, <3>3
  <2> QED BY <1>3, <2>1, <2>2, <2>3
<1>9. ASSUME NEW p \in Procs, p # Agent, Receive(p) \/ Connect(p) \/ Break(p) \/ Die(p) PROVE Good
  <2>1. /\ UNCHANGED <<outbox, keptAdds, keptFull, done, clearing>> /\ torn \subseteq torn'
        /\ \A x \in Procs : x # p => /\ conf'[x] = conf[x] /\ linked'[x] = linked[x]
                                     /\ inbox'[x] = inbox[x]
        /\ Agent \in Procs /\ p \in Workers
    BY <1>1, <1>9 DEF Receive, Connect, Break, Die, Cut, broker, history, Types, MailType,
                      ProcType, Procs
  <2>2. Agents
    BY <1>9, <2>1, ElsewhereBack
  <2>3. ASSUME NEW w \in Workers, w # p PROVE Way(w)' /\ Steady(w)
    <3>1. w \in Procs
      BY DEF Procs
    <3> QED BY <1>3, <2>1, <2>3, <3>1
  <2>4. Way(p)' /\ Steady(p)
    <3>1. CASE Receive(p)
      <4>1. Way(p)' /\ \A l \in (DOMAIN conf[p] \cap DOMAIN conf'[p]) \ torn :
                         ~(conf'[p][l] < conf[p][l])
        BY <1>1, <2>1, <3>1, ReceiveWay
      <4> QED BY <4>1 DEF Steady
    <3>2. CASE Connect(p)
      <4>1. conf' = conf
        BY <3>2 DEF Connect
      <4> QED BY <1>1, <1>2, <2>1, <3>2, <4>1, ConnectWay
    <3>3. CASE Break(p)
      <4>1. conf' = conf
        BY <3>3 DEF Break
      <4> QED BY <1>1, <1>2, <2>1, <3>3, <4>1, BreakWay
    <3>4. CASE Die(p)
      <4>1. Way(p)' /\ ~linked'[p] /\ conf'[p] = FileConf
        BY <1>1, <2>1, <3>4, DieWay
      <4> QED BY <4>1 DEF Steady
    <3> QED BY <1>9, <3>1, <3>2, <3>3, <3>4
  <2> QED BY <2>2, <2>3, <2>4
<1>10. ASSUME Receive(Agent) \/ Connect(Agent) \/ Break(Agent) \/ Die(Agent) PROVE Good
  <2>1. /\ UNCHANGED keptFull /\ torn \subseteq torn'
        /\ \A w \in Workers : /\ conf'[w] = conf[w] /\ linked'[w] = linked[w]
                              /\ inbox'[w] = inbox[w]
        /\ clearing' = {} \/ UNCHANGED <<outbox, clearing>>
    BY <1>1, <1>10, ProcsAreDistinct DEF Receive, Connect, Break, Die, Cut, broker, history,
                    Types, MailType, ProcType, Procs
  <2>2. Agents
    BY <1>1, <1>10, ReceiveBack, ConnectBack, CutBack
  <2>3. \A l \in clearing' \ torn' : l \in clearing /\ outbox'[1] = outbox[1]
    BY <2>1
  <2> QED BY <1>3, <2>1, <2>2, <2>3
<1>11. ASSUME NEW p \in Procs, Receive(p) \/ Connect(p) \/ Break(p) \/ Die(p) PROVE Good
  BY <1>9, <1>10, <1>11
<1>12. ASSUME UNCHANGED vars PROVE Good
  <2>1. UNCHANGED <<conf, linked, inbox, outbox, keptAdds, keptFull, done, clearing, torn>>
    BY <1>12 DEF vars, broker, api, history
  <2> QED BY <1>4, <2>1
<1>13. ASSUME Progress PROVE Good
  <2>1. ASSUME NEW u \in Ids, TimerFired(u) PROVE Good
    BY <1>4, <2>1 DEF TimerFired, broker, history
  <2> QED BY <1>6, <1>7, <1>8, <1>11, <1>13, <2>1 DEF Progress
<1>14. ASSUME Change PROVE Good
  <2> QED BY <1>5, <1>14 DEF Change, Locs
<1>15. ASSUME NEW p \in Procs, Break(p) \/ Die(p) PROVE Good
  <2> QED BY <1>11, <1>15
<1>16. Good
  <2> QED BY <1>12, <1>13, <1>14, <1>15 DEF Next
<1> QED BY <1>16 DEF BackInv, Steady

(* A worker never goes back to an older setting of a location, whatever    *)
(* the order in which replayed, live and deleted configurations meet: for  *)
(* any number of workers, locations, changes, broken connections and       *)
(* deaths (njt_http_kv_module.c subscribes to /ins before /dyn).           *)
THEOREM NeverBackHolds == Spec => NeverBack
<1>1. Init => KeptInv /\ BackInv
  BY KeptInit, BackInit
<1>2. KeptInv /\ BackInv /\ [Next]_vars => KeptInv' /\ BackInv'
  BY KeptNext, BackNext
<1>3. KeptInv /\ BackInv /\ [Next]_vars =>
        [\A w \in Workers :
           \A l \in (DOMAIN conf[w] \cap DOMAIN conf'[w]) \ torn :
             conf'[w][l] < conf[w][l] => ~linked'[w] /\ conf'[w] = FileConf]_vars
  BY BackNext
<1> QED BY <1>1, <1>2, <1>3, PTL DEF Spec, NeverBack

-----------------------------------------------------------------------------
(* How often a caller is called.  A change that was sent has been called   *)
(* back once, or is still registered: whoever comes second, the answer or  *)
(* the timer, finds no session.                                            *)
CalledIfGone ==
  \A u \in Ids : calls[u] = IF u \in DOMAIN requests \ sessions THEN 1 ELSE 0

(* The changes that were sent have ids.                                    *)
LEMMA KnownIds == Types => DOMAIN requests \subseteq Ids
<1> SUFFICES ASSUME Types PROVE DOMAIN requests \subseteq Ids
  OBVIOUS
<1>1. /\ DOMAIN requests = 1 .. Len(requests) /\ Len(requests) \in Nat
      /\ Len(requests) <= MaxChanges /\ MaxChanges \in Nat
  BY BoundsAreNaturals DEF Types, RequestType
<1> QED
  BY <1>1 DEF Ids

(* An answer and a timer call whom they find, and unregister him.          *)
LEMMA InvokeOnce ==
  ASSUME Types, CalledIfGone, NEW u, Invoke(u), requests' = requests
  PROVE  CalledIfGone'
<1>1. /\ calls \in [Ids -> Nat] /\ sessions \subseteq DOMAIN requests
      /\ DOMAIN requests \subseteq Ids
  BY KnownIds DEF Types, ApiType
<1>2. ASSUME NEW v \in Ids
      PROVE  calls'[v] = IF v \in DOMAIN requests \ sessions' THEN 1 ELSE 0
  <2>1. CASE v = u
    BY <1>1, <2>1 DEF Invoke, CalledIfGone
  <2>2. CASE v # u
    BY <1>1, <2>2 DEF Invoke, CalledIfGone
  <2> QED
    BY <2>1, <2>2
<1> QED
  BY <1>2 DEF CalledIfGone

(* Every step keeps it so: only a new change registers anybody.            *)
LEMMA OnceNext == Types /\ CalledIfGone /\ [Next]_vars => CalledIfGone'
<1> SUFFICES ASSUME Types, CalledIfGone, [Next]_vars PROVE CalledIfGone'
  OBVIOUS
<1>1. ASSUME UNCHANGED <<calls, requests, sessions>> PROVE CalledIfGone'
  BY <1>1 DEF CalledIfGone
<1>2. ASSUME NEW l, NEW op, SendRpc(op, l) PROVE CalledIfGone'
  <2> DEFINE n == Len(requests) + 1
  <2>1. /\ DOMAIN requests = 1 .. Len(requests) /\ Len(requests) \in Nat
        /\ requests' = Append(requests, [op |-> op, loc |-> l])
        /\ calls' = calls /\ sessions' = sessions \cup {n}
        /\ sessions \subseteq DOMAIN requests
    BY <1>2 DEF SendRpc, Types, RequestType, ApiType
  <2>2. DOMAIN requests' = DOMAIN requests \cup {n} /\ n \notin DOMAIN requests
    BY <2>1
  <2>3. DOMAIN requests' \ sessions' = DOMAIN requests \ sessions
    BY <2>1, <2>2
  <2> QED
    BY <2>1, <2>3 DEF CalledIfGone
<1>3. CASE Change
  BY <1>2, <1>3 DEF Change
<1>4. ASSUME NEW u \in Ids, TimerFired(u) PROVE CalledIfGone'
  BY <1>4, InvokeOnce DEF TimerFired
<1>5. CASE RouteReply
  BY <1>5, InvokeOnce DEF RouteReply
<1>6. ASSUME NEW p \in Procs, Receive(p) \/ Connect(p) \/ Break(p) \/ Die(p)
      PROVE  CalledIfGone'
  BY <1>1, <1>6 DEF Receive, Connect, Break, Die, Cut, api
<1>7. CASE CarryOut \/ RoutePublished \/ UNCHANGED vars
  BY <1>1, <1>7 DEF CarryOut, RoutePublished, vars, api
<1> QED
  BY <1>3, <1>4, <1>5, <1>6, <1>7 DEF Next, Progress

(* What of CalledOnce needs no fairness: the handler of a change has been  *)
(* called once if its session is gone, and not yet if it is registered, so *)
(* that the answer and the timer never both call it, whichever is late     *)
(* (invoke_rpc_msg_handler, njt_sendmsg_rpc_timer_fired).                  *)
THEOREM NeverCalledTwice ==
  Spec => [](\A u \in DOMAIN requests : calls[u] = IF u \in sessions THEN 0 ELSE 1)
<1>1. Init => CalledIfGone
  BY DEF Init, CalledIfGone
<1>2. Spec => []Types
  <2>1. KeptInv => Types
    BY DEF KeptInv
  <2> QED
    BY <2>1, KeptInvHolds, PTL
<1>3. Spec => []CalledIfGone
  BY <1>1, <1>2, OnceNext, PTL DEF Spec
<1>4. Types /\ CalledIfGone
        => \A u \in DOMAIN requests : calls[u] = IF u \in sessions THEN 0 ELSE 1
  BY KnownIds DEF CalledIfGone
<1> QED
  BY <1>2, <1>3, <1>4, PTL

=============================================================================
