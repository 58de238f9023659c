---------------------------- MODULE Gossip_proofs ----------------------------
(***************************************************************************)
(* Proofs about module Gossip, for any number of nodes, reloads, deaths,   *)
(* stops and losses: what the walk along the member list elects, the types *)
(* of members and datagrams, and that a node goes on recording the master  *)
(* it elects.                                                              *)
(***************************************************************************)
EXTENDS Gossip, InductionLemmas, SequenceTheorems

-----------------------------------------------------------------------------
(* What is left of a list without some of its members.                     *)
Sifts(w, S, s, out) ==
  /\ w \in [0 .. Len(s) -> Seq(S)]
  /\ w[0] = <<>> /\ Without(s, out) = w[Len(s)]
  /\ \A i \in 1 .. Len(s) :
       w[i] = IF s[i] \in out THEN w[i - 1] ELSE Append(w[i - 1], s[i])

LEMMA WithoutRun ==
  ASSUME NEW S, NEW s \in Seq(S), NEW out
  PROVE  \E w : Sifts(w, S, s, out)
<1> DEFINE len == Len(s)
           next(v, i) == IF s[i] \in out THEN v ELSE Append(v, s[i])
           Def(w) == [i \in 0 .. len |-> IF i = 0 THEN <<>> ELSE next(w[i - 1], i)]
           kept == CHOOSE w : w = Def(w)
           step == [x \in Seq(S) \X (1 .. len) |-> next(x[1], x[2])]
<1>1. len \in Nat /\ \A i \in 1 .. len : s[i] \in S
  OBVIOUS
<1>2. <<>> \in Seq(S)
  OBVIOUS
<1>3. \A v \in Seq(S), i \in 1 .. len : next(v, i) \in Seq(S)
  BY <1>1
<1>4. Without(s, out) = kept[len]
  BY DEF Without
<1> HIDE DEF next
<1>5. step \in [Seq(S) \X (1 .. len) -> Seq(S)]
  BY <1>3
<1>6. \A v \in Seq(S), i \in 1 .. len : step[<<v, i>>] = next(v, i)
  OBVIOUS
<1> HIDE DEF step, len
<1>7. PICK v : Run(v, Seq(S), <<>>, len, step)
  BY <1>1, <1>2, <1>5, Repeated
<1>8. v = Def(v)
  <2>1. \A i \in 1 .. len : v[i] = next(v[i - 1], i)
    <3> TAKE i \in 1 .. len
    <3>1. v[i - 1] \in Seq(S) /\ v[i] = step[<<v[i - 1], i>>]
      BY <1>1, <1>7 DEF Run
    <3> QED BY <1>6, <3>1
  <2>2. v \in [0 .. len -> Seq(S)] /\ v[0] = <<>>
    BY <1>7 DEF Run
  <2>3. \A i \in 0 .. len : v[i] = Def(v)[i]
    BY <1>1, <2>1, <2>2
  <2> QED BY <2>2, <2>3
<1>9. kept = Def(kept)
  BY <1>8
<1> HIDE DEF kept
<1>10. PICK w : w = kept
  OBVIOUS
<1>11. w = [i \in 0 .. len |-> IF i = 0 THEN <<>> ELSE next(w[i - 1], i)]
  BY <1>9, <1>10
<1>12. /\ w = [i \in 0 .. len |-> w[i]] /\ w[0] = <<>>
       /\ \A i \in 1 .. len : w[i] = next(w[i - 1], i)
  <2>1. DOMAIN w = 0 .. len /\ w = [i \in DOMAIN w |-> w[i]]
    BY <1>11
  <2>2. \A i \in 0 .. len : w[i] = IF i = 0 THEN <<>> ELSE next(w[i - 1], i)
    BY <1>11
  <2>3. 0 \in 0 .. len /\ \A i \in 1 .. len : i \in 0 .. len /\ i # 0
    BY <1>1
  <2> QED BY <2>1, <2>2, <2>3
<1>13. Run(w, Seq(S), <<>>, len, step)
  BY <1>1, <1>2, <1>5, <1>6, <1>12, RunOf
<1> QED BY <1>4, <1>10, <1>12, <1>13 DEF Run, next, len, Sifts

(* It is a part of the list, in the order of the list, and all of it that  *)
(* was not to be dropped.                                                  *)
Placed(t, s, n, k, p) ==
  /\ p \in [1 .. n -> 1 .. k]
  /\ \A i \in 1 .. n : t[i] = s[p[i]]
  /\ \A i, j \in 1 .. n : i < j => p[i] < p[j]
Kept(t, s, n, k, out) ==
  \A j \in 1 .. k : s[j] \notin out => \E i \in 1 .. n : t[i] = s[j]
PartOf(t, s, out, k) ==
  /\ \E p : Placed(t, s, Len(t), k, p)
  /\ Kept(t, s, Len(t), k, out)

LEMMA PartGrows ==
  ASSUME NEW S, NEW s \in Seq(S), NEW out, NEW k \in Nat, k < Len(s),
         NEW t \in Seq(S), PartOf(t, s, out, k)
  PROVE  PartOf(IF s[k + 1] \in out THEN t ELSE Append(t, s[k + 1]), s, out, k + 1)
<1>1. PICK n \in Nat : n = Len(t)
  OBVIOUS
<1>2. PICK p : Placed(t, s, n, k, p)
  BY <1>1 DEF PartOf
<1>3. CASE s[k + 1] \in out
  <2>1. Placed(t, s, n, k + 1, p)
    BY <1>2 DEF Placed
  <2>2. ASSUME NEW j \in 1 .. k + 1, s[j] \notin out
        PROVE  \E i \in 1 .. n : t[i] = s[j]
    <3>1. j \in 1 .. k
      BY <1>3, <2>2
    <3> QED BY <1>1, <2>2, <3>1 DEF PartOf, Kept
  <2>3. Kept(t, s, n, k + 1, out)
    BY <2>2 DEF Kept
  <2> QED BY <1>1, <1>3, <2>1, <2>3 DEF PartOf
<1>4. CASE s[k + 1] \notin out
  <2>1. s[k + 1] \in S
    OBVIOUS
  <2>2. PICK u : u = Append(t, s[k + 1])
    OBVIOUS
  <2>3. Len(u) = n + 1 /\ u[n + 1] = s[k + 1] /\ \A i \in 1 .. n : u[i] = t[i]
    BY <1>1, <2>1, <2>2
  <2> DEFINE q == [i \in 1 .. n + 1 |-> IF i = n + 1 THEN k + 1 ELSE p[i]]
  <2>4. q \in [1 .. n + 1 -> 1 .. k + 1] /\ q[n + 1] = k + 1
        /\ \A i \in 1 .. n : q[i] = p[i] /\ p[i] \in 1 .. k
    BY <1>2 DEF Placed
  <2>5. \A i \in 1 .. n + 1 : i \in 1 .. n \/ i = n + 1
    OBVIOUS
  <2> HIDE DEF q
  <2>6. \A i \in 1 .. n + 1 : u[i] = s[q[i]]
    BY <1>2, <2>3, <2>4, <2>5 DEF Placed
  <2>7. ASSUME NEW i \in 1 .. n + 1, NEW j \in 1 .. n + 1, i < j PROVE q[i] < q[j]
    <3>1. i \in 1 .. n
      BY <2>7
    <3>2. CASE j \in 1 .. n
      BY <1>2, <2>4, <2>7, <3>1, <3>2 DEF Placed
    <3>3. CASE j = n + 1
      BY <2>4, <3>1, <3>3
    <3> QED BY <2>5, <3>2, <3>3
  <2>8. Placed(u, s, n + 1, k + 1, q)
    BY <2>4, <2>6, <2>7 DEF Placed
  <2>9. ASSUME NEW j \in 1 .. k + 1, s[j] \notin out
        PROVE  \E i \in 1 .. n + 1 : u[i] = s[j]
    <3>1. CASE j \in 1 .. k
      <4>1. PICK i \in 1 .. n : t[i] = s[j]
        BY <1>1, <2>9, <3>1 DEF PartOf, Kept
      <4>2. i \in 1 .. n + 1 /\ u[i] = t[i]
        BY <2>3
      <4> QED BY <4>1, <4>2
    <3>2. CASE j = k + 1
      BY <2>3, <3>2
    <3> QED BY <3>1, <3>2
  <2>10. Kept(u, s, n + 1, k + 1, out)
    BY <2>9 DEF Kept
  <2>11. PartOf(u, s, out, k + 1)
    BY <2>3, <2>8, <2>10 DEF PartOf
  <2> QED BY <1>4, <2>2, <2>11
<1> QED BY <1>3, <1>4

LEMMA WithoutPart ==
  ASSUME NEW S, NEW s \in Seq(S), NEW out
  PROVE  Without(s, out) \in Seq(S) /\ PartOf(Without(s, out), s, out, Len(s))
<1>1. PICK w \in [0 .. Len(s) -> Seq(S)] :
        /\ w[0] = <<>> /\ Without(s, out) = w[Len(s)]
        /\ \A i \in 1 .. Len(s) :
             w[i] = IF s[i] \in out THEN w[i - 1] ELSE Append(w[i - 1], s[i])
  <2>1. PICK w : Sifts(w, S, s, out)
    BY WithoutRun
  <2> QED BY <2>1 DEF Sifts
<1>2. Len(s) \in Nat
  OBVIOUS
<1> DEFINE Ks == {k \in Nat : k <= Len(s) => PartOf(w[k], s, out, k)}
<1>3. 0 \in Ks
  <2>1. Placed(<<>>, s, 0, 0, <<>>) /\ Kept(<<>>, s, 0, 0, out)
    BY DEF Placed, Kept
  <2>2. PartOf(<<>>, s, out, 0)
    BY <2>1 DEF PartOf
  <2> QED BY <1>1, <2>2
<1>4. ASSUME NEW k \in Nat, k \in Ks PROVE k + 1 \in Ks
  <2> SUFFICES ASSUME k + 1 <= Len(s) PROVE PartOf(w[k + 1], s, out, k + 1)
    OBVIOUS
  <2>1. k < Len(s) /\ k + 1 \in 1 .. Len(s) /\ (k + 1) - 1 = k /\ k \in 0 .. Len(s)
    BY <1>2
  <2>2. w[k] \in Seq(S) /\ PartOf(w[k], s, out, k)
    BY <1>1, <1>4, <2>1
  <2>3. w[k + 1] = IF s[k + 1] \in out THEN w[k] ELSE Append(w[k], s[k + 1])
    BY <1>1, <2>1
  <2>4. PartOf(IF s[k + 1] \in out THEN w[k] ELSE Append(w[k], s[k + 1]), s, out, k + 1)
    BY <2>1, <2>2, PartGrows
  <2> QED BY <2>3, <2>4
<1> HIDE DEF Ks
<1>5. Len(s) \in Ks
  BY <1>2, <1>3, <1>4, Induction
<1>6. Len(s) \in 0 .. Len(s)
  BY <1>2
<1> QED BY <1>1, <1>2, <1>5, <1>6 DEF Ks

-----------------------------------------------------------------------------
(* The election.  A member walks along ...                                 *)
First(self, boot) == [member |-> self, boot |-> boot, byName |-> FALSE]

LEMMA PreferType ==
  ASSUME NEW c \in Candidates, NEW e \in Members
  PROVE  Prefer(c, e) \in Candidates
BY DEF Candidates, Members, Prefer

LEMMA Walk ==
  ASSUME NEW self \in Members, NEW boot \in Nat, NEW others \in Seq(Members)
  PROVE  \E w \in [0 .. Len(others) -> Candidates] :
           /\ w[0] = First(self, boot)
           /\ \A i \in 1 .. Len(others) : w[i] = Prefer(w[i - 1], others[i])
           /\ ElectFrom(self, boot, others) = w[Len(others)].member
<1> DEFINE len == Len(others)
           next(i) == [c \in Candidates |-> Prefer(c, others[i])]
           Def(w) == [i \in 0 .. len |->
                        IF i = 0 THEN First(self, boot) ELSE next(i)[w[i - 1]]]
           walk == CHOOSE w : w = Def(w)
           step == [x \in Candidates \X (1 .. len) |-> Prefer(x[1], others[x[2]])]
<1>1. len \in Nat /\ \A i \in 1 .. len : others[i] \in Members
  OBVIOUS
<1>2. First(self, boot) \in Candidates
  BY DEF First, Candidates
<1>3. step \in [Candidates \X (1 .. len) -> Candidates]
  BY <1>1, PreferType
<1>4. \A c \in Candidates, i \in 1 .. len : step[<<c, i>>] = next(i)[c]
  OBVIOUS
<1>5. ElectFrom(self, boot, others) = walk[len].member
  BY DEF ElectFrom, First
<1>6. \A i \in 1 .. len, c \in Candidates : next(i)[c] = Prefer(c, others[i])
  OBVIOUS
<1> HIDE DEF step, len, next
<1>7. \E v : Run(v, Candidates, First(self, boot), len, step)
  BY <1>1, <1>2, <1>3, Repeated
<1>8. PICK v \in [0 .. len -> Candidates] :
        v[0] = First(self, boot) /\ \A i \in 1 .. len : v[i] = step[<<v[i - 1], i>>]
  BY <1>7 DEF Run
<1>9. v = Def(v)
  <2>1. \A i \in 1 .. len : v[i] = next(i)[v[i - 1]]
    <3> TAKE i \in 1 .. len
    <3>1. v[i - 1] \in Candidates /\ v[i] = step[<<v[i - 1], i>>]
      BY <1>1, <1>8
    <3> QED BY <1>4, <3>1
  <2>2. \A i \in 0 .. len : v[i] = Def(v)[i]
    BY <1>1, <1>8, <2>1
  <2> QED BY <1>8, <2>2
<1>10. walk = Def(walk)
  BY <1>9
<1> HIDE DEF walk
<1>11. PICK w : w = walk
  OBVIOUS
<1>12. w = [i \in 0 .. len |-> IF i = 0 THEN First(self, boot) ELSE next(i)[w[i - 1]]]
  BY <1>10, <1>11
<1>13. /\ w = [i \in 0 .. len |-> w[i]] /\ w[0] = First(self, boot)
       /\ \A i \in 1 .. len : w[i] = next(i)[w[i - 1]]
  <2>1. DOMAIN w = 0 .. len /\ w = [i \in DOMAIN w |-> w[i]]
    BY <1>12
  <2>2. \A i \in 0 .. len : w[i] = IF i = 0 THEN First(self, boot) ELSE next(i)[w[i - 1]]
    BY <1>12
  <2>3. 0 \in 0 .. len /\ \A i \in 1 .. len : i \in 0 .. len /\ i # 0
    BY <1>1
  <2> QED BY <2>1, <2>2, <2>3
<1>14. Run(w, Candidates, First(self, boot), len, step)
  <2>1. \A i \in 1 .. len : w[i - 1] \in Candidates => w[i] = step[<<w[i - 1], i>>]
    BY <1>4, <1>13
  <2>2. w = [i \in 0 .. len |-> w[i]] /\ w[0] = First(self, boot)
    BY <1>13
  <2> QED BY <1>1, <1>2, <1>3, <2>1, <2>2, RunOf
<1>15. w \in [0 .. len -> Candidates]
  BY <1>14 DEF Run
<1>16. ASSUME NEW i \in 1 .. len PROVE w[i] = Prefer(w[i - 1], others[i])
  <2>1. w[i - 1] \in Candidates
    BY <1>1, <1>15
  <2> QED BY <1>6, <1>13, <2>1
<1> QED BY <1>5, <1>11, <1>13, <1>15, <1>16 DEF len

(* ... and nobody in the list booted before the one that is left at the    *)
(* end, whatever the flag for equal boot times did on the way.             *)
Wins(m, b, self, boot, others, len) ==
  \/ m = self /\ b = boot /\ \A i \in 1 .. len : boot <= others[i].boot
  \/ \E j \in 1 .. len :
       /\ m = others[j] /\ b = others[j].boot /\ b <= boot
       /\ \A i \in 1 .. len : b <= others[i].boot

LEMMA Boots ==
  ASSUME NEW s \in Seq(Members)
  PROVE  \A i \in 1 .. Len(s) : s[i] \in Members /\ s[i].boot \in Nat /\ s[i].node \in Nodes
<1>1. \A i \in 1 .. Len(s) : s[i] \in Members
  OBVIOUS
<1>2. \A e \in Members : e.boot \in Nat /\ e.node \in Nodes
  BY DEF Members
<1> QED BY <1>1, <1>2

LEMMA PreferStep ==
  ASSUME NEW c \in Candidates, NEW e \in Members
  PROVE  \/ /\ Prefer(c, e).member = e /\ Prefer(c, e).boot = e.boot
            /\ e.boot <= c.boot
         \/ /\ Prefer(c, e).member = c.member /\ Prefer(c, e).boot = c.boot
            /\ c.boot <= e.boot
<1>1. c.boot \in Nat /\ e.boot \in Nat
  BY DEF Candidates, Members
<1> DEFINE tie == e.boot = c.boot
           byName == c.byName \/ (tie /\ e.node > c.member.node)
<1>2. CASE e.boot < c.boot \/ (tie /\ byName)
  <2>1. Prefer(c, e) = [member |-> e, boot |-> e.boot, byName |-> byName]
    BY <1>2, Zenon DEF Prefer
  <2>2. e.boot <= c.boot
    BY <1>1, <1>2
  <2> QED BY <2>1, <2>2
<1>3. CASE ~(e.boot < c.boot \/ (tie /\ byName))
  <2>1. Prefer(c, e) = [c EXCEPT !.byName = byName]
    BY <1>3, Zenon DEF Prefer
  <2>2. c.boot <= e.boot
    BY <1>1, <1>3 DEF Prefer, Candidates
  <2>3. Prefer(c, e).member = c.member /\ Prefer(c, e).boot = c.boot
    BY <2>1 DEF Candidates
  <2> QED BY <2>2, <2>3
<1> QED BY <1>2, <1>3

THEOREM ElectsEldest ==
  ASSUME NEW self \in Members, NEW boot \in Nat, NEW others \in Seq(Members)
  PROVE  \E b : Wins(ElectFrom(self, boot, others), b, self, boot, others, Len(others))
<1>1. PICK w \in [0 .. Len(others) -> Candidates] :
        /\ w[0] = First(self, boot)
        /\ \A i \in 1 .. Len(others) : w[i] = Prefer(w[i - 1], others[i])
        /\ ElectFrom(self, boot, others) = w[Len(others)].member
  BY Walk
<1>2. PICK len \in Nat : len = Len(others)
  OBVIOUS
<1>3. \A i \in 1 .. len : others[i] \in Members /\ others[i].boot \in Nat
  BY <1>2, Boots
<1> DEFINE Best(k) == Wins(w[k].member, w[k].boot, self, boot, others, k)
           Ks == {k \in Nat : k <= len => Best(k)}
<1>4. 0 \in Ks
  BY <1>1 DEF First, Wins
<1>5. ASSUME NEW k \in Nat, k \in Ks PROVE k + 1 \in Ks
  <2> SUFFICES ASSUME k + 1 <= len PROVE Best(k + 1)
    OBVIOUS
  <2>1. k + 1 \in 1 .. len /\ (k + 1) - 1 = k /\ k \in 0 .. len
        /\ \A i \in 1 .. k + 1 : i \in 1 .. k \/ i = k + 1
    OBVIOUS
  <2>2. PICK e \in Members : e = others[k + 1] /\ e.boot \in Nat
    BY <1>3, <2>1
  <2>3. PICK c \in Candidates : c = w[k] /\ c.boot \in Nat
    BY <1>1, <1>2, <2>1 DEF Candidates
  <2>4. PICK d : d = w[k + 1] /\ d = Prefer(c, e)
    BY <1>1, <1>2, <2>1, <2>2, <2>3
  <2>5. Wins(c.member, c.boot, self, boot, others, k)
    BY <1>5, <2>3
  <2>6. \/ d.member = e /\ d.boot = e.boot /\ e.boot <= c.boot
        \/ d.member = c.member /\ d.boot = c.boot /\ c.boot <= e.boot
    BY <2>4, PreferStep
  <2>7. \A i \in 1 .. k : i \in 1 .. len /\ i \in 1 .. k + 1 /\ others[i].boot \in Nat
    BY <1>3, <2>1
  <2>8. CASE d.member = e /\ d.boot = e.boot /\ e.boot <= c.boot
    <3>1. e.boot <= boot /\ \A i \in 1 .. k : e.boot <= others[i].boot
      BY <2>2, <2>3, <2>5, <2>7, <2>8 DEF Wins
    <3>2. \A i \in 1 .. k + 1 : e.boot <= others[i].boot
      BY <2>1, <2>2, <3>1
    <3>3. k + 1 \in 1 .. k + 1
      OBVIOUS
    <3> QED BY <2>2, <2>4, <2>8, <3>1, <3>2, <3>3 DEF Wins
  <2>9. CASE d.member = c.member /\ d.boot = c.boot /\ c.boot <= e.boot
    <3>1. CASE c.member = self /\ c.boot = boot /\ \A i \in 1 .. k : boot <= others[i].boot
      <4>1. \A i \in 1 .. k + 1 : boot <= others[i].boot
        BY <2>1, <2>2, <2>9, <3>1
      <4> QED BY <2>4, <2>9, <3>1, <4>1 DEF Wins
    <3>2. CASE \E j \in 1 .. k : /\ c.member = others[j] /\ c.boot = others[j].boot
                                 /\ c.boot <= boot
                                 /\ \A i \in 1 .. k : c.boot <= others[i].boot
      <4>1. PICK j \in 1 .. k : /\ c.member = others[j] /\ c.boot = others[j].boot
                                /\ c.boot <= boot
                                /\ \A i \in 1 .. k : c.boot <= others[i].boot
        BY <3>2
      <4>2. \A i \in 1 .. k + 1 : c.boot <= others[i].boot
        BY <2>1, <2>2, <2>9, <4>1
      <4>3. j \in 1 .. k + 1
        BY <2>7
      <4> QED BY <2>4, <2>9, <4>1, <4>2, <4>3 DEF Wins
    <3> QED BY <2>5, <3>1, <3>2 DEF Wins
  <2> QED BY <2>4, <2>6, <2>8, <2>9
<1> HIDE DEF Ks
<1>6. len \in Ks
  BY <1>4, <1>5, Induction
<1> QED BY <1>1, <1>2, <1>6 DEF Ks

LEMMA ElectType ==
  ASSUME NEW self \in Members, NEW boot \in Nat, NEW others \in Seq(Members)
  PROVE  ElectFrom(self, boot, others) \in Members
BY ElectsEldest, Boots DEF Wins

(* Of lists in which a boot time belongs to one node, it elects the same   *)
(* node from both, if the second has nobody but members of the first and   *)
(* the one that is elected from the first is among them.                   *)
LEMMA SameElection ==
  ASSUME NEW self \in Members, NEW self2 \in Members, self2.node = self.node,
         NEW boot \in Nat, NEW others \in Seq(Members), NEW rest \in Seq(Members),
         \A i, j \in 1 .. Len(others) :
           others[i].boot = others[j].boot => others[i].node = others[j].node,
         \A i \in 1 .. Len(others) : others[i].boot # boot /\ others[i] # self,
         \A i \in 1 .. Len(rest) : \E j \in 1 .. Len(others) : rest[i] = others[j],
         \/ ElectFrom(self, boot, others) = self
         \/ \E i \in 1 .. Len(rest) : ElectFrom(self, boot, others) = rest[i]
  PROVE  ElectFrom(self2, boot, rest).node = ElectFrom(self, boot, others).node
<1>1. PICK a : a = ElectFrom(self, boot, others)
  OBVIOUS
<1>2. PICK b : b = ElectFrom(self2, boot, rest)
  OBVIOUS
<1>3. PICK x : Wins(a, x, self, boot, others, Len(others))
  BY <1>1, ElectsEldest
<1>4. PICK y : Wins(b, y, self2, boot, rest, Len(rest))
  BY <1>2, ElectsEldest
<1>5. a = self \/ \E i \in 1 .. Len(rest) : a = rest[i]
  BY <1>1
<1>6. /\ \A i \in 1 .. Len(others) : others[i].boot \in Nat
      /\ \A i \in 1 .. Len(rest) : rest[i].boot \in Nat
  BY Boots
<1>7. CASE a = self /\ x = boot /\ \A i \in 1 .. Len(others) : boot <= others[i].boot
  <2>1. ASSUME NEW j \in 1 .. Len(rest), rest[j].boot <= boot PROVE FALSE
    <3>1. PICK k \in 1 .. Len(others) : rest[j] = others[k]
      OBVIOUS
    <3> QED BY <1>6, <1>7, <2>1, <3>1
  <2>2. b = self2
    BY <1>4, <2>1 DEF Wins
  <2> QED BY <1>1, <1>2, <1>7, <2>2
<1>8. ASSUME NEW j \in 1 .. Len(others),
             a = others[j], x = others[j].boot, x <= boot,
             \A i \in 1 .. Len(others) : x <= others[i].boot
      PROVE  b.node = a.node
  <2>1. x \in Nat /\ x < boot
    BY <1>6, <1>8
  <2>2. a # self
    BY <1>8
  <2>3. PICK i \in 1 .. Len(rest) : a = rest[i]
    BY <1>5, <2>2
  <2>4. ~(boot <= rest[i].boot)
    BY <1>6, <1>8, <2>1, <2>3
  <2>5. PICK k \in 1 .. Len(rest) :
          b = rest[k] /\ y = rest[k].boot /\ y <= rest[i].boot
    BY <1>4, <2>4 DEF Wins
  <2>6. PICK l \in 1 .. Len(others) : rest[k] = others[l]
    OBVIOUS
  <2>7. x <= others[l].boot /\ others[l].boot <= x
    BY <1>8, <2>3, <2>5, <2>6
  <2>8. others[l].boot = others[j].boot
    BY <1>6, <1>8, <2>7
  <2> QED BY <1>8, <2>5, <2>6, <2>8
<1> QED BY <1>1, <1>2, <1>3, <1>7, <1>8 DEF Wins

-----------------------------------------------------------------------------
(* The inductive invariant.  TypeOK needs no more than that a datagram is  *)
-----------------------------------------------------------------------------
(* The inductive invariant.  TypeOK needs that a datagram is never on its  *)
(* way to its sender: else a node came into its own list; and that no      *)
(* worker of a node outlives the others, so that whoever elects finds one. *)
(* That a timer belongs to one worker 0 needs pids that are not used twice.*)
Datagrams == [to : Nodes, kind : {"ON", "HEARTBEAT", "OFF"}, node : Nodes,
              pid : Nat, boot : Nat]
ListOK(n, s) ==
  /\ s \in Seq(Members)
  /\ \A i \in 1 .. Len(s) : s[i].node # n
  /\ \A i, j \in 1 .. Len(s) : Same(s[i], s[j]) => i = j

GensOK ==
  /\ gens \in [Nodes -> Seq(Gen)] /\ leaving \in [Nodes -> SUBSET Gen]
  /\ cache \in [Nodes -> SUBSET Nat] /\ nextPid \in Nat
  /\ \A n \in Nodes : Len(gens[n]) <= 2
TimersOK ==
  /\ cleaning \subseteq [node : Nodes, pid : Nat]
  /\ waiting \subseteq [node : Nodes, pid : Nat, left : 0 .. MaxSend]
ListsOK == list \in [Nodes -> Seq(Members)] /\ \A n \in Nodes : ListOK(n, list[n])
RecordOK ==
  /\ last \in [Nodes -> Nodes] /\ behind \subseteq Nodes /\ outdated \subseteq Nodes
  /\ reloads \in 0 .. MaxReload
  /\ trouble \in 0 .. MaxTrouble /\ fails \in 0 .. MaxTrouble
NetOK == net \subseteq Datagrams /\ \A msg \in net : msg.to # msg.node
Inv == GensOK /\ TimersOK /\ ListsOK /\ RecordOK /\ NetOK

PidsOf(s, old, pid) ==
  /\ \A i \in 1 .. Len(s) : s[i].pid < pid
  /\ \A i, j \in 1 .. Len(s) : s[i].pid = s[j].pid => i = j
  /\ \A g \in old : g.pid < pid /\ \A i \in 1 .. Len(s) : s[i].pid # g.pid
  /\ s = <<>> => old = {}
PidsApart == \A n \in Nodes : PidsOf(gens[n], leaving[n], nextPid)

LEMMA InvTypeOK == Inv => TypeOK
<1> SUFFICES ASSUME Inv PROVE TypeOK
  OBVIOUS
<1>1. ASSUME NEW n \in Nodes
      PROVE  /\ Len(gens[n]) <= 2 /\ list[n] \in Seq(Members)
             /\ \A e \in Range(list[n]) : e.node # n
             /\ \A i, j \in DOMAIN list[n] : Same(list[n][i], list[n][j]) => i = j
  <2>1. ListOK(n, list[n]) /\ Len(gens[n]) <= 2
    BY DEF Inv, ListsOK, GensOK
  <2>2. DOMAIN list[n] = 1 .. Len(list[n]) /\ list[n] \in Seq(Members)
    BY <2>1 DEF ListOK
  <2> HIDE DEF Inv
  <2>3. \A e \in Range(list[n]) : e.node # n
    BY <2>1, <2>2 DEF ListOK, Range
  <2> QED BY <2>1, <2>2, <2>3 DEF ListOK
<1> QED BY <1>1 DEF Inv, GensOK, TimersOK, ListsOK, RecordOK, NetOK, TypeOK, Datagrams

LEMMA MemberType ==
  ASSUME NEW n \in Nodes, NEW g \in Gen
  PROVE  Member(n, g) \in Members /\ Member(n, g).node = n /\ Member(n, g).boot = g.boot
BY DEF Member, Members, Gen

LEMMA GenType ==
  ASSUME GensOK, NEW n \in Nodes
  PROVE  /\ \A i \in DOMAIN gens[n] : gens[n][i] \in Gen
         /\ gens[n] # <<>> => Current(n) \in Gen /\ Len(gens[n]) \in DOMAIN gens[n]
                              /\ Head(gens[n]) \in Gen
         /\ \A g \in leaving[n] : g \in Gen
         /\ \A g \in Gen : g.pid \in Nat /\ g.boot \in Nat
         /\ BootRead(n) \subseteq Nat
<1>1. gens[n] \in Seq(Gen) /\ leaving[n] \subseteq Gen
  BY DEF GensOK
<1>2. \A i \in DOMAIN gens[n] : gens[n][i] \in Gen
  BY <1>1
<1>3. \A g \in Gen : g.pid \in Nat /\ g.boot \in Nat
  BY DEF Gen
<1>4. gens[n] # <<>> => Len(gens[n]) \in DOMAIN gens[n] /\ Head(gens[n]) \in Gen
  BY <1>1
<1> QED BY <1>1, <1>2, <1>3, <1>4 DEF Current, BootRead

LEMMA MulticastType ==
  ASSUME NEW n \in Nodes, NEW g \in Gen, NEW kind \in {"ON", "HEARTBEAT", "OFF"}
  PROVE  \A msg \in Multicast(kind, n, g) : msg \in Datagrams /\ msg.to # msg.node
BY DEF Multicast, Datagrams, Alive, Gen

(* A list after a datagram or heartbeat of e.                              *)
Updated(s, e) ==
  IF \E i \in DOMAIN s : Same(s[i], e)
  THEN [i \in DOMAIN s |-> IF Same(s[i], e) THEN e ELSE s[i]]
  ELSE Append(s, e)

LEMMA UpdatedOK ==
  ASSUME NEW n, NEW s, ListOK(n, s), NEW e \in Members, e.node # n
  PROVE  /\ ListOK(n, Updated(s, e))
         /\ \A i \in 1 .. Len(Updated(s, e)) :
              Updated(s, e)[i] = e \/ \E j \in 1 .. Len(s) : Updated(s, e)[i] = s[j]
<1>1. PICK len \in Nat : len = Len(s) /\ s \in Seq(Members) /\ DOMAIN s = 1 .. len
  BY DEF ListOK
<1>2. /\ \A i \in 1 .. len : s[i].node # n /\ s[i] \in Members
      /\ \A i, j \in 1 .. len : Same(s[i], s[j]) => i = j
  BY <1>1 DEF ListOK
<1>3. CASE \E i \in DOMAIN s : Same(s[i], e)
  <2>1. PICK u : u = [i \in 1 .. len |-> IF Same(s[i], e) THEN e ELSE s[i]]
    OBVIOUS
  <2>2. Updated(s, e) = u
    BY <1>1, <1>3, <2>1 DEF Updated
  <2>3. u \in Seq(Members) /\ Len(u) = len
    BY <1>1, <1>2, <2>1
  <2>4. \A i \in 1 .. len : \/ u[i] = e /\ Same(s[i], e)
                            \/ u[i] = s[i] /\ ~Same(s[i], e)
    BY <2>1
  <2>5. ASSUME NEW i \in 1 .. len, NEW j \in 1 .. len, Same(u[i], u[j]) PROVE i = j
    <3>1. Same(s[i], s[j])
      BY <2>4, <2>5 DEF Same
    <3> QED BY <1>2, <3>1
  <2>6. \A i \in 1 .. len : u[i].node # n
    BY <1>2, <2>4
  <2> QED BY <1>1, <2>2, <2>3, <2>4, <2>5, <2>6 DEF ListOK
<1>4. CASE ~\E i \in DOMAIN s : Same(s[i], e)
  <2>1. PICK u : u = Append(s, e)
    OBVIOUS
  <2>2. Updated(s, e) = u
    BY <1>4, <2>1 DEF Updated
  <2>3. u \in Seq(Members) /\ Len(u) = len + 1 /\ u[len + 1] = e
        /\ \A i \in 1 .. len : u[i] = s[i]
    BY <1>1, <2>1
  <2>4. \A i \in 1 .. len + 1 : i \in 1 .. len \/ i = len + 1
    BY <1>1
  <2>5. \A i \in 1 .. len : ~Same(s[i], e) /\ ~Same(e, s[i])
    BY <1>1, <1>4 DEF Same
  <2>6. \A i, j \in 1 .. len + 1 : Same(u[i], u[j]) => i = j
    BY <1>2, <2>3, <2>4, <2>5
  <2>7. \A i \in 1 .. len + 1 : u[i].node # n
    BY <1>2, <2>3, <2>4
  <2>8. \A i \in 1 .. len + 1 : u[i] = e \/ \E j \in 1 .. len : u[i] = s[j]
    BY <2>3, <2>4
  <2> QED BY <1>1, <2>2, <2>3, <2>6, <2>7, <2>8 DEF ListOK
<1> QED BY <1>3, <1>4

LEMMA WithoutOK ==
  ASSUME NEW n, NEW s, ListOK(n, s), NEW out
  PROVE  /\ ListOK(n, Without(s, out))
         /\ \A i \in 1 .. Len(Without(s, out)) :
              \E j \in 1 .. Len(s) : Without(s, out)[i] = s[j]
         /\ \A j \in 1 .. Len(s) : s[j] \notin out =>
              \E i \in 1 .. Len(Without(s, out)) : Without(s, out)[i] = s[j]
<1>1. PICK len \in Nat : len = Len(s) /\ s \in Seq(Members)
  BY DEF ListOK
<1>2. /\ \A i \in 1 .. len : s[i].node # n
      /\ \A i, j \in 1 .. len : Same(s[i], s[j]) => i = j
  BY <1>1 DEF ListOK
<1>3. PICK t : t = Without(s, out)
  OBVIOUS
<1>4. t \in Seq(Members) /\ PartOf(t, s, out, len)
  BY <1>1, <1>3, WithoutPart
<1>5. PICK p : Placed(t, s, Len(t), len, p)
  BY <1>4 DEF PartOf
<1>6. PICK m \in Nat : m = Len(t)
  BY <1>4
<1>7. \A i \in 1 .. m : p[i] \in 1 .. len /\ t[i] = s[p[i]]
  BY <1>5, <1>6 DEF Placed
<1>8. ASSUME NEW i \in 1 .. m, NEW j \in 1 .. m, Same(t[i], t[j]) PROVE i = j
  <2>1. p[i] = p[j]
    BY <1>2, <1>7, <1>8
  <2>2. ~(i < j) /\ ~(j < i)
    BY <1>1, <1>5, <1>6, <1>7, <2>1 DEF Placed
  <2> QED BY <2>2
<1>9. \A i \in 1 .. m : t[i].node # n
  BY <1>2, <1>7
<1>10. \A j \in 1 .. len : s[j] \notin out => \E i \in 1 .. m : t[i] = s[j]
  BY <1>4, <1>6 DEF PartOf, Kept
<1> QED BY <1>1, <1>3, <1>4, <1>6, <1>7, <1>8, <1>9, <1>10 DEF ListOK

(* What the parts of the actions do.                                       *)
LEMMA ElectNode ==
  ASSUME GensOK, NEW n \in Nodes, gens[n] # <<>>, NEW boot \in Nat,
         NEW s \in Seq(Members)
  PROVE  Elect(n, boot, s) \in Members /\ Elect(n, boot, s).node \in Nodes
<1>1. Member(n, Current(n)) \in Members
  BY GenType, MemberType
<1>2. Elect(n, boot, s) \in Members
  BY <1>1, ElectType DEF Elect
<1> QED BY <1>2 DEF Members

Records ==
  /\ last' \in [Nodes -> Nodes] /\ behind' \subseteq Nodes /\ outdated' \subseteq Nodes
  /\ fails' \in 0 .. MaxTrouble

LEMMA QuietRecords ==
  ASSUME RecordOK, Quiet, NEW n \in Nodes, NEW boots, With(n, boots)
  PROVE  Records
BY DEF RecordOK, Quiet, With, Records

LEMMA Counted ==
  ASSUME RecordOK, Bad
  PROVE  trouble + 1 \in 0 .. MaxTrouble /\ fails + 1 \in 0 .. MaxTrouble
BY GossipConstants DEF RecordOK, Bad, GossipConstants

LEMMA PublishRecords ==
  ASSUME RecordOK, NEW n \in Nodes, NEW master, master.node \in Nodes, Publish(n, master),
         NEW boots, With(n, boots)
  PROVE  Records
<1>1. last' \in [Nodes -> Nodes]
  BY DEF RecordOK, Publish
<1>2. behind' \subseteq Nodes /\ outdated' \subseteq Nodes
  BY DEF RecordOK, Publish, With
<1>3. fails' \in 0 .. MaxTrouble
  <2>1. fails' = fails \/ (Bad /\ fails' = fails + 1)
    BY DEF Publish
  <2> QED BY <2>1, Counted DEF RecordOK
<1> QED BY <1>1, <1>2, <1>3 DEF Records

LEMMA ListChanged ==
  ASSUME ListsOK, NEW n \in Nodes, NEW s, ListOK(n, s), list' = [list EXCEPT ![n] = s]
  PROVE  ListsOK'
<1>1. list' \in [Nodes -> Seq(Members)]
  BY DEF ListsOK, ListOK
<1>2. ASSUME NEW m \in Nodes PROVE ListOK(m, list'[m])
  <2>1. (list'[m] = s /\ m = n) \/ list'[m] = list[m]
    BY DEF ListsOK
  <2> QED BY <2>1 DEF ListsOK
<1> QED BY <1>1, <1>2 DEF ListsOK

LEMMA SeenStep ==
  ASSUME Inv, NEW n \in Nodes, NEW e \in Members, e.node # n, Seen(n, e)
  PROVE  /\ ListsOK' /\ Records
         /\ list' = [list EXCEPT ![n] = Updated(list[n], e)]
<1>1. list' = [list EXCEPT ![n] = Updated(list[n], e)]
  BY DEF Seen, Updated
<1>2. ListOK(n, list[n]) /\ ListsOK
  BY DEF Inv, ListsOK
<1>3. ListsOK'
  BY <1>1, <1>2, UpdatedOK, ListChanged
<1>4. list'[n] \in Seq(Members)
  BY <1>3 DEF ListsOK
<1>5. PICK boot \in BootRead(n) :
        /\ With(n, {boot})
        /\ \/ Publish(n, Elect(n, boot, list'[n]))
           \/ Quiet
  BY DEF Seen
<1>6. boot \in Nat /\ gens[n] # <<>>
  BY <1>5, GenType DEF BootRead, Inv
<1>7. Elect(n, boot, list'[n]).node \in Nodes
  BY <1>4, <1>6, ElectNode DEF Inv
<1>8. Records
  BY <1>5, <1>7, QuietRecords, PublishRecords DEF Inv
<1> QED BY <1>1, <1>3, <1>8

LEMMA DropStep ==
  ASSUME Inv, NEW n \in Nodes, gens[n] # <<>>, NEW g \in Gen, NEW out, NEW boot,
         Drop(n, g, out, boot)
  PROVE  /\ ListsOK' /\ Records
         /\ list' = [list EXCEPT ![n] = Without(list[n], out)]
<1>1. list' = [list EXCEPT ![n] = Without(list[n], out)] /\ With(n, {boot, g.boot})
  BY DEF Drop
<1>2. ListOK(n, list[n]) /\ ListsOK
  BY DEF Inv, ListsOK
<1>3. ListsOK'
  BY <1>1, <1>2, WithoutOK, ListChanged
<1>4. list'[n] \in Seq(Members) /\ g.boot \in Nat
  BY <1>3 DEF ListsOK, Gen
<1>5. Publish(n, Elect(n, g.boot, list'[n])) \/ Quiet
  BY DEF Drop
<1>6. Elect(n, g.boot, list'[n]).node \in Nodes
  BY <1>4, ElectNode DEF Inv
<1>7. Records
  BY <1>1, <1>5, <1>6, QuietRecords, PublishRecords DEF Inv
<1> QED BY <1>1, <1>3, <1>7

-----------------------------------------------------------------------------
(* One lemma per action.                                                   *)
LEMMA DeliverInv ==
  ASSUME Inv, NEW msg \in net, Deliver(msg)
  PROVE  Inv'
<1> DEFINE n == msg.to
           sender == [node |-> msg.node, pid |-> msg.pid, boot |-> msg.boot]
           pids == {g.pid : g \in Range(gens[n])} \union cache[n]
<1>1. n \in Nodes /\ msg.node # n /\ sender \in Members /\ sender.node # n
  BY DEF Inv, NetOK, Datagrams, Members
<1>2. UNCHANGED <<workers, timers, reloads, trouble>>
  BY DEF Deliver
<1> HIDE DEF sender
<1>3. PICK i \in DOMAIN gens[n] :
       \/ /\ \E pid \in pids :
               net' = (net \ {msg})
                        \union Multicast("HEARTBEAT", n, [gens[n][i] EXCEPT !.pid = pid])
          /\ Seen(n, sender)
       \/ net' = net \ {msg} /\ Seen(n, sender)
       \/ /\ net' = net \ {msg}
          /\ \E boot \in BootRead(n) :
               Drop(n, gens[n][i], {e \in Range(list[n]) : Same(e, msg)}, boot)
  BY DEF Deliver, sender
<1>4. gens[n][i] \in Gen /\ gens[n] # <<>> /\ pids \subseteq Nat
  <2>1. \A g \in Range(gens[n]) : g.pid \in Nat
    BY <1>1, GenType DEF Inv, Range
  <2> QED BY <1>1, <1>3, <2>1, GenType DEF Inv, GensOK
<1> HIDE DEF pids
<1>5. GensOK' /\ TimersOK'
  BY <1>2 DEF Inv, GensOK, TimersOK, workers, timers
<1>6. ListsOK' /\ Records
  BY <1>1, <1>3, <1>4, SeenStep, DropStep
<1>7. RecordOK'
  BY <1>2, <1>6 DEF Inv, RecordOK, Records
<1>8. NetOK'
  <2>1. CASE net' = net \ {msg}
    BY <2>1 DEF Inv, NetOK
  <2>2. ASSUME NEW pid \in pids,
               net' = (net \ {msg})
                        \union Multicast("HEARTBEAT", n, [gens[n][i] EXCEPT !.pid = pid])
        PROVE  NetOK'
    <3>1. [gens[n][i] EXCEPT !.pid = pid] \in Gen
      BY <1>4 DEF Gen
    <3> QED BY <1>1, <2>2, <3>1, MulticastType DEF Inv, NetOK
  <2> QED BY <1>3, <2>1, <2>2
<1> QED BY <1>5, <1>6, <1>7, <1>8 DEF Inv

LEMMA LoseInv ==
  ASSUME Inv, NEW msg \in net, Lose(msg)
  PROVE  Inv'
<1>1. trouble' \in 0 .. MaxTrouble
  BY Counted DEF Inv, Lose, Trouble
<1> QED BY <1>1 DEF Inv, Lose, GensOK, TimersOK, ListsOK, RecordOK, NetOK, workers, timers

(* A step that changes no more than the list and the record.               *)
LEMMA RecordStep ==
  ASSUME Inv, ListsOK', Records, UNCHANGED <<workers, net, reloads>>,
         trouble' \in 0 .. MaxTrouble, TimersOK'
  PROVE  Inv'
BY DEF Inv, GensOK, ListsOK, RecordOK, NetOK, Records, workers

LEMMA SameTimers ==
  ASSUME Inv, UNCHANGED timers
  PROVE  TimersOK'
BY DEF Inv, TimersOK, timers

LEMMA HearInv ==
  ASSUME Inv, NEW n \in Nodes, NEW m \in Nodes, NEW g \in Gen, Hear(n, m, g)
  PROVE  Inv'
<1>1. /\ Seen(n, Member(m, g)) /\ n # m
      /\ UNCHANGED <<workers, timers, net, reloads, trouble>>
  BY DEF Hear
<1>2. ListsOK' /\ Records
  BY <1>1, MemberType, SeenStep
<1>3. trouble' \in 0 .. MaxTrouble
  BY <1>1 DEF Inv, RecordOK
<1> QED BY <1>1, <1>2, <1>3, RecordStep, SameTimers

LEMMA CleanOutInv ==
  ASSUME Inv, NEW n \in Nodes, NEW out, CleanOut(n, out), trouble' \in 0 .. MaxTrouble
  PROVE  Inv'
<1>1. PICK i \in DOMAIN gens[n] : Drop(n, gens[n][i], out, gens[n][i].boot)
  BY DEF CleanOut
<1>2. gens[n] # <<>> /\ gens[n][i] \in Gen
  BY <1>1, GenType DEF Inv
<1>3. ListsOK' /\ Records
  BY <1>1, <1>2, DropStep
<1>4. UNCHANGED <<workers, timers, net, reloads>>
  BY DEF CleanOut
<1> QED BY <1>3, <1>4, RecordStep, SameTimers

LEMMA LastCleanInv ==
  ASSUME Inv, PidsApart, NEW n \in Nodes, LastClean(n)
  PROVE  Inv'
<1>1. PICK g \in leaving[n] : \E out :
        /\ cleaning' \subseteq cleaning /\ Drop(n, g, out, g.boot)
        /\ UNCHANGED <<workers, waiting, net, reloads>>
        /\ trouble' = trouble \/ Trouble
  BY DEF LastClean
<1>2. gens[n] # <<>> /\ g \in Gen
  BY GenType DEF Inv, PidsApart, PidsOf
<1>3. ListsOK' /\ Records
  BY <1>1, <1>2, DropStep
<1>4. trouble' \in 0 .. MaxTrouble
  BY <1>1, Counted DEF Inv, RecordOK, Trouble
<1>5. TimersOK'
  BY <1>1 DEF Inv, TimersOK
<1> QED BY <1>1, <1>3, <1>4, <1>5, RecordStep

(* Whose worker 0 waits for a master, is up.                               *)
LEMMA Waiter ==
  ASSUME Inv, PidsApart, NEW n \in Nodes, NEW g \in Range(gens[n]) \union leaving[n]
  PROVE  gens[n] # <<>> /\ g \in Gen
<1>1. CASE g \in leaving[n]
  BY <1>1, GenType DEF Inv, PidsApart, PidsOf
<1>2. CASE g \in Range(gens[n])
  <2>1. PICK i \in DOMAIN gens[n] : g = gens[n][i]
    BY <1>2 DEF Range
  <2> QED BY <2>1, GenType DEF Inv
<1> QED BY <1>1, <1>2

LEMMA WaitMasterInv ==
  ASSUME Inv, PidsApart, NEW n \in Nodes, WaitMaster(n)
  PROVE  Inv'
<1>1. PICK g \in Range(gens[n]) \union leaving[n], t \in waiting :
        /\ UNCHANGED <<workers, cleaning, list, net, reloads, trouble>>
        /\ With(n, {g.boot}) /\ Publish(n, Elect(n, g.boot, list[n]))
        /\ waiting' = (waiting \ {t}) \union
             IF n \in behind' /\ t.left > 0 THEN {[t EXCEPT !.left = @ - 1]} ELSE {}
  BY DEF WaitMaster
<1>2. gens[n] # <<>> /\ g.boot \in Nat /\ list[n] \in Seq(Members)
  BY Waiter DEF Inv, ListsOK, Gen
<1>3. Elect(n, g.boot, list[n]).node \in Nodes
  BY <1>2, ElectNode DEF Inv
<1>4. Records
  BY <1>1, <1>3, PublishRecords DEF Inv
<1>5. TimersOK'
  <2>1. t.left > 0 => [t EXCEPT !.left = @ - 1] \in [node : Nodes, pid : Nat, left : 0 .. MaxSend]
    BY GossipConstants DEF Inv, TimersOK, GossipConstants
  <2> QED BY <1>1, <2>1 DEF Inv, TimersOK
<1>6. ListsOK' /\ trouble' \in 0 .. MaxTrouble
  BY <1>1 DEF Inv, ListsOK, RecordOK
<1> QED BY <1>1, <1>4, <1>5, <1>6, RecordStep

LEMMA Appended ==
  ASSUME NEW s \in Seq(Gen), NEW g \in Gen
  PROVE  /\ Append(s, g) \in Seq(Gen) /\ Append(s, g) # <<>>
         /\ Len(Append(s, g)) = Len(s) + 1 /\ Append(s, g)[Len(s) + 1] = g
         /\ \A i \in 1 .. Len(s) : Append(s, g)[i] = s[i]
<1>1. Append(s, g) \in Seq(Gen) /\ Append(s, g) # <<>>
  BY AppendProperties, Zenon
<1>2. Len(Append(s, g)) = Len(s) + 1 /\ Append(s, g)[Len(s) + 1] = g
  BY AppendProperties, Zenon
<1>3. \A i \in 1 .. Len(s) : Append(s, g)[i] = s[i]
  OBVIOUS
<1> QED BY <1>1, <1>2, <1>3

LEMMA Pair ==
  ASSUME NEW s \in Seq(Gen), Len(s) = 2
  PROVE  /\ Tail(s) \in Seq(Gen) /\ Len(Tail(s)) = 1 /\ Tail(s) # <<>>
         /\ Tail(s)[1] = s[2] /\ Head(s) = s[1] /\ Head(s) \in Gen
<1>1. Tail(s) \in Seq(Gen) /\ Len(Tail(s)) = 1 /\ Tail(s)[1] = s[2]
  OBVIOUS
<1>2. Tail(s) = <<>> => Len(Tail(s)) = 0
  BY <1>1, EmptySeq, Zenon
<1>3. Head(s) = s[1] /\ s[1] \in Gen
  OBVIOUS
<1> QED BY <1>1, <1>2, <1>3

(* The last generation of a node gets another worker 0.                    *)
LEMMA Replaced ==
  ASSUME NEW s \in Seq(Gen), s # <<>>, NEW g \in Gen
  PROVE  /\ Append(Front(s), g) \in Seq(Gen) /\ Append(Front(s), g) # <<>>
         /\ Len(Append(Front(s), g)) = Len(s)
         /\ Append(Front(s), g)[Len(s)] = g
         /\ \A i \in 1 .. Len(s) - 1 : Append(Front(s), g)[i] = s[i]
<1>1. PICK f : f = Front(s)
  OBVIOUS
<1>2. Len(s) \in Nat \ {0}
  BY EmptySeq
<1>3. PICK m \in Nat : m = Len(s) - 1 /\ \A i \in 1 .. m : s[i] \in Gen
  BY <1>2
<1>4. f = SubSeq(s, 1, m)
  BY <1>1, <1>3 DEF Front
<1>5. /\ f \in Seq(Gen) /\ Len(f) = IF 1 <= m THEN m - 1 + 1 ELSE 0
      /\ \A i \in 1 .. m - 1 + 1 : f[i] = s[1 + i - 1]
  BY <1>3, <1>4, SubSeqProperties
<1>6. Len(f) = m /\ \A i \in 1 .. m : f[i] = s[i]
  BY <1>2, <1>3, <1>5
<1>7. PICK t : t = Append(f, g)
  OBVIOUS
<1>8. /\ t \in Seq(Gen) /\ t # <<>> /\ Len(t) = Len(s) /\ t[Len(s)] = g
      /\ \A i \in 1 .. Len(s) - 1 : t[i] = s[i]
  BY <1>2, <1>3, <1>7, <1>5, <1>6, Appended
<1> QED BY <1>1, <1>7, <1>8

LEMMA NewType ==
  ASSUME GensOK, NEW n \in Nodes, NEW boot \in BootTimes[n]
  PROVE  /\ New(boot) \in Gen /\ New(boot).pid = nextPid /\ nextPid + 1 \in Nat
         /\ Alarm(n, New(boot)) \in [node : Nodes, pid : Nat, left : 0 .. MaxSend]
BY GossipConstants DEF GossipConstants, GensOK, New, Gen, Alarm

LEMMA StartInv ==
  ASSUME Inv, NEW n \in Nodes, Start(n)
  PROVE  Inv'
<1>1. PICK boot \in BootTimes[n] :
        /\ gens' = [gens EXCEPT ![n] = <<New(boot)>>]
        /\ waiting' = waiting \union {Alarm(n, New(boot))}
        /\ net' = net \union Multicast("ON", n, New(boot))
  BY DEF Start
<1>2. /\ New(boot) \in Gen /\ nextPid' \in Nat
      /\ Alarm(n, New(boot)) \in [node : Nodes, pid : Nat, left : 0 .. MaxSend]
  BY NewType DEF Inv, Start, NextPid
<1>3. GensOK'
  <2>1. leaving' = leaving /\ cache' = [cache EXCEPT ![n] = {}]
    BY DEF Start
  <2>2. Len(<<New(boot)>>) = 1 /\ <<New(boot)>> \in Seq(Gen)
    BY <1>2
  <2> QED BY <1>1, <1>2, <2>1, <2>2 DEF Inv, GensOK
<1>4. TimersOK'
  BY <1>1, <1>2 DEF Inv, TimersOK, Start
<1>5. ListOK(n, <<>>)
  BY DEF ListOK
<1>6. ListsOK'
  BY <1>5, ListChanged DEF Inv, Start
<1>7. RecordOK'
  BY DEF Inv, RecordOK, Start
<1>8. NetOK'
  BY <1>1, <1>2, MulticastType DEF Inv, NetOK
<1> QED BY <1>3, <1>4, <1>6, <1>7, <1>8 DEF Inv

LEMMA ReloadInv ==
  ASSUME Inv, NEW n \in Nodes, Reload(n)
  PROVE  Inv'
<1>1. PICK boot \in BootTimes[n] :
        /\ gens' = [gens EXCEPT ![n] = Append(gens[n], New(boot))]
        /\ waiting' = waiting \union {Alarm(n, New(boot))}
        /\ net' = net \union Multicast("ON", n, New(boot))
  BY DEF Reload
<1>2. /\ New(boot) \in Gen /\ nextPid' \in Nat
      /\ Alarm(n, New(boot)) \in [node : Nodes, pid : Nat, left : 0 .. MaxSend]
  BY NewType DEF Inv, Reload, NextPid
<1>3. gens[n] \in Seq(Gen) /\ Len(gens[n]) = 1 /\ Current(n).pid \in Nat
  <2>1. gens[n] \in Seq(Gen) /\ Len(gens[n]) = 1
    BY DEF Inv, GensOK, Reload
  <2> QED BY <2>1, GenType DEF Inv
<1>4. GensOK'
  <2>1. leaving' = leaving /\ cache' = [cache EXCEPT ![n] = {Current(n).pid}]
    BY DEF Reload
  <2>2. PICK new \in Gen : new = New(boot)
    BY <1>2
  <2>3. Append(gens[n], new) \in Seq(Gen) /\ Len(Append(gens[n], new)) = Len(gens[n]) + 1
    BY <1>3, Appended, Zenon
  <2> QED BY <1>1, <1>2, <1>3, <2>1, <2>2, <2>3 DEF Inv, GensOK
<1>5. TimersOK'
  BY <1>1, <1>2 DEF Inv, TimersOK, Reload
<1>6. reloads' \in 0 .. MaxReload
  BY GossipConstants DEF GossipConstants, Inv, RecordOK, Reload
<1>7. ListsOK' /\ RecordOK'
  BY <1>6 DEF Inv, ListsOK, RecordOK, Reload
<1>8. NetOK'
  BY <1>1, <1>2, MulticastType DEF Inv, NetOK
<1> QED BY <1>4, <1>5, <1>7, <1>8 DEF Inv

LEMMA DrainInv ==
  ASSUME Inv, NEW n \in Nodes, Drain(n)
  PROVE  Inv'
<1>1. gens[n] \in Seq(Gen) /\ Len(gens[n]) = 2
  BY DEF Inv, GensOK, Drain
<1>2. Tail(gens[n]) \in Seq(Gen) /\ Len(Tail(gens[n])) = 1 /\ Head(gens[n]) \in Gen
  BY <1>1, Pair
<1>3. GensOK'
  BY <1>2 DEF Inv, GensOK, Drain
<1>4. TimersOK'
  BY <1>2 DEF Inv, TimersOK, Drain, Timer, Gen
<1>5. ListsOK' /\ RecordOK'
  BY DEF Inv, ListsOK, RecordOK, Drain
<1>6. NetOK'
  BY <1>2, MulticastType DEF Inv, NetOK, Drain
<1> QED BY <1>3, <1>4, <1>5, <1>6 DEF Inv

LEMMA LeaveInv ==
  ASSUME Inv, NEW n \in Nodes, Leave(n)
  PROVE  Inv'
<1>1. PICK g \in leaving[n] :
        /\ leaving' = [leaving EXCEPT ![n] = @ \ {g}]
        /\ cleaning' = Off(cleaning, n, g) /\ waiting' = Off(waiting, n, g)
        /\ net' = net \union Multicast("OFF", n, g)
  BY DEF Leave
<1>2. g \in Gen
  BY GenType DEF Inv
<1>3. UNCHANGED <<gens, cache, nextPid, list, last, behind, reloads, trouble, fails,
                  outdated>>
  BY DEF Leave
<1>4. GensOK' /\ TimersOK'
  BY <1>1, <1>3 DEF Inv, GensOK, TimersOK, Off
<1>5. ListsOK' /\ RecordOK'
  BY <1>3 DEF Inv, ListsOK, RecordOK
<1>6. NetOK'
  BY <1>1, <1>2, MulticastType DEF Inv, NetOK
<1> QED BY <1>4, <1>5, <1>6 DEF Inv

LEMMA RespawnInv ==
  ASSUME Inv, NEW n \in Nodes, Respawn(n)
  PROVE  Inv'
<1> DEFINE new == [Current(n) EXCEPT !.pid = nextPid]
<1>1. gens[n] \in Seq(Gen) /\ gens[n] # <<>> /\ Len(gens[n]) <= 2
      /\ nextPid \in Nat /\ nextPid' = nextPid + 1
  BY DEF Inv, GensOK, Respawn, Alive, NextPid
<1>2. Current(n) \in Gen /\ Current(n).pid \in Nat
  BY <1>1, GenType DEF Inv
<1>3. new \in Gen
  BY <1>1, <1>2 DEF Gen
<1>4. /\ gens' = [gens EXCEPT ![n] = Append(Front(gens[n]), new)] /\ leaving' = leaving
      /\ cache' = [cache EXCEPT ![n] = @ \union {Current(n).pid}]
      /\ waiting' = Off(waiting, n, Current(n)) \union {Alarm(n, new)} /\ cleaning' = cleaning
      /\ net' = net \union Multicast("ON", n, new)
                    \union Multicast("HEARTBEAT", n, Current(n))
  BY DEF Respawn
<1> HIDE DEF new
<1>5. /\ Append(Front(gens[n]), new) \in Seq(Gen)
      /\ Len(Append(Front(gens[n]), new)) = Len(gens[n])
  BY <1>1, <1>3, Replaced
<1>6. GensOK'
  BY <1>1, <1>2, <1>4, <1>5 DEF Inv, GensOK
<1>7. TimersOK'
  <2>1. Alarm(n, new) \in [node : Nodes, pid : Nat, left : 0 .. MaxSend]
    BY <1>3, GossipConstants DEF GossipConstants, Alarm, Gen
  <2> QED BY <1>4, <2>1 DEF Inv, TimersOK, Off
<1>8. trouble' \in 0 .. MaxTrouble
  BY Counted DEF Inv, Respawn, Trouble
<1>9. ListsOK' /\ RecordOK'
  BY <1>8 DEF Inv, ListsOK, RecordOK, Respawn
<1>10. NetOK'
  BY <1>2, <1>3, <1>4, MulticastType DEF Inv, NetOK
<1> QED BY <1>6, <1>7, <1>9, <1>10 DEF Inv

LEMMA DownInv ==
  ASSUME Inv, NEW n \in Nodes, Down(n)
  PROVE  Inv'
<1>1. gens[n] # <<>> /\ Current(n) \in Gen
  BY GenType DEF Inv, Down, Alive
<1>2. GensOK'
  <2>1. <<>> \in Seq(Gen) /\ Len(<<>>) = 0
    OBVIOUS
  <2> QED BY <2>1 DEF Inv, GensOK, Down
<1>3. TimersOK'
  BY DEF Inv, TimersOK, Down
<1>4. ListOK(n, <<>>)
  BY DEF ListOK
<1>5. ListsOK'
  BY <1>4, ListChanged DEF Inv, Down
<1>6. trouble' \in 0 .. MaxTrouble
  BY Counted DEF Inv, Down, Trouble
<1>7. RecordOK'
  BY <1>6 DEF Inv, RecordOK, Down
<1>8. NetOK'
  BY <1>1, MulticastType DEF Inv, NetOK, Down
<1> QED BY <1>2, <1>3, <1>5, <1>7, <1>8 DEF Inv

LEMMA InitInv == Init => Inv /\ PidsApart
<1> SUFFICES ASSUME Init PROVE Inv /\ PidsApart
  OBVIOUS
<1>1. PICK c \in Clusters :
        /\ gens = [n \in Nodes |->
                    IF n \in c.up THEN <<[pid |-> n, boot |-> c.boot[n]]>> ELSE <<>>]
        /\ list = [n \in Nodes |->
                    IF n \in c.up
                    THEN [i \in DOMAIN c.list[n] |->
                           Member(c.list[n][i], Current(c.list[n][i]))]
                    ELSE <<>>]
        /\ reloads = c.reloads /\ trouble = c.trouble
  BY DEF Init
<1>2. /\ Nodes \subseteq Nat /\ \A n \in Nodes : n < N + 1 /\ n \in Nat
      /\ c.up \subseteq Nodes /\ \A n \in Nodes : c.boot[n] \in Nat
      /\ c.reloads \in 0 .. MaxReload /\ c.trouble \in 0 .. MaxTrouble
      /\ N + 1 \in Nat /\ 0 \in 0 .. MaxTrouble
  BY GossipConstants DEF Nodes, GossipConstants
<1>3. ASSUME NEW n \in c.up
      PROVE  \E g \in Gen : gens[n] = <<g>> /\ g.pid = n
  <2>1. n \in Nodes
    BY <1>2
  <2>2. [pid |-> n, boot |-> c.boot[n]] \in Gen
    BY <1>2, <2>1 DEF Gen
  <2>3. gens[n] = <<[pid |-> n, boot |-> c.boot[n]]>>
    BY <1>1, <2>1
  <2> QED BY <2>2, <2>3
<1>4. ASSUME NEW n \in Nodes \ c.up PROVE gens[n] = <<>> /\ list[n] = <<>>
  BY <1>1
<1>5. ASSUME NEW n \in Nodes
      PROVE  /\ gens[n] \in Seq(Gen) /\ Len(gens[n]) \in {0, 1}
             /\ gens[n] # <<>> <=> n \in c.up
             /\ \A i \in 1 .. Len(gens[n]) : i = 1 /\ gens[n][i].pid = n
  <2>1. CASE n \in c.up
    <3>1. PICK g \in Gen : gens[n] = <<g>> /\ g.pid = n
      BY <1>3, <2>1
    <3> QED BY <2>1, <3>1
  <2>2. CASE n \notin c.up
    <3>1. gens[n] = <<>>
      BY <1>4, <2>2
    <3> QED BY <2>2, <3>1
  <2> QED BY <2>1, <2>2
<1>6. gens \in [Nodes -> Seq(Gen)]
  <2>1. gens = [n \in Nodes |-> gens[n]]
    BY <1>1
  <2> QED BY <1>5, <2>1
<1>7. GensOK
  <2>1. \A n \in Nodes : Len(gens[n]) <= 2
    BY <1>5
  <2> QED BY <1>2, <1>6, <2>1 DEF Init, GensOK
<1>8. PidsApart
  <2>1. nextPid = N + 1 /\ \A n \in Nodes : leaving[n] = {}
    BY DEF Init
  <2> QED BY <1>2, <1>5, <2>1 DEF PidsApart, PidsOf
<1>9. ASSUME NEW n \in Nodes PROVE ListOK(n, list[n])
  <2>1. CASE n \in c.up
    <3>1. PICK s : s = c.list[n]
      OBVIOUS
    <3>2. s \in Seq(c.up \ {n}) /\ \A i, j \in DOMAIN s : s[i] = s[j] => i = j
      BY <2>1, <3>1, GossipConstants DEF IsInjective, GossipConstants
    <3>3. \A i \in DOMAIN s : s[i] \in c.up /\ s[i] \in Nodes /\ s[i] # n
      BY <1>2, <3>2
    <3>4. list[n] = [i \in DOMAIN s |-> Member(s[i], Current(s[i]))]
      BY <1>1, <2>1, <3>1
    <3>5. \A i \in DOMAIN s : /\ Member(s[i], Current(s[i])) \in Members
                              /\ Member(s[i], Current(s[i])).node = s[i]
      BY <1>5, <1>7, <3>3, GenType, MemberType
    <3>6. PICK len \in Nat : len = Len(s) /\ DOMAIN s = 1 .. len
      BY <3>2
    <3>7. list[n] \in Seq(Members) /\ Len(list[n]) = len
      BY <3>4, <3>5, <3>6
    <3>8. \A i \in 1 .. len : list[n][i].node = s[i]
      BY <3>4, <3>5, <3>6
    <3> QED BY <3>2, <3>3, <3>6, <3>7, <3>8 DEF ListOK, Same
  <2>2. CASE n \notin c.up
    <3>1. ListOK(n, <<>>)
      BY DEF ListOK
    <3> QED BY <1>4, <2>2, <3>1
  <2> QED BY <2>1, <2>2
<1>10. ListsOK
  <2>1. list = [n \in Nodes |-> list[n]]
    BY <1>1
  <2>2. \A n \in Nodes : list[n] \in Seq(Members)
    BY <1>9 DEF ListOK
  <2> QED BY <1>9, <2>1, <2>2 DEF ListsOK
<1>11. ASSUME NEW n \in Alive
       PROVE  n \in Nodes /\ Elect(n, Current(n).boot, list[n]).node \in Nodes
              /\ Current(n) \in Gen
  <2>1. n \in Nodes /\ gens[n] # <<>>
    BY DEF Alive
  <2>2. Current(n).boot \in Nat /\ Current(n) \in Gen
    BY <1>7, <2>1, GenType
  <2> QED BY <1>7, <1>9, <2>1, <2>2, ElectNode DEF ListOK
<1>12. RecordOK
  <2>1. last \in [Nodes -> Nodes]
    BY <1>11 DEF Init
  <2>2. behind \subseteq Nodes
    BY <1>11 DEF Init
  <2> QED BY <1>1, <1>2, <2>1, <2>2 DEF Init, RecordOK
<1>13. TimersOK
  <2>1. \A n \in behind : n \in Nodes /\ Current(n).pid \in Nat
    BY <1>11 DEF Init, Gen
  <2>2. \A n \in behind : Alarm(n, Current(n)) \in [node : Nodes, pid : Nat, left : 0 .. MaxSend]
    BY <2>1, GossipConstants DEF Alarm, GossipConstants
  <2> QED BY <2>2 DEF Init, TimersOK
<1>14. NetOK
  BY DEF Init, NetOK
<1> QED BY <1>7, <1>8, <1>10, <1>12, <1>13, <1>14 DEF Inv

(* A pid is given once, and a node without workers has none that drain.    *)
LEMMA PidsChanged ==
  ASSUME Inv, PidsApart, NEW n \in Nodes, NEW s, NEW old,
         gens' = [gens EXCEPT ![n] = s], leaving' = [leaving EXCEPT ![n] = old],
         nextPid' = nextPid \/ nextPid' = nextPid + 1, PidsOf(s, old, nextPid')
  PROVE  PidsApart'
<1>1. /\ gens \in [Nodes -> Seq(Gen)] /\ leaving \in [Nodes -> SUBSET Gen]
      /\ nextPid \in Nat
  BY DEF Inv, GensOK
<1>2. gens'[n] = s /\ leaving'[n] = old
  BY <1>1
<1>3. ASSUME NEW m \in Nodes \ {n} PROVE PidsOf(gens'[m], leaving'[m], nextPid')
  <2>1. gens'[m] = gens[m] /\ leaving'[m] = leaving[m]
    BY <1>1
  <2>2. \A g \in Gen : g.pid \in Nat
    BY DEF Gen
  <2>3. /\ \A i \in 1 .. Len(gens[m]) : gens[m][i].pid \in Nat
        /\ \A g \in leaving[m] : g.pid \in Nat
    <3>1. gens[m] \in Seq(Gen) /\ leaving[m] \subseteq Gen
      BY <1>1
    <3> QED BY <2>2, <3>1
  <2>4. \A p \in Nat : p < nextPid => p < nextPid'
    BY <1>1
  <2>5. PidsOf(gens[m], leaving[m], nextPid)
    BY DEF PidsApart
  <2> QED BY <2>1, <2>3, <2>4, <2>5 DEF PidsOf
<1> QED BY <1>2, <1>3 DEF PidsApart

LEMMA PidsApartStep ==
  ASSUME Inv, PidsApart, Next
  PROVE  PidsApart'
<1>1. CASE UNCHANGED workers
  BY <1>1 DEF PidsApart, workers
<1>2. /\ gens \in [Nodes -> Seq(Gen)] /\ leaving \in [Nodes -> SUBSET Gen]
      /\ nextPid \in Nat
  BY DEF Inv, GensOK
<1>3. ASSUME NEW n \in Nodes
      PROVE  /\ \A i \in 1 .. Len(gens[n]) : gens[n][i].pid \in Nat /\ gens[n][i].pid < nextPid
             /\ \A i, j \in 1 .. Len(gens[n]) : gens[n][i].pid = gens[n][j].pid => i = j
             /\ \A g \in leaving[n] : /\ g.pid \in Nat /\ g.pid < nextPid
                                      /\ \A i \in 1 .. Len(gens[n]) : gens[n][i].pid # g.pid
             /\ gens[n] = <<>> => leaving[n] = {}
  <2>1. \A g \in Gen : g.pid \in Nat
    BY DEF Gen
  <2>2. PidsOf(gens[n], leaving[n], nextPid)
    BY DEF PidsApart
  <2>3. gens[n] \in Seq(Gen) /\ leaving[n] \subseteq Gen
    BY <1>2
  <2>4. /\ \A i \in 1 .. Len(gens[n]) : gens[n][i].pid \in Nat
        /\ \A g \in leaving[n] : g.pid \in Nat
    BY <2>1, <2>3
  <2> QED BY <2>2, <2>4 DEF PidsOf
<1>4. ASSUME NEW n \in Nodes, Start(n) PROVE PidsApart'
  <2>1. PICK boot \in BootTimes[n] : gens' = [gens EXCEPT ![n] = <<New(boot)>>]
    BY <1>4 DEF Start
  <2>2. New(boot) \in Gen /\ New(boot).pid = nextPid
    BY <2>1, NewType DEF Inv
  <2>3. leaving[n] = {} /\ leaving' = leaving /\ nextPid' = nextPid + 1
    BY <1>3, <1>4 DEF Start, Alive, NextPid
  <2>4. PICK s : s = <<New(boot)>>
    OBVIOUS
  <2>5. Len(s) = 1 /\ s[1].pid = nextPid /\ s # <<>>
    BY <2>2, <2>4
  <2>6. PidsOf(s, leaving[n], nextPid')
    BY <1>2, <2>3, <2>5 DEF PidsOf
  <2>7. leaving' = [leaving EXCEPT ![n] = leaving[n]]
    BY <1>2, <2>3
  <2> QED BY <2>1, <2>3, <2>4, <2>6, <2>7, PidsChanged
<1>5. ASSUME NEW n \in Nodes, Reload(n) PROVE PidsApart'
  <2>1. PICK boot \in BootTimes[n] : gens' = [gens EXCEPT ![n] = Append(gens[n], New(boot))]
    BY <1>5 DEF Reload
  <2>2. PICK g \in Gen : g = New(boot) /\ g.pid = nextPid
    BY <2>1, NewType DEF Inv
  <2>3. leaving' = leaving /\ nextPid' = nextPid + 1 /\ gens[n] \in Seq(Gen)
    BY <1>2, <1>5 DEF Reload, NextPid
  <2>4. PICK s : s = Append(gens[n], g)
    OBVIOUS
  <2>5. /\ Len(s) = Len(gens[n]) + 1 /\ s[Len(gens[n]) + 1] = g /\ s # <<>>
        /\ \A i \in 1 .. Len(gens[n]) : s[i] = gens[n][i]
    BY <2>3, <2>4, Appended
  <2>6. \A i \in 1 .. Len(s) : i \in 1 .. Len(gens[n]) \/ i = Len(gens[n]) + 1
    BY <2>3, <2>5
  <2>7. PidsOf(s, leaving[n], nextPid')
    <3>1. \A i \in 1 .. Len(s) :
            \/ i \in 1 .. Len(gens[n]) /\ s[i] = gens[n][i] /\ s[i].pid < nextPid
            \/ i = Len(gens[n]) + 1 /\ s[i].pid = nextPid
      BY <1>3, <2>2, <2>5, <2>6
    <3>2. \A i \in 1 .. Len(s) : s[i].pid < nextPid'
      BY <1>2, <1>3, <2>3, <3>1
    <3>3. \A i, j \in 1 .. Len(s) : s[i].pid = s[j].pid => i = j
      BY <1>2, <1>3, <3>1
    <3>4. \A h \in leaving[n] : h.pid < nextPid' /\ \A i \in 1 .. Len(s) : s[i].pid # h.pid
      BY <1>2, <1>3, <2>3, <3>1
    <3> QED BY <2>5, <3>2, <3>3, <3>4 DEF PidsOf
  <2>8. leaving' = [leaving EXCEPT ![n] = leaving[n]]
    BY <1>2, <2>3
  <2> QED BY <2>1, <2>2, <2>3, <2>4, <2>7, <2>8, PidsChanged
<1>6. ASSUME NEW n \in Nodes, Drain(n) PROVE PidsApart'
  <2>1. gens[n] \in Seq(Gen) /\ Len(gens[n]) = 2
    BY <1>2, <1>6 DEF Drain
  <2>2. PICK s : s = Tail(gens[n])
    OBVIOUS
  <2>3. /\ Len(s) = 1 /\ s[1] = gens[n][2] /\ s # <<>>
        /\ Head(gens[n]) = gens[n][1]
    BY <2>1, <2>2, Pair
  <2>4. /\ gens' = [gens EXCEPT ![n] = s] /\ nextPid' = nextPid
        /\ leaving' = [leaving EXCEPT ![n] = leaving[n] \union {gens[n][1]}]
    BY <1>6, <2>2, <2>3 DEF Drain
  <2>5. 1 \in 1 .. Len(gens[n]) /\ 2 \in 1 .. Len(gens[n])
    BY <2>1
  <2>6. PidsOf(s, leaving[n] \union {gens[n][1]}, nextPid')
    BY <1>3, <2>3, <2>4, <2>5 DEF PidsOf
  <2> QED BY <2>4, <2>6, PidsChanged
<1>7. ASSUME NEW n \in Nodes, Leave(n) PROVE PidsApart'
  <2>1. PICK g \in leaving[n] : leaving' = [leaving EXCEPT ![n] = leaving[n] \ {g}]
    BY <1>7 DEF Leave
  <2>2. nextPid' = nextPid /\ gens' = [gens EXCEPT ![n] = gens[n]]
    BY <1>2, <1>7 DEF Leave
  <2>3. PidsOf(gens[n], leaving[n] \ {g}, nextPid')
    BY <1>3, <2>2 DEF PidsOf
  <2> QED BY <2>1, <2>2, <2>3, PidsChanged
<1>8. ASSUME NEW n \in Nodes, Respawn(n) PROVE PidsApart'
  <2> DEFINE new == [Current(n) EXCEPT !.pid = nextPid]
  <2>1. gens[n] \in Seq(Gen) /\ gens[n] # <<>>
    BY <1>2, <1>8 DEF Respawn, Alive
  <2>2. new \in Gen /\ new.pid = nextPid
    BY <1>2, <2>1, GenType DEF Inv, Gen
  <2>3. /\ gens' = [gens EXCEPT ![n] = Append(Front(gens[n]), new)]
        /\ leaving' = leaving /\ nextPid' = nextPid + 1
    BY <1>8 DEF Respawn, NextPid
  <2> HIDE DEF new
  <2>4. PICK s : s = Append(Front(gens[n]), new)
    OBVIOUS
  <2>5. /\ Len(s) = Len(gens[n]) /\ s[Len(gens[n])] = new /\ s # <<>>
        /\ \A i \in 1 .. Len(gens[n]) - 1 : s[i] = gens[n][i]
    BY <2>1, <2>2, <2>4, Replaced
  <2>6. \A i \in 1 .. Len(s) : i \in 1 .. Len(gens[n]) - 1 \/ i = Len(gens[n])
    BY <2>1, <2>5
  <2>7. \A i \in 1 .. Len(gens[n]) - 1 : i \in 1 .. Len(gens[n]) /\ i # Len(gens[n])
    BY <2>1
  <2>8. PidsOf(s, leaving[n], nextPid')
    <3>1. \A i \in 1 .. Len(s) :
            \/ /\ i \in 1 .. Len(gens[n]) /\ i # Len(gens[n])
               /\ s[i] = gens[n][i] /\ s[i].pid < nextPid
            \/ i = Len(gens[n]) /\ s[i].pid = nextPid
      BY <1>3, <2>2, <2>5, <2>6, <2>7
    <3>2. \A i \in 1 .. Len(s) : s[i].pid < nextPid'
      BY <1>2, <1>3, <2>3, <3>1
    <3>3. \A i, j \in 1 .. Len(s) : s[i].pid = s[j].pid => i = j
      BY <1>2, <1>3, <3>1
    <3>4. \A h \in leaving[n] : h.pid < nextPid' /\ \A i \in 1 .. Len(s) : s[i].pid # h.pid
      BY <1>2, <1>3, <2>3, <3>1
    <3> QED BY <2>5, <3>2, <3>3, <3>4 DEF PidsOf
  <2>9. leaving' = [leaving EXCEPT ![n] = leaving[n]]
    BY <1>2, <2>3
  <2> QED BY <2>3, <2>4, <2>8, <2>9, PidsChanged
<1>9. ASSUME NEW n \in Nodes, Down(n) PROVE PidsApart'
  <2>1. Len(<<>>) = 0
    OBVIOUS
  <2>2. PidsOf(<<>>, {}, nextPid)
    BY <2>1 DEF PidsOf
  <2>3. /\ gens' = [gens EXCEPT ![n] = <<>>] /\ leaving' = [leaving EXCEPT ![n] = {}]
        /\ nextPid' = nextPid
    BY <1>9 DEF Down
  <2> QED BY <2>2, <2>3, PidsChanged
<1> QED
  BY <1>1, <1>4, <1>5, <1>6, <1>7, <1>8, <1>9
  DEF Next, Deliver, Lose, Beat, OldBeat, Hear, Clean, CleanLive, CleanOut, LastClean,
      WaitMaster

LEMMA InvStep ==
  ASSUME Inv, PidsApart, Next
  PROVE  Inv'
<1>1. ASSUME NEW msg \in net, Deliver(msg) \/ Lose(msg) PROVE Inv'
  BY <1>1, DeliverInv, LoseInv
<1>2. ASSUME NEW n \in Nodes, NEW m \in Nodes, Beat(n, m) \/ OldBeat(n, m) PROVE Inv'
  <2>1. CASE Beat(n, m)
    <3>1. Current(m) \in Gen /\ Hear(n, m, Current(m))
      BY <2>1, GenType DEF Beat, Alive, Inv
    <3> QED BY <3>1, HearInv
  <2>2. CASE OldBeat(n, m)
    <3>1. gens[m] \in Seq(Gen) /\ Len(gens[m]) = 2
      BY <2>2 DEF OldBeat, Inv, GensOK
    <3>2. Head(gens[m]) \in Gen /\ Hear(n, m, Head(gens[m]))
      BY <2>2, <3>1, Pair DEF OldBeat
    <3> QED BY <3>2, HearInv
  <2> QED BY <1>2, <2>1, <2>2
<1>3. ASSUME NEW n \in Nodes, Clean(n) PROVE Inv'
  <2>1. PICK out : CleanOut(n, out) /\ trouble' = trouble
    BY <1>3 DEF Clean
  <2>2. trouble' \in 0 .. MaxTrouble
    BY <2>1 DEF Inv, RecordOK
  <2> QED BY <2>1, <2>2, CleanOutInv
<1>4. ASSUME NEW n \in Nodes, CleanLive(n) PROVE Inv'
  <2>1. PICK out : CleanOut(n, out)
    BY <1>4 DEF CleanLive
  <2>2. trouble' \in 0 .. MaxTrouble
    BY <1>4, Counted DEF Inv, CleanLive, Trouble
  <2> QED BY <2>1, <2>2, CleanOutInv
<1> QED
  BY <1>1, <1>2, <1>3, <1>4, LastCleanInv, WaitMasterInv, StartInv, ReloadInv, DrainInv,
     LeaveInv, RespawnInv, DownInv DEF Next

LEMMA Invariant == Spec => [](Inv /\ PidsApart)
<1>1. Init => Inv /\ PidsApart
  BY InitInv
<1>2. Inv /\ PidsApart /\ [Next]_vars => (Inv /\ PidsApart)'
  <2>1. CASE Next
    BY <2>1, InvStep, PidsApartStep
  <2>2. CASE UNCHANGED vars
    BY <2>2 DEF Inv, GensOK, TimersOK, ListsOK, RecordOK, NetOK, PidsApart, vars, workers,
                timers
  <2> QED BY <2>1, <2>2
<1> QED BY <1>1, <1>2, PTL DEF Spec

(* Members, processes, timers and datagrams have their types; no node      *)
(* comes into its own list, and none is in a list twice under one pid.     *)
THEOREM TypeCorrect == Spec => []TypeOK
BY Invariant, InvTypeOK, PTL

-----------------------------------------------------------------------------
(* What the steps do to the record of one node.                            *)
LEMMA Alone ==
  ASSUME Inv, NEW n \in Nodes, Len(gens[n]) = 1
  PROVE  /\ gens[n] # <<>> /\ Current(n) \in Gen /\ BootRead(n) = {Current(n).boot}
         /\ \A i \in DOMAIN gens[n] : gens[n][i] = Current(n)
         /\ Current(n) = gens[n][1]
         /\ Member(n, Current(n)) \in Members /\ Current(n).boot \in Nat
<1>1. gens[n] \in Seq(Gen) /\ gens[n] # <<>>
  <2>1. gens[n] \in Seq(Gen)
    BY DEF Inv, GensOK
  <2>2. gens[n] = <<>> => Len(gens[n]) = 0
    BY EmptySeq, Zenon
  <2> QED BY <2>1, <2>2
<1>2. DOMAIN gens[n] = {1} /\ Current(n) = gens[n][1] /\ gens[n][1] \in Gen
  BY <1>1 DEF Current
<1>3. Member(n, Current(n)) \in Members /\ Current(n).boot \in Nat
  BY <1>2, MemberType DEF Gen
<1> QED BY <1>1, <1>2, <1>3 DEF BootRead

LEMMA OthersApart ==
  ASSUME Inv, NEW n \in Nodes, Len(gens[n]) = 1, Untied(n)
  PROVE  /\ list[n] \in Seq(Members)
         /\ \A i, j \in 1 .. Len(list[n]) :
              list[n][i].boot = list[n][j].boot => list[n][i].node = list[n][j].node
         /\ \A i \in 1 .. Len(list[n]) :
              list[n][i].boot # Current(n).boot /\ list[n][i] # Member(n, Current(n))
<1> DEFINE self == Member(n, Current(n))
<1>1. ListOK(n, list[n])
  BY DEF Inv, ListsOK
<1>2. self.node = n /\ self.boot = Current(n).boot
  BY DEF Member
<1>3. \A i \in 1 .. Len(list[n]) : list[n][i] \in Range(list[n]) /\ list[n][i].node # n
  BY <1>1 DEF ListOK, Range
<1> HIDE DEF self
<1>4. \A e, f \in Range(list[n]) \union {self} : e.boot = f.boot => e.node = f.node
  BY DEF Untied, self
<1>5. \A i \in 1 .. Len(list[n]) : list[n][i].boot # Current(n).boot /\ list[n][i] # self
  BY <1>2, <1>3, <1>4
<1>6. \A i, j \in 1 .. Len(list[n]) :
        list[n][i].boot = list[n][j].boot => list[n][i].node = list[n][j].node
  BY <1>3, <1>4
<1> QED BY <1>1, <1>5, <1>6 DEF ListOK, self

LEMMA Untouched ==
  ASSUME NEW n \in Nodes, Settled(n), gens'[n] = gens[n], list'[n] = list[n], last'[n] = last[n]
  PROVE  Settled(n)'
BY DEF Settled, Elect, Current

LEMMA Recorded ==
  ASSUME NEW n \in Nodes, gens'[n] = gens[n],
         last'[n] = Elect(n, Current(n).boot, list'[n]).node
  PROVE  Settled(n)'
BY DEF Settled, Elect, Current

LEMMA PublishOthers ==
  ASSUME RecordOK, NEW k \in Nodes, NEW master, Publish(k, master)
  PROVE  last'[k] = master.node /\ \A n \in Nodes \ {k} : last'[n] = last[n]
BY DEF Publish, RecordOK

LEMMA Elsewhere ==
  ASSUME Inv, NEW n \in Nodes, Settled(n), NEW k \in Nodes \ {n}, gens' = gens,
         \E s : list' = [list EXCEPT ![k] = s],
         Quiet \/ \E master : Publish(k, master)
  PROVE  Settled(n)'
<1>1. RecordOK /\ list \in [Nodes -> Seq(Members)]
  BY DEF Inv, ListsOK
<1>2. list'[n] = list[n]
  BY <1>1
<1>3. last'[n] = last[n]
  BY <1>1, PublishOthers DEF Quiet
<1> QED BY <1>2, <1>3, Untouched

(* A node that is about to keep up.                                        *)
Calm(n) == OneElects(n) /\ Untied(n) /\ Settled(n)

LEMMA SeenKeeps ==
  ASSUME Inv, NEW n \in Nodes, Calm(n), NEW k \in Nodes, NEW e, Seen(k, e), gens' = gens
  PROVE  Settled(n)'
<1>1. CASE k # n
  <2>1. Quiet \/ \E master : Publish(k, master)
    BY DEF Seen
  <2>2. \E s : list' = [list EXCEPT ![k] = s]
    BY DEF Seen
  <2> QED BY <1>1, <2>1, <2>2, Elsewhere DEF Calm
<1>2. CASE k = n
  <2>1. BootRead(n) = {Current(n).boot} /\ RecordOK
    BY Alone DEF Calm, OneElects, Inv
  <2>2. PICK master : /\ master = Elect(n, Current(n).boot, list'[n])
                      /\ \/ Publish(n, master)
                         \/ last[n] = master.node /\ Quiet
    BY <1>2, <2>1 DEF Seen
  <2>3. last'[n] = master.node
    BY <2>1, <2>2, PublishOthers DEF Quiet
  <2> QED BY <2>2, <2>3, Recorded
<1> QED BY <1>1, <1>2

LEMMA DropKeeps ==
  ASSUME Inv, NEW n \in Nodes, Calm(n), NEW k \in Nodes, NEW i \in DOMAIN gens[k], NEW out,
         NEW boot \in BootRead(k), Drop(k, gens[k][i], out, boot), gens' = gens
  PROVE  Settled(n)'
<1>1. RecordOK /\ list \in [Nodes -> Seq(Members)]
  BY DEF Inv, ListsOK
<1>2. CASE k # n
  <2>1. Quiet \/ \E master : Publish(k, master)
    BY DEF Drop
  <2>2. \E s : list' = [list EXCEPT ![k] = s]
    BY DEF Drop
  <2> QED BY <1>2, <2>1, <2>2, Elsewhere DEF Calm
<1>3. CASE k = n
  <2>1. Len(gens[n]) = 1 /\ boot = Current(n).boot /\ gens[n][i] = Current(n)
    BY <1>3, Alone DEF Calm, OneElects
  <2>2. list'[n] = Without(list[n], out)
    BY <1>1, <1>3 DEF Drop
  <2>3. CASE Publish(n, Elect(n, Current(n).boot, list'[n]))
    <3>1. last'[n] = Elect(n, Current(n).boot, list'[n]).node
      BY <1>1, <2>3, PublishOthers
    <3> QED BY <3>1, Recorded
  <2>4. CASE Elect(n, Current(n).boot, list[n]) \notin out /\ Quiet
    <3> DEFINE self == Member(n, Current(n))
               s == list[n]
               t == Without(list[n], out)
               b == Current(n).boot
    <3>1. self \in Members /\ b \in Nat /\ s \in Seq(Members)
      BY <1>1, <2>1, Alone
    <3>2. ListOK(n, s)
      BY DEF Inv, ListsOK
    <3>3. /\ t \in Seq(Members)
          /\ \A j \in 1 .. Len(t) : \E l \in 1 .. Len(s) : t[j] = s[l]
          /\ \A l \in 1 .. Len(s) : s[l] \notin out => \E j \in 1 .. Len(t) : t[j] = s[l]
      BY <3>2, WithoutOK DEF ListOK
    <3>4. ElectFrom(self, b, s) \notin out
      BY <2>4 DEF Elect
    <3>5. ElectFrom(self, b, s) = self \/ \E l \in 1 .. Len(s) : ElectFrom(self, b, s) = s[l]
      BY <3>1, ElectsEldest DEF Wins
    <3>6. ElectFrom(self, b, s) = self \/ \E j \in 1 .. Len(t) : ElectFrom(self, b, s) = t[j]
      BY <3>3, <3>4, <3>5
    <3>7. /\ \A l, m \in 1 .. Len(s) : s[l].boot = s[m].boot => s[l].node = s[m].node
          /\ \A l \in 1 .. Len(s) : s[l].boot # b /\ s[l] # self
      BY <2>1, OthersApart DEF Calm
    <3>8. ElectFrom(self, b, t).node = ElectFrom(self, b, s).node
      <4> HIDE DEF self, s, t, b
      <4> QED BY <3>1, <3>3, <3>6, <3>7, SameElection
    <3>9. last'[n] = Elect(n, Current(n).boot, list'[n]).node
      BY <2>2, <2>4, <3>8 DEF Quiet, Calm, Settled, Elect
    <3> QED BY <3>9, Recorded
  <2> QED BY <1>3, <2>1, <2>3, <2>4 DEF Drop
<1> QED BY <1>2, <1>3

(* No draining worker 0 of this node elects any more, ...                  *)
LEMMA LastCleanKeeps ==
  ASSUME Inv, PidsApart, NEW n \in Nodes, Calm(n), NEW k \in Nodes, LastClean(k)
  PROVE  Settled(n)'
<1>1. PICK g \in leaving[k] : /\ Timer(k, g) \in cleaning /\ gens' = gens
                              /\ \E out : Drop(k, g, out, g.boot)
  BY DEF LastClean, workers
<1>2. k # n
  <2>1. SUFFICES ASSUME k = n PROVE FALSE
    OBVIOUS
  <2>2. Len(gens[n]) = 1 /\ g.pid = Current(n).pid /\ Current(n) = gens[n][1]
    BY <1>1, <2>1, Alone DEF Calm, OneElects, Timer
  <2>3. \A i \in 1 .. Len(gens[n]) : gens[n][i].pid # g.pid
    BY <2>1 DEF PidsApart, PidsOf
  <2> QED BY <2>2, <2>3
<1>3. Quiet \/ \E master : Publish(k, master)
  BY <1>1 DEF Drop
<1>4. \E s : list' = [list EXCEPT ![k] = s]
  BY <1>1 DEF Drop
<1> QED BY <1>1, <1>2, <1>3, <1>4, Elsewhere DEF Calm

(* ... nor does one wait for a master.                                     *)
LEMMA WaitMasterKeeps ==
  ASSUME Inv, PidsApart, NEW n \in Nodes, Calm(n), NEW k \in Nodes, WaitMaster(k)
  PROVE  Settled(n)'
<1>1. PICK g \in Range(gens[k]) \union leaving[k], t \in waiting :
        /\ t.node = k /\ t.pid = g.pid /\ gens' = gens /\ list' = list
        /\ Publish(k, Elect(k, g.boot, list[k]))
  BY DEF WaitMaster, workers
<1>2. CASE k = n
  <2>1. /\ Len(gens[n]) = 1 /\ g.pid = Current(n).pid /\ Current(n) = gens[n][1]
        /\ \A i \in DOMAIN gens[n] : gens[n][i] = Current(n)
    BY <1>1, <1>2, Alone DEF Calm, OneElects
  <2>2. g \notin leaving[n]
    <3>1. \A h \in leaving[n] : \A i \in 1 .. Len(gens[n]) : gens[n][i].pid # h.pid
      BY DEF PidsApart, PidsOf
    <3> QED BY <2>1, <3>1
  <2>3. g = Current(n)
    BY <1>2, <2>1, <2>2 DEF Range
  <2>4. last'[n] = Elect(n, Current(n).boot, list'[n]).node
    BY <1>1, <1>2, <2>3, PublishOthers DEF Inv
  <2> QED BY <1>1, <2>4, Recorded
<1>3. CASE k # n
  <2>1. list' = [list EXCEPT ![k] = list[k]]
    BY <1>1 DEF Inv, ListsOK
  <2> QED BY <1>1, <1>3, <2>1, Elsewhere DEF Calm
<1> QED BY <1>2, <1>3

LEMMA RespawnKeeps ==
  ASSUME Inv, NEW n \in Nodes, Calm(n), Respawn(n)
  PROVE  Settled(n)'
<1> DEFINE self == Member(n, Current(n))
           new == [Current(n) EXCEPT !.pid = nextPid]
           self2 == Member(n, new)
           s == list[n]
           b == Current(n).boot
<1>1. /\ Len(gens[n]) = 1 /\ gens \in [Nodes -> Seq(Gen)] /\ nextPid \in Nat
      /\ gens[n] # <<>>
  BY Alone DEF Calm, OneElects, Inv, GensOK
<1>2. gens'[n] = Append(Front(gens[n]), new) /\ list' = list /\ last' = last
  BY <1>1 DEF Respawn
<1>3. Current(n) \in Gen /\ self \in Members /\ b \in Nat
  BY <1>1, Alone
<1>4. new \in Gen /\ new.boot = b
  BY <1>1, <1>3 DEF Gen
<1>5. self2 \in Members /\ self2.node = self.node
  BY <1>3, <1>4, MemberType
<1>6. Current(n)' = new
  <2> HIDE DEF new
  <2>1. PICK t : t = Append(Front(gens[n]), new)
    OBVIOUS
  <2>2. Len(t) = Len(gens[n]) /\ t[Len(gens[n])] = new
    BY <1>1, <1>4, <2>1, Replaced
  <2> QED BY <1>2, <2>1, <2>2 DEF Current
<1>7. /\ s \in Seq(Members)
      /\ \A l, m \in 1 .. Len(s) : s[l].boot = s[m].boot => s[l].node = s[m].node
      /\ \A l \in 1 .. Len(s) : s[l].boot # b /\ s[l] # self
  BY <1>1, OthersApart DEF Calm
<1>8. ElectFrom(self, b, s) = self \/ \E l \in 1 .. Len(s) : ElectFrom(self, b, s) = s[l]
  BY <1>3, <1>7, ElectsEldest DEF Wins
<1>9. ElectFrom(self2, b, s).node = ElectFrom(self, b, s).node
  <2> HIDE DEF self, self2, s, b
  <2> QED BY <1>3, <1>5, <1>7, <1>8, SameElection
<1>10. last[n] = ElectFrom(self, b, s).node
  BY DEF Calm, Settled, Elect
<1>11. last'[n] = ElectFrom(Member(n, Current(n)'), Current(n)'.boot, list'[n]).node
  BY <1>2, <1>4, <1>6, <1>9, <1>10
<1> QED BY <1>11 DEF Settled, Elect

LEMMA KeepsUp ==
  ASSUME Inv, PidsApart, Next, NEW n \in Nodes, Calm(n), Len(gens[n])' = 1
  PROVE  Settled(n)'
<1>1. /\ gens \in [Nodes -> Seq(Gen)] /\ list \in [Nodes -> Seq(Members)]
      /\ last \in [Nodes -> Nodes]
  BY DEF Inv, ListsOK, RecordOK, GensOK
<1>2. ASSUME NEW msg \in net, Deliver(msg) PROVE Settled(n)'
  <2>1. msg.to \in Nodes /\ gens' = gens
    BY <1>2 DEF Inv, NetOK, Datagrams, Deliver, workers
  <2> DEFINE out == {e \in Range(list[msg.to]) : Same(e, msg)}
  <2>2. \/ \E e : Seen(msg.to, e)
        \/ \E i \in DOMAIN gens[msg.to] : \E boot \in BootRead(msg.to) :
             Drop(msg.to, gens[msg.to][i], out, boot)
    BY <1>2 DEF Deliver
  <2> HIDE DEF out
  <2> QED BY <2>1, <2>2, SeenKeeps, DropKeeps
<1>3. ASSUME NEW k \in Nodes, NEW m \in Nodes, Beat(k, m) \/ OldBeat(k, m)
      PROVE  Settled(n)'
  <2>1. \E e : Seen(k, e) /\ gens' = gens
    BY <1>3 DEF Beat, OldBeat, Hear, workers
  <2> QED BY <2>1, SeenKeeps
<1>4. ASSUME NEW k \in Nodes, Clean(k) \/ CleanLive(k) PROVE Settled(n)'
  <2>1. PICK out : CleanOut(k, out)
    BY <1>4 DEF Clean, CleanLive
  <2>2. PICK i \in DOMAIN gens[k] : Drop(k, gens[k][i], out, gens[k][i].boot)
    BY <2>1 DEF CleanOut
  <2>3. gens' = gens /\ gens[k][i].boot \in BootRead(k)
    BY <2>1 DEF CleanOut, workers, BootRead
  <2> QED BY <2>2, <2>3, DropKeeps
<1>5. ASSUME NEW k \in Nodes \ {n},
             Start(k) \/ Reload(k) \/ Drain(k) \/ Respawn(k) \/ Down(k)
      PROVE  Settled(n)'
  <2>1. gens'[n] = gens[n] /\ list'[n] = list[n] /\ last'[n] = last[n]
    BY <1>1, <1>5 DEF Start, Reload, Drain, Respawn, Down
  <2> QED BY <2>1, Untouched DEF Calm
<1>6. gens[n] \in Seq(Gen) /\ Len(gens[n]) = 1 /\ gens[n] # <<>>
  BY <1>1, Alone DEF Calm, OneElects
<1>7. ~Start(n) /\ ~Drain(n)
  BY <1>6 DEF Start, Drain, Alive
<1>8. ASSUME Reload(n) PROVE FALSE
  <2>1. PICK boot \in BootTimes[n] : gens' = [gens EXCEPT ![n] = Append(gens[n], New(boot))]
    BY <1>8 DEF Reload
  <2>2. PICK new \in Gen : new = New(boot)
    BY <2>1, NewType DEF Inv
  <2>3. Len(Append(gens[n], new)) = Len(gens[n]) + 1
    BY <1>6, <2>2, Appended, Zenon
  <2>4. gens'[n] = Append(gens[n], new)
    BY <1>1, <2>1, <2>2
  <2> QED BY <1>6, <2>3, <2>4
<1>9. ASSUME Down(n) PROVE FALSE
  <2>1. gens'[n] = <<>>
    BY <1>1, <1>9 DEF Down
  <2> QED BY <2>1
<1>10. ASSUME NEW k \in Nodes, Leave(k) PROVE Settled(n)'
  BY <1>10, Untouched DEF Leave, Calm
<1>11. ASSUME NEW msg \in net, Lose(msg) PROVE Settled(n)'
  BY <1>11, Untouched DEF Lose, workers, Calm
<1> QED
  BY <1>2, <1>3, <1>4, <1>5, <1>7, <1>8, <1>9, <1>10, <1>11, RespawnKeeps,
     LastCleanKeeps, WaitMasterKeeps
  DEF Next

(* A node that has recorded the master it elects goes on to do so whatever *)
(* members come, go, come late or are forgotten, from when no worker 0 of  *)
(* an older configuration of it has a timer until its next reload, and as  *)
(* long as no two nodes it knows of booted in the same millisecond.        *)
THEOREM RecordFollows == Spec => RecordKeepsUp
<1>1. Inv /\ PidsApart /\ [Next]_vars =>
        [\A n \in Nodes :
           OneElects(n) /\ Untied(n) /\ Settled(n) /\ Len(gens[n])' = 1 => Settled(n)']_vars
  BY KeepsUp DEF Calm
<1> QED BY <1>1, Invariant, PTL DEF Spec, RecordKeepsUp

=============================================================================
