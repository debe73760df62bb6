----------------------------- MODULE PaxosProofs -----------------------------
(***************************************************************************)
(* What holds of Paxos.cc with any number of monitors (module Paxos): the   *)
(* types, and that a proposal number stands for one value of a version.     *)
(*                                                                          *)
(* A proposal number is in memory only while its owner collects answers,    *)
(* and what was proposed under it is erased from the stores by later        *)
(* rounds, so no state says what was ever claimed under a number.  The      *)
(* inductive invariant PaxosInv therefore speaks of a set D of claims       *)
(* that contains at least those that stores and BEGINs still hold: there    *)
(* is such a D with one value for each version and number, in which every   *)
(* leader has claims only for what it has committed or is proposing, and    *)
(* in which nobody has claimed anything under a number still to be taken.   *)
(***************************************************************************)
EXTENDS Paxos, FiniteSetTheorems, SequenceTheorems, WellFoundedInduction, TLAPS

(***************************************************************************)
(* Types.                                                                   *)
(***************************************************************************)

\* Transactions by version: a trim begins the log before its own version
VMaps == {f \in UNION {[S -> Value] : S \in SUBSET Nat} : \A v \in DOMAIN f : f[v].trim < v}

PeerMaps == UNION {[S -> Nat] : S \in SUBSET Rank}

Monitors ==
  [epoch : Nat, role : Roles, leader : Rank, quorum : SUBSET Rank,
   log : VMaps, last_committed : Nat, first_committed : Nat, last_pn : Nat,
   stored_pn : Nat, pending_v : Nat, pending_pn : Nat,
   state : States, accepted_pn : Nat, uncommitted : [v: Nat, pn: Nat, value: Value],
   num_last : Nat, peer_lc : PeerMaps, accepted : SUBSET Rank, new_value : Value,
   pending : BOOLEAN, lease : BOOLEAN, acked_lease : SUBSET Rank, events : SUBSET Events]

Messages ==
  [op: Ops, epoch: Nat, quorum: SUBSET Rank, pn: Nat, lc: Nat, fc: Nat,
   values: VMaps, upn: Nat]

LEMMA VMapsDef ==
  ASSUME NEW f
  PROVE  f \in VMaps <=> /\ DOMAIN f \subseteq Nat
                         /\ f \in [DOMAIN f -> Value]
                         /\ \A v \in DOMAIN f : f[v].trim < v
  BY DEF VMaps

LEMMA PeerMapsDef ==
  ASSUME NEW f
  PROVE  f \in PeerMaps <=> DOMAIN f \subseteq Rank /\ f \in [DOMAIN f -> Nat]
  BY DEF PeerMaps

LEMMA EmptyMaps == <<>> \in VMaps /\ <<>> \in PeerMaps
<1>1. DOMAIN <<>> = {}
  OBVIOUS
<1>2. <<>> \in [{} -> Value] /\ <<>> \in [{} -> Nat]
  OBVIOUS
<1>. QED
  BY <1>1, <1>2, VMapsDef, PeerMapsDef

LEMMA OneMap ==
  ASSUME NEW v \in Nat, NEW x \in Value, x.trim < v
  PROVE  /\ One(v, x) \in VMaps /\ DOMAIN One(v, x) = {v} /\ One(v, x)[v] = x
  BY VMapsDef DEF One

LEMMA OverMap ==
  ASSUME NEW f \in VMaps, NEW g \in VMaps
  PROVE  /\ Over(f, g) \in VMaps
         /\ DOMAIN Over(f, g) = DOMAIN f \cup DOMAIN g
         /\ \A v \in DOMAIN f : Over(f, g)[v] = f[v]
         /\ \A v \in DOMAIN g \ DOMAIN f : Over(f, g)[v] = g[v]
<1>. DEFINE h == Over(f, g)
<1>1. DOMAIN h = DOMAIN f \cup DOMAIN g
  BY DEF Over
<1>2. \A v \in DOMAIN f : h[v] = f[v]
  BY DEF Over
<1>3. \A v \in DOMAIN g \ DOMAIN f : h[v] = g[v]
  BY DEF Over
<1>4. h = [v \in DOMAIN h |-> h[v]]
  BY DEF Over
<1>5. /\ DOMAIN f \subseteq Nat /\ DOMAIN g \subseteq Nat
      /\ \A v \in DOMAIN f : f[v] \in Value /\ f[v].trim < v
      /\ \A v \in DOMAIN g : g[v] \in Value /\ g[v].trim < v
  BY VMapsDef
<1>6. \A v \in DOMAIN h : h[v] \in Value /\ h[v].trim < v
  <2>1. TAKE v \in DOMAIN h
  <2>2. CASE v \in DOMAIN f
    BY <2>2, <1>2, <1>5
  <2>3. CASE v \notin DOMAIN f
    BY <2>3, <1>1, <1>3, <1>5
  <2>. QED
    BY <2>2, <2>3
<1>7. h \in [DOMAIN h -> Value] /\ DOMAIN h \subseteq Nat
  <2>. HIDE DEF h
  <2>. QED
    BY <1>1, <1>4, <1>5, <1>6
<1>8. h \in VMaps
  <2>. HIDE DEF h
  <2>. QED
    BY <1>6, <1>7, VMapsDef
<1>. QED
  BY <1>1, <1>2, <1>3, <1>8

\* What a part of a log is: a restriction of it, or the versions that a trim leaves
LEMMA SubMap ==
  ASSUME NEW f \in VMaps, NEW S, S \subseteq DOMAIN f
  PROVE  [v \in S |-> f[v]] \in VMaps
<1>1. /\ DOMAIN f \subseteq Nat
      /\ \A v \in DOMAIN f : f[v] \in Value /\ f[v].trim < v
  BY VMapsDef
<1>2. DOMAIN [v \in S |-> f[v]] = S /\ \A v \in S : [w \in S |-> f[w]][v] = f[v]
  OBVIOUS
<1>3. [v \in S |-> f[v]] \in [S -> Value]
  BY <1>1
<1>. QED
  BY <1>1, <1>2, <1>3, VMapsDef

LEMMA NewPnIsNew ==
  ASSUME NEW m \in Rank, NEW a \in Nat, NEW b \in Nat
  PROVE  /\ NewPn(m, a, b) \in Nat /\ NewPn(m, a, b) > a /\ NewPn(m, a, b) > b
         /\ NewPn(m, a, b) % 100 = m
<1>1. m \in 0 .. 99
  BY NAssumption DEF Rank
<1>. QED
  BY <1>1, SMTT(60) DEF NewPn, Larger

LEMMA SetMax ==
  ASSUME NEW a \in Nat, NEW b \in Nat, NEW W, W \subseteq a .. b, W # {}
  PROVE  Max(W) \in W /\ \A w \in W : w <= Max(W)
<1>. DEFINE T == {b - w : w \in W}
            R == OpToRel(<, Nat)
<1>. HIDE DEF R
<1>1. T \subseteq Nat /\ T # {}
  <2>1. \A w \in W : b - w \in Nat
    OBVIOUS
  <2>. QED
    BY <2>1
<1>2. PICK k \in T : \A y \in T : <<y, k>> \notin R
  <2>. HIDE DEF T, R
  <2>1. IsWellFoundedOn(R, Nat)
    BY NatLessThanWellFounded DEF R
  <2>. QED
    BY <1>1, <2>1, WFMin
<1>3. \A y \in T : ~(y < k)
  BY <1>1, <1>2 DEF OpToRel, R
<1>4. PICK x \in W : k = b - x
  BY <1>2
<1>5. \A y \in W : x >= y
  BY <1>3, <1>4
<1>6. W \subseteq Int
  OBVIOUS
<1>. QED
  BY <1>4, <1>5, <1>6 DEF Max

LEMMA SetMin ==
  ASSUME NEW W, W \subseteq Nat, W # {}
  PROVE  Min(W) \in W /\ \A w \in W : Min(W) <= w
<1>. DEFINE R == OpToRel(<, Nat)
<1>. HIDE DEF R
<1>1. PICK k \in W : \A y \in W : <<y, k>> \notin R
  <2>1. IsWellFoundedOn(R, Nat)
    BY NatLessThanWellFounded DEF R
  <2>. QED
    BY <2>1, WFMin
<1>2. \A y \in W : ~(y < k)
  BY <1>1 DEF OpToRel, R
<1>3. \A y \in W : k <= y
  BY <1>2
<1>. QED
  BY <1>1, <1>3 DEF Min

(***************************************************************************)
(* Claims.  A claim says that a value was proposed for a version under a    *)
(* proposal number.  The proof carries the set D of the claims that were    *)
(* ever made, of which the stores and the BEGINs under way are a part.      *)
(***************************************************************************)

Claim == [v: Nat, pn: Nat, x: Value]

Consistent(D) ==
  /\ D \subseteq Claim
  /\ N > 1 => \A c, d \in D : c.v = d.v /\ c.pn = d.pn => c.x = d.x

\* What a store has beyond last_committed was claimed under pending_pn.
StoreOK(D, s) ==
  /\ s.first_committed <= s.last_committed
  /\ s.pending_v <= s.last_committed + 1
  /\ s.pending_v > s.last_committed =>
       /\ s.pending_v \in DOMAIN s.log
       /\ [v |-> s.pending_v, pn |-> s.pending_pn, x |-> s.log[s.pending_v]] \in D

MemoryOK(s) ==
  /\ s.new_value.trim <= s.last_committed
  /\ s.uncommitted.v > 0 => s.uncommitted.value.trim < s.uncommitted.v
  /\ IsWriting(s) => s.role = "leader"

\* A leader proposes under a number of its own, once for each version: what was
\* claimed under the number is committed, or is the value it is proposing.
LeaderOK(m, D, s) ==
  s.role = "leader" /\ N > 1 =>
    /\ s.quorum # {m}
    /\ s.accepted_pn % 100 = m /\ s.accepted_pn <= s.last_pn
    /\ s.state # "recovering" => s.num_last >= Cardinality(s.quorum)
    /\ \A c \in D : c.pn = s.accepted_pn =>
         c.v <= s.last_committed + (IF s.state \in {"recovering", "active"} THEN 0 ELSE 1)

\* Nobody else makes claims under the numbers of m, and m has written down the last.
OwnerOK(m, D, s) ==
  N > 1 => \A c \in D : c.pn % 100 = m => c.pn <= s.last_pn

Good(m, D, s) ==
  /\ s \in Monitors
  /\ StoreOK(D, s) /\ MemoryOK(s) /\ LeaderOK(m, D, s) /\ OwnerOK(m, D, s)

MsgOK(x, d, D, msg) ==
  /\ msg.op = "BEGIN" =>
       /\ msg.lc + 1 \in DOMAIN msg.values
       /\ [v |-> msg.lc + 1, pn |-> msg.pn, x |-> msg.values[msg.lc + 1]] \in D
       /\ N > 1 => msg.pn % 100 = x /\ x # d
  /\ msg.op = "LAST" /\ msg.upn > 0 => msg.lc + 1 \in DOMAIN msg.values

\* What a call in epoch e sends
OutOK(m, d, D, e, msg) ==
  msg.epoch = e /\ msg.op \notin {"ACCEPT", "VICTORY"} /\ MsgOK(m, d, D, msg)

Outs(m, D, e, out) ==
  /\ out \in [Rank -> Seq(Messages)]
  /\ \A d \in Rank : \A i \in 1 .. Len(out[d]) : OutOK(m, d, D, e, out[d][i])

\* The claims that m adds to C are its own.
Extends(m, C, D) ==
  Consistent(D) /\ C \subseteq D /\ (N > 1 => \A c \in D \ C : c.pn % 100 = m)

\* The result r of a call of m, made when the claims were C
Fine(m, C, e, r) ==
  \E D : Extends(m, C, D) /\ Good(m, D, r.s) /\ Outs(m, D, e, r.out)

LEMMA OutsGrow ==
  ASSUME NEW m, NEW C, NEW D, C \subseteq D, NEW e, NEW out, Outs(m, C, e, out)
  PROVE  Outs(m, D, e, out)
  BY DEF Outs, OutOK, MsgOK

LEMMA ExtendsTwice ==
  ASSUME NEW m, NEW B, NEW C, NEW D, Extends(m, B, C), Extends(m, C, D)
  PROVE  Extends(m, B, D)
  BY DEF Extends

LEMMA NothingOut ==
  ASSUME NEW m, NEW D, NEW e
  PROVE  Outs(m, D, e, Nothing)
<1>1. \A d \in Rank : Nothing[d] = <<>>
  BY DEF Nothing
<1>2. Nothing \in [Rank -> Seq(Messages)]
  BY DEF Nothing
<1>3. \A d \in Rank : Len(Nothing[d]) = 0
  BY <1>1
<1>4. \A d \in Rank : 1 .. Len(Nothing[d]) = {}
  BY <1>3
<1>. QED
  BY <1>2, <1>4 DEF Outs

LEMMA DoneFine ==
  ASSUME NEW m, NEW C, NEW e, NEW s, Consistent(C), Good(m, C, s)
  PROVE  Fine(m, C, e, Done(s))
<1>1. Done(s).s = s /\ Done(s).out = Nothing
  BY DEF Done
<1>2. Extends(m, C, C)
  BY DEF Extends
<1>. QED
  BY <1>1, <1>2, NothingOut DEF Fine

LEMMA SendOut ==
  ASSUME NEW m, NEW D, NEW e, NEW X, NEW msg \in Messages,
         \A d \in X \cap Rank : OutOK(m, d, D, e, msg)
  PROVE  Outs(m, D, e, SendTo(X, msg))
<1>. DEFINE out == SendTo(X, msg)
<1>1. \A d \in Rank : out[d] = IF d \in X THEN <<msg>> ELSE <<>>
  BY DEF SendTo
<1>2. ASSUME NEW d \in Rank PROVE out[d] \in Seq(Messages)
  <2>1. <<msg>> \in Seq(Messages) /\ <<>> \in Seq(Messages)
    OBVIOUS
  <2>. QED
    BY <1>1, <2>1
<1>3. out = [d \in Rank |-> out[d]]
  BY DEF SendTo
<1>. HIDE DEF out
<1>4. out \in [Rank -> Seq(Messages)]
  BY <1>2, <1>3
<1>5. ASSUME NEW d \in Rank, NEW i \in 1 .. Len(out[d])
      PROVE  OutOK(m, d, D, e, out[d][i])
  <2>1. CASE d \in X
    <3>1. out[d] = <<msg>>
      BY <1>1, <2>1
    <3>2. i = 1 /\ out[d][i] = msg
      BY <3>1
    <3>. QED
      BY <2>1, <3>2
  <2>2. CASE d \notin X
    <3>1. out[d] = <<>>
      BY <1>1, <2>2
    <3>. QED
      BY <3>1
  <2>. QED
    BY <2>1, <2>2
<1>. QED
  BY <1>4, <1>5 DEF Outs, out

LEMMA SendsFine ==
  ASSUME NEW m, NEW C, NEW e, NEW s, NEW X, NEW msg \in Messages,
         Consistent(C), Good(m, C, s),
         \A d \in X \cap Rank : OutOK(m, d, C, e, msg)
  PROVE  Fine(m, C, e, Sends(s, X, msg))
<1>1. Sends(s, X, msg).s = s /\ Sends(s, X, msg).out = SendTo(X, msg)
  BY DEF Sends
<1>2. Extends(m, C, C)
  BY DEF Extends
<1>. QED
  BY <1>1, <1>2, SendOut DEF Fine

LEMMA ConcatAt ==
  ASSUME NEW S, NEW u \in Seq(S), NEW w \in Seq(S), NEW i \in 1 .. Len(u \o w)
  PROVE  \/ \E k \in 1 .. Len(u) : (u \o w)[i] = u[k]
         \/ \E k \in 1 .. Len(w) : (u \o w)[i] = w[k]
<1>1. /\ Len(u) \in Nat /\ Len(w) \in Nat /\ i \in 1 .. Len(u) + Len(w)
      /\ (u \o w)[i] = IF i <= Len(u) THEN u[i] ELSE w[i - Len(u)]
  BY ConcatProperties
<1>2. CASE i <= Len(u)
  BY <1>1, <1>2
<1>3. CASE i > Len(u)
  <2>1. i - Len(u) \in 1 .. Len(w)
    BY <1>1, <1>3
  <2>2. (u \o w)[i] = w[i - Len(u)]
    BY <1>1, <1>3
  <2>. QED
    BY <2>1, <2>2
<1>. QED
  BY <1>1, <1>2, <1>3

LEMMA ThenOut ==
  ASSUME NEW m, NEW D, NEW e, NEW r, NEW q,
         Outs(m, D, e, r.out), Outs(m, D, e, q.out)
  PROVE  Outs(m, D, e, Then(r, q).out)
<1>. DEFINE out == Then(r, q).out
            a == r.out
            b == q.out
<1>1. out = [d \in Rank |-> a[d] \o b[d]]
  BY DEF Then
<1>2. \A d \in Rank : a[d] \in Seq(Messages) /\ b[d] \in Seq(Messages)
  BY DEF Outs
<1>3. /\ \A d \in Rank : \A i \in 1 .. Len(a[d]) : OutOK(m, d, D, e, a[d][i])
      /\ \A d \in Rank : \A i \in 1 .. Len(b[d]) : OutOK(m, d, D, e, b[d][i])
  BY DEF Outs
<1>. HIDE DEF out, a, b
<1>4. \A d \in Rank : out[d] = a[d] \o b[d]
  BY <1>1
<1>5. out \in [Rank -> Seq(Messages)]
  <2>1. \A d \in Rank : a[d] \o b[d] \in Seq(Messages)
    BY <1>2, ConcatProperties
  <2>. QED
    BY <1>1, <2>1
<1>6. ASSUME NEW d \in Rank, NEW i \in 1 .. Len(out[d])
      PROVE  OutOK(m, d, D, e, out[d][i])
  <2>1. \/ \E k \in 1 .. Len(a[d]) : out[d][i] = a[d][k]
        \/ \E k \in 1 .. Len(b[d]) : out[d][i] = b[d][k]
    <3>. DEFINE u == a[d]
                w == b[d]
    <3>1. u \in Seq(Messages) /\ w \in Seq(Messages) /\ out[d] = u \o w
      BY <1>2, <1>4
    <3>. HIDE DEF u, w
    <3>2. i \in 1 .. Len(u \o w)
      BY <3>1
    <3>3. \/ \E k \in 1 .. Len(u) : (u \o w)[i] = u[k]
          \/ \E k \in 1 .. Len(w) : (u \o w)[i] = w[k]
      BY <3>1, <3>2, ConcatAt
    <3>. QED
      BY <3>1, <3>3 DEF u, w
  <2>. QED
    BY <1>3, <2>1
<1>. QED
  BY <1>5, <1>6 DEF Outs, out

LEMMA ThenFine ==
  ASSUME NEW m, NEW C, NEW e, NEW r, NEW q, Fine(m, C, e, r),
         \A D : Consistent(D) /\ Good(m, D, r.s) => Fine(m, D, e, q)
  PROVE  Fine(m, C, e, Then(r, q))
<1>1. PICK D : Extends(m, C, D) /\ Good(m, D, r.s) /\ Outs(m, D, e, r.out)
  BY DEF Fine
<1>2. PICK E : Extends(m, D, E) /\ Good(m, E, q.s) /\ Outs(m, E, e, q.out)
  BY <1>1 DEF Fine, Extends
<1>3. Outs(m, E, e, r.out)
  BY <1>1, <1>2, OutsGrow DEF Extends
<1>4. Outs(m, E, e, Then(r, q).out)
  BY <1>2, <1>3, ThenOut
<1>5. Then(r, q).s = q.s
  BY DEF Then
<1>. QED
  BY <1>1, <1>2, <1>4, <1>5, ExtendsTwice DEF Fine

\* A call that makes no claims, and then another one
LEMMA ThenPlain ==
  ASSUME NEW m, NEW C, NEW e, NEW r, NEW q, Outs(m, C, e, r.out), Fine(m, C, e, q)
  PROVE  Fine(m, C, e, Then(r, q))
<1>1. PICK D : Extends(m, C, D) /\ Good(m, D, q.s) /\ Outs(m, D, e, q.out)
  BY DEF Fine
<1>2. Outs(m, D, e, r.out)
  BY <1>1, OutsGrow DEF Extends
<1>3. Outs(m, D, e, Then(r, q).out)
  BY <1>1, <1>2, ThenOut
<1>4. Then(r, q).s = q.s
  BY DEF Then
<1>. QED
  BY <1>1, <1>3, <1>4 DEF Fine

LEMMA PlainFine ==
  ASSUME NEW m, NEW C, NEW e, NEW r, Consistent(C), Good(m, C, r.s), Outs(m, C, e, r.out)
  PROVE  Fine(m, C, e, r)
<1>1. Extends(m, C, C)
  BY DEF Extends
<1>. QED
  BY <1>1 DEF Fine

\* No round begins with what is sent.
Quiet(out) == \A d \in Rank : \A i \in 1 .. Len(out[d]) : out[d][i].op # "BEGIN"

LEMMA NothingQuiet == Quiet(Nothing)
<1>1. \A d \in Rank : Nothing[d] = <<>>
  BY DEF Nothing
<1>2. \A d \in Rank : Len(Nothing[d]) = 0
  BY <1>1
<1>3. \A d \in Rank : 1 .. Len(Nothing[d]) = {}
  BY <1>2
<1>. QED
  BY <1>3 DEF Quiet

LEMMA SendQuiet ==
  ASSUME NEW X, NEW msg, msg.op # "BEGIN"
  PROVE  Quiet(SendTo(X, msg))
<1>. DEFINE out == SendTo(X, msg)
<1>1. \A d \in Rank : out[d] = <<msg>> \/ out[d] = <<>>
  BY DEF SendTo
<1>. HIDE DEF out
<1>2. ASSUME NEW d \in Rank, NEW i \in 1 .. Len(out[d]) PROVE out[d][i].op # "BEGIN"
  <2>1. CASE out[d] = <<msg>>
    <3>1. out[d][i] = msg
      BY <2>1
    <3>. QED
      BY <3>1
  <2>2. CASE out[d] = <<>>
    BY <2>2
  <2>. QED
    BY <1>1, <2>1, <2>2
<1>. QED
  BY <1>2 DEF Quiet, out

\* The call that returns r leaves a monitor in state s where it is, or makes it
\* leave the quorum; one that follows begins no round.
Stays(s, r) ==
  /\ r.s.epoch = s.epoch /\ r.s.role \in {s.role, "out"}
  /\ r.s.role = "peon" => Quiet(r.out)

LEMMA DoneStays == \A s : Stays(s, Done(s))
<1>1. \A s : Done(s).s = s /\ Done(s).out = Nothing
  BY DEF Done
<1>. QED
  BY <1>1, NothingQuiet DEF Stays

(***************************************************************************)
(* The store.                                                               *)
(***************************************************************************)

\* t differs from s in its log, and in what it knows about uncommitted values.
SameTerm(s, t) ==
  /\ t.epoch = s.epoch /\ t.role = s.role /\ t.quorum = s.quorum /\ t.state = s.state
  /\ t.accepted_pn = s.accepted_pn /\ t.num_last = s.num_last /\ t.last_pn = s.last_pn
  /\ t.new_value = s.new_value /\ t.last_committed >= s.last_committed

LEMMA LearnGood ==
  ASSUME NEW m \in Rank, NEW D, NEW s, Consistent(D), Good(m, D, s),
         NEW values \in VMaps, NEW W, W # {}, W \subseteq DOMAIN values,
         NEW b \in Nat, W \subseteq s.last_committed + 1 .. b
  PROVE  /\ Good(m, D, Learn(s, W, values))
         /\ SameTerm(s, Learn(s, W, values))
         /\ Learn(s, W, values).last_committed = Max(W)
         /\ Learn(s, W, values).pending = s.pending
         /\ Learn(s, W, values).peer_lc = s.peer_lc
         /\ Learn(s, W, values).uncommitted = s.uncommitted
<1>. DEFINE part  == [v \in W |-> values[v]]
            log   == Over(part, s.log)
            trims == {v \in W : values[v].trim > 0}
            fc    == IF trims # {} THEN values[Max(trims)].trim
                     ELSE IF 1 \in W THEN 1 ELSE s.first_committed
            V     == {w \in DOMAIN log : w >= fc}
            lg    == [v \in V |-> log[v]]
            l     == Max(W)
            t     == Learn(s, W, values)
<1>1. t = [s EXCEPT !.log = lg, !.first_committed = fc, !.last_committed = l]
  BY DEF Learn
<1>2. s \in Monitors /\ StoreOK(D, s) /\ MemoryOK(s) /\ LeaderOK(m, D, s) /\ OwnerOK(m, D, s)
  BY DEF Good
<1>3. /\ s.last_committed \in Nat /\ s.first_committed \in Nat /\ s.log \in VMaps
      /\ s.pending_v \in Nat /\ s.first_committed <= s.last_committed
  BY <1>2 DEF Monitors, StoreOK
<1>4. \A v \in DOMAIN values : values[v] \in Value /\ values[v].trim \in Nat /\ values[v].trim < v
  BY VMapsDef DEF Value
<1>5. part \in VMaps /\ DOMAIN part = W
  BY SubMap
<1>6. /\ log \in VMaps /\ DOMAIN log = W \cup DOMAIN s.log
      /\ \A v \in DOMAIN s.log \ W : log[v] = s.log[v]
  <2>. HIDE DEF part
  <2>. QED
    BY <1>3, <1>5, OverMap
<1>7. l \in W /\ l \in Nat /\ l > s.last_committed /\ \A w \in W : w <= l
  <2>1. s.last_committed + 1 \in Nat
    BY <1>3
  <2>2. Max(W) \in W /\ \A w \in W : w <= Max(W)
    BY <2>1, SetMax
  <2>. QED
    BY <1>3, <2>2
<1>8. fc \in Nat /\ fc <= l
  <2>1. CASE trims # {}
    <3>1. trims \subseteq s.last_committed + 1 .. b /\ s.last_committed + 1 \in Nat
      BY <1>3
    <3>2. Max(trims) \in trims
      <4>. HIDE DEF trims
      <4>. QED
        BY <2>1, <3>1, SetMax
    <3>3. Max(trims) \in W
      BY <3>2
    <3>4. values[Max(trims)].trim \in Nat /\ values[Max(trims)].trim < Max(trims)
      BY <1>4, <3>3
    <3>5. fc = values[Max(trims)].trim
      BY <2>1
    <3>6. Max(trims) <= l /\ Max(trims) \in Nat
      <4>. HIDE DEF l, trims
      <4>. QED
        BY <1>3, <1>7, <3>3
    <3>. HIDE DEF fc, l, trims
    <3>. QED
      BY <1>7, <3>4, <3>5, <3>6
  <2>2. CASE trims = {}
    <3>1. fc = IF 1 \in W THEN 1 ELSE s.first_committed
      BY <2>2
    <3>. HIDE DEF fc, l, trims
    <3>. QED
      BY <1>3, <1>7, <3>1
  <2>. QED
    BY <2>1, <2>2
<1>9. lg \in VMaps /\ DOMAIN lg = V
  <2>. HIDE DEF log
  <2>. QED
    BY <1>6, SubMap
<1>10. s.pending_v > l => s.pending_v \in DOMAIN lg /\ lg[s.pending_v] = s.log[s.pending_v]
  <2>1. SUFFICES ASSUME s.pending_v > l
                 PROVE  s.pending_v \in DOMAIN lg /\ lg[s.pending_v] = s.log[s.pending_v]
    OBVIOUS
  <2>2. s.pending_v \in DOMAIN s.log \ W /\ s.pending_v >= fc
    <3>. HIDE DEF fc, l
    <3>. QED
      BY <1>2, <1>3, <1>7, <1>8, <2>1 DEF StoreOK
  <2>3. s.pending_v \in V /\ log[s.pending_v] = s.log[s.pending_v]
    <3>. HIDE DEF log, fc
    <3>. QED
      BY <1>6, <2>2
  <2>. HIDE DEF log, V
  <2>. QED
    BY <2>3, <1>9
<1>. HIDE DEF lg, fc, l
<1>11. /\ t \in Monitors
       /\ t.log = lg /\ t.first_committed = fc /\ t.last_committed = l
       /\ t.pending_v = s.pending_v /\ t.pending_pn = s.pending_pn
       /\ t.uncommitted = s.uncommitted /\ t.pending = s.pending /\ t.peer_lc = s.peer_lc
  BY <1>1, <1>2, <1>7, <1>8, <1>9, ZenonT(40) DEF Monitors
<1>12. /\ t.epoch = s.epoch /\ t.role = s.role /\ t.quorum = s.quorum /\ t.state = s.state
       /\ t.accepted_pn = s.accepted_pn /\ t.num_last = s.num_last /\ t.last_pn = s.last_pn
       /\ t.new_value = s.new_value
  BY <1>1, <1>2 DEF Monitors
<1>. HIDE DEF t
<1>13. SameTerm(s, t)
  BY <1>3, <1>7, <1>11, <1>12 DEF SameTerm
<1>14. StoreOK(D, t)
  BY <1>2, <1>3, <1>7, <1>8, <1>10, <1>11 DEF StoreOK
<1>15. MemoryOK(t)
  <2>1. s.new_value.trim \in Nat
    BY <1>2 DEF Monitors, Value
  <2>. QED
    BY <1>2, <1>3, <1>7, <1>11, <1>12, <2>1 DEF MemoryOK, IsWriting
<1>16. LeaderOK(m, D, t)
  <2>1. \A c \in D : c.v \in Nat
    BY DEF Consistent, Claim
  <2>. QED
    BY <1>2, <1>3, <1>7, <1>11, <1>12, <2>1 DEF LeaderOK
<1>17. OwnerOK(m, D, t)
  BY <1>2, <1>12 DEF OwnerOK
<1>. QED
  BY <1>11, <1>13, <1>14, <1>15, <1>16, <1>17 DEF Good, t, l

\* The part of the state that the claims are about, but for a role and its round
SameStore(s, t) ==
  /\ t.log = s.log /\ t.last_committed = s.last_committed
  /\ t.first_committed = s.first_committed /\ t.last_pn = s.last_pn
  /\ t.pending_v = s.pending_v /\ t.pending_pn = s.pending_pn

SameRound(s, t) ==
  /\ t.role = s.role /\ t.quorum = s.quorum /\ t.state = s.state
  /\ t.accepted_pn = s.accepted_pn /\ t.num_last >= s.num_last
  /\ t.new_value = s.new_value /\ t.uncommitted = s.uncommitted

LEMMA QuorumSize ==
  ASSUME NEW Q, Q \subseteq Rank
  PROVE  IsFiniteSet(Q) /\ Cardinality(Q) \in Nat
<1>1. IsFiniteSet(Rank)
  BY NAssumption, FS_Interval DEF Rank
<1>2. IsFiniteSet(Q)
  BY <1>1, FS_Subset
<1>. QED
  BY <1>2, FS_CardinalityType

LEMMA GoodKept ==
  ASSUME NEW m, NEW D, NEW s, NEW t, Good(m, D, s), t \in Monitors,
         SameStore(s, t), SameRound(s, t)
  PROVE  Good(m, D, t)
<1>1. s \in Monitors /\ StoreOK(D, s) /\ MemoryOK(s) /\ LeaderOK(m, D, s) /\ OwnerOK(m, D, s)
  BY DEF Good
<1>2. StoreOK(D, t) /\ OwnerOK(m, D, t)
  BY <1>1 DEF StoreOK, OwnerOK, SameStore
<1>3. MemoryOK(t)
  BY <1>1 DEF MemoryOK, SameStore, SameRound, IsWriting
<1>4. LeaderOK(m, D, t)
  <2>1. Cardinality(s.quorum) \in Nat /\ s.num_last \in Nat /\ t.num_last \in Nat
    BY <1>1, QuorumSize DEF Monitors
  <2>. QED
    BY <1>1, <2>1 DEF LeaderOK, SameStore, SameRound
<1>. QED
  BY <1>2, <1>3, <1>4 DEF Good

\* A monitor that does not lead
LEMMA GoodFollower ==
  ASSUME NEW m, NEW D, NEW s, NEW t, Good(m, D, s), t \in Monitors,
         SameStore(s, t), t.role # "leader", ~IsWriting(t),
         t.new_value \in {s.new_value, NoValue},
         t.uncommitted \in {s.uncommitted, NoneUncommitted}
  PROVE  Good(m, D, t)
<1>1. s \in Monitors /\ StoreOK(D, s) /\ MemoryOK(s) /\ OwnerOK(m, D, s)
  BY DEF Good
<1>2. StoreOK(D, t) /\ OwnerOK(m, D, t)
  BY <1>1 DEF StoreOK, OwnerOK, SameStore
<1>3. MemoryOK(t)
  <2>1. s.last_committed \in Nat
    BY <1>1 DEF Monitors
  <2>. QED
    BY <1>1, <2>1 DEF MemoryOK, SameStore, NoValue, NoneUncommitted
<1>4. LeaderOK(m, D, t)
  BY DEF LeaderOK
<1>. QED
  BY <1>2, <1>3, <1>4 DEF Good

LEMMA NoneTyped == NoValue \in Value /\ NoneUncommitted \in [v: Nat, pn: Nat, value: Value]
<1>1. 0 \in Rank
  BY NAssumption DEF Rank
<1>. QED
  BY <1>1 DEF NoValue, NoneUncommitted, Value

LEMMA StoreStateGood ==
  ASSUME NEW m \in Rank, NEW D, NEW s, Consistent(D), Good(m, D, s), NEW msg \in Messages
  PROVE  /\ Good(m, D, StoreState(s, msg)) /\ SameTerm(s, StoreState(s, msg))
         /\ StoreState(s, msg).pending = s.pending
         /\ StoreState(s, msg).peer_lc = s.peer_lc
<1>. DEFINE W == News(s, msg)
            t == Learn(s, W, msg.values)
            u == IF t.uncommitted.v <= t.last_committed THEN NoneUncommitted ELSE t.uncommitted
<1>0. s \in Monitors /\ s.last_committed \in Nat
  BY DEF Good, Monitors
<1>1. CASE W = {}
  <2>1. StoreState(s, msg) = s
    BY <1>1 DEF StoreState
  <2>. QED
    BY <1>0, <2>1 DEF SameTerm
<1>2. CASE W # {}
  <2>1. /\ msg.values \in VMaps /\ W \subseteq DOMAIN msg.values
        /\ msg.lc \in Nat /\ W \subseteq s.last_committed + 1 .. msg.lc
    <3>1. msg.values \in VMaps /\ msg.lc \in Nat /\ DOMAIN msg.values \subseteq Nat
      BY VMapsDef DEF Messages
    <3>. QED
      BY <1>0, <3>1 DEF News
  <2>2. /\ Good(m, D, t) /\ SameTerm(s, t) /\ t.pending = s.pending /\ t.peer_lc = s.peer_lc
    <3>. HIDE DEF W
    <3>. QED
      BY <1>2, <2>1, LearnGood
  <2>3. StoreState(s, msg) = [t EXCEPT !.uncommitted = u]
    BY <1>2 DEF StoreState
  <2>. HIDE DEF t
  <2>4. t \in Monitors /\ MemoryOK(t)
    BY <2>2 DEF Good
  <2>5. u \in [v: Nat, pn: Nat, value: Value] /\ (u.v > 0 => u.value.trim < u.v)
    <3>1. t.uncommitted \in [v: Nat, pn: Nat, value: Value]
      BY <2>4 DEF Monitors
    <3>2. t.uncommitted.v > 0 => t.uncommitted.value.trim < t.uncommitted.v
      BY <2>4 DEF MemoryOK
    <3>3. NoneUncommitted.v = 0
      BY DEF NoneUncommitted
    <3>. QED
      BY <3>1, <3>2, <3>3, NoneTyped
  <2>. HIDE DEF u
  <2>. DEFINE q == StoreState(s, msg)
  <2>6. q \in Monitors /\ q.uncommitted = u /\ q.pending = t.pending /\ q.peer_lc = t.peer_lc
    BY <2>3, <2>4, <2>5 DEF Monitors
  <2>7. /\ q.log = t.log /\ q.last_committed = t.last_committed
        /\ q.first_committed = t.first_committed /\ q.last_pn = t.last_pn
        /\ q.pending_v = t.pending_v /\ q.pending_pn = t.pending_pn
        /\ q.epoch = t.epoch /\ q.role = t.role /\ q.quorum = t.quorum /\ q.state = t.state
        /\ q.accepted_pn = t.accepted_pn /\ q.num_last = t.num_last
        /\ q.new_value = t.new_value
    BY <2>3, <2>4 DEF Monitors
  <2>. HIDE DEF q
  <2>8. StoreOK(D, q) /\ OwnerOK(m, D, q) /\ LeaderOK(m, D, q)
    BY <2>2, <2>7 DEF Good, StoreOK, OwnerOK, LeaderOK
  <2>9. MemoryOK(q)
    BY <2>4, <2>5, <2>6, <2>7 DEF MemoryOK, IsWriting
  <2>10. SameTerm(s, q)
    BY <2>2, <2>7 DEF SameTerm
  <2>. QED
    BY <2>2, <2>6, <2>8, <2>9, <2>10 DEF Good, q
<1>. QED
  BY <1>1, <1>2

(***************************************************************************)
(* The calls.                                                               *)
(***************************************************************************)

LEMMA MsgTyped ==
  ASSUME NEW op \in Ops, NEW s \in Monitors
  PROVE  /\ Msg(op, s) \in Messages
         /\ Msg(op, s).op = op /\ Msg(op, s).epoch = s.epoch /\ Msg(op, s).upn = 0
  BY EmptyMaps DEF Msg, Messages, Monitors

\* A message that is neither a BEGIN nor a LAST says nothing about values.
LEMMA PlainOut ==
  ASSUME NEW m, NEW d, NEW D, NEW e, NEW msg, msg.epoch = e,
         msg.op \notin {"ACCEPT", "VICTORY", "BEGIN", "LAST"}
  PROVE  OutOK(m, d, D, e, msg)
  BY DEF OutOK, MsgOK

LEMMA ResetGood ==
  ASSUME NEW m, NEW D, NEW s, Good(m, D, s)
  PROVE  /\ Good(m, D, Reset(s)) /\ Reset(s).role = "out" /\ Reset(s).epoch = s.epoch
<1>. DEFINE t == Reset(s)
<1>1. s \in Monitors
  BY DEF Good
<1>2. t = [s EXCEPT !.role = "out", !.quorum = {}, !.events = {}, !.new_value = NoValue,
                    !.state = "recovering", !.pending = FALSE]
  BY DEF Reset
<1>. HIDE DEF t
<1>3. t \in Monitors
  <2>1. NoValue \in Value
    BY NoneTyped
  <2>. QED
    BY <1>1, <1>2, <2>1 DEF Monitors, Roles, States
<1>4. /\ t.role = "out" /\ t.epoch = s.epoch /\ t.new_value = NoValue /\ t.state = "recovering"
      /\ t.uncommitted = s.uncommitted /\ SameStore(s, t)
  BY <1>1, <1>2 DEF Monitors, SameStore
<1>. HIDE DEF t
<1>5. ~IsWriting(t)
  BY <1>4 DEF IsWriting
<1>6. Good(m, D, t)
  BY <1>3, <1>4, <1>5, GoodFollower
<1>. QED
  BY <1>4, <1>6 DEF t

LEMMA PeonInitGood ==
  ASSUME NEW m, NEW D, NEW s, Good(m, D, s), s.role # "leader"
  PROVE  /\ Good(m, D, PeonInit(s))
         /\ PeonInit(s).role = s.role /\ PeonInit(s).epoch = s.epoch
<1>. DEFINE t == PeonInit(s)
<1>1. s \in Monitors
  BY DEF Good
<1>2. t = [s EXCEPT !.events = {"lease"}, !.new_value = NoValue, !.pending = FALSE,
                    !.state = "recovering", !.lease = FALSE]
  BY DEF PeonInit
<1>. HIDE DEF t
<1>3. t \in Monitors
  <2>1. NoValue \in Value
    BY NoneTyped
  <2>. QED
    BY <1>1, <1>2, <2>1 DEF Monitors, Events, States
<1>4. /\ t.role = s.role /\ t.epoch = s.epoch /\ t.new_value = NoValue /\ t.state = "recovering"
      /\ t.uncommitted = s.uncommitted /\ SameStore(s, t)
  BY <1>1, <1>2 DEF Monitors, SameStore
<1>. HIDE DEF t
<1>5. ~IsWriting(t)
  BY <1>4 DEF IsWriting
<1>6. Good(m, D, t)
  BY <1>3, <1>4, <1>5, GoodFollower
<1>. QED
  BY <1>4, <1>6 DEF t

\* collect: no claim was ever made under the number that it takes.
LEMMA CollectFine ==
  ASSUME NEW m \in Rank, NEW C, NEW s, NEW oldpn \in Nat, Consistent(C), s \in Monitors,
         StoreOK(C, s), MemoryOK(s), OwnerOK(m, C, s),
         s.role = "leader", N > 1 => s.quorum # {m}
  PROVE  /\ Fine(m, C, s.epoch, Collect(m, s, oldpn))
         /\ Collect(m, s, oldpn).s.epoch = s.epoch /\ Collect(m, s, oldpn).s.role = "leader"
<1>. DEFINE v  == s.last_committed + 1
            pn == NewPn(m, s.last_pn, Larger(s.accepted_pn, oldpn))
            un == IF Exists(s, v)
                  THEN [v |-> v, pn |-> PendingPn(s, s.accepted_pn), value |-> s.log[v]]
                  ELSE NoneUncommitted
            t  == [s EXCEPT !.state = "recovering", !.uncommitted = un,
                            !.peer_lc = <<>>, !.last_pn = pn, !.accepted_pn = pn,
                            !.num_last = 1, !.events = @ \cup {"collect"}]
            msg == [Msg("COLLECT", t) EXCEPT !.pn = pn, !.lc = s.last_committed,
                                             !.fc = s.first_committed]
<1>1. Collect(m, s, oldpn) = Sends(t, s.quorum \ {m}, msg)
  BY DEF Collect
<1>2. /\ s.last_committed \in Nat /\ s.first_committed \in Nat /\ s.last_pn \in Nat
      /\ s.accepted_pn \in Nat /\ s.pending_pn \in Nat /\ s.log \in VMaps
  BY DEF Monitors
<1>3. pn \in Nat /\ pn > s.last_pn /\ pn % 100 = m
  <2>1. Larger(s.accepted_pn, oldpn) \in Nat
    BY <1>2 DEF Larger
  <2>. QED
    BY <1>2, <2>1, NewPnIsNew
<1>4. un \in [v: Nat, pn: Nat, value: Value] /\ (un.v > 0 => un.value.trim < un.v)
  <2>1. CASE Exists(s, v)
    <3>1. s.log[v] \in Value /\ s.log[v].trim < v
      BY <1>2, <2>1, VMapsDef DEF Exists
    <3>2. v \in Nat /\ PendingPn(s, s.accepted_pn) \in Nat
      BY <1>2 DEF PendingPn
    <3>3. un = [v |-> v, pn |-> PendingPn(s, s.accepted_pn), value |-> s.log[v]]
      BY <2>1
    <3>. HIDE DEF un, v
    <3>. QED
      BY <3>1, <3>2, <3>3
  <2>2. CASE ~Exists(s, v)
    BY <2>2, NoneTyped DEF NoneUncommitted
  <2>. QED
    BY <2>1, <2>2
<1>. HIDE DEF pn, un
<1>5. t \in Monitors
  BY <1>3, <1>4, EmptyMaps DEF Monitors, States, Events
<1>6. /\ t.epoch = s.epoch /\ t.role = s.role /\ t.quorum = s.quorum /\ t.state = "recovering"
      /\ t.uncommitted = un /\ t.last_pn = pn /\ t.accepted_pn = pn /\ t.new_value = s.new_value
      /\ t.log = s.log /\ t.last_committed = s.last_committed
      /\ t.first_committed = s.first_committed
      /\ t.pending_v = s.pending_v /\ t.pending_pn = s.pending_pn
  BY DEF Monitors
<1>. HIDE DEF t
<1>7. \A c \in C : N > 1 /\ c.pn % 100 = m => c.pn < pn
  <2>1. \A c \in C : c.pn \in Nat
    BY DEF Consistent, Claim
  <2>. QED
    BY <1>2, <1>3, <2>1 DEF OwnerOK
<1>8. StoreOK(C, t)
  BY <1>6 DEF StoreOK
<1>9. MemoryOK(t)
  BY <1>4, <1>6 DEF MemoryOK, IsWriting
<1>10. \A c \in C : c.pn \in Nat /\ c.v \in Nat
  BY DEF Consistent, Claim
<1>11. OwnerOK(m, C, t)
  BY <1>3, <1>6, <1>7, <1>10 DEF OwnerOK
<1>12. LeaderOK(m, C, t)
  BY <1>3, <1>6, <1>7, <1>10 DEF LeaderOK
<1>13. Good(m, C, t)
  BY <1>5, <1>8, <1>9, <1>11, <1>12 DEF Good
<1>14. msg \in Messages /\ msg.epoch = s.epoch /\ msg.op = "COLLECT"
  <2>1. "COLLECT" \in Ops
    BY DEF Ops
  <2>2. Msg("COLLECT", t) \in Messages /\ Msg("COLLECT", t).epoch = s.epoch
        /\ Msg("COLLECT", t).op = "COLLECT"
    BY <1>5, <1>6, <2>1, MsgTyped
  <2>. QED
    BY <1>2, <1>3, <2>2 DEF Messages
<1>. HIDE DEF msg
<1>15. \A d \in Rank : OutOK(m, d, C, s.epoch, msg)
  BY <1>14, PlainOut
<1>16. Fine(m, C, s.epoch, Sends(t, s.quorum \ {m}, msg))
  BY <1>13, <1>14, <1>15, SendsFine
<1>17. Sends(t, s.quorum \ {m}, msg).s = t
  BY DEF Sends
<1>. QED
  BY <1>1, <1>6, <1>16, <1>17

LEMMA ExtendLeaseFine ==
  ASSUME NEW m \in Rank, NEW C, NEW s, Consistent(C), Good(m, C, s)
  PROVE  /\ Outs(m, C, s.epoch, ExtendLease(m, s).out) /\ Good(m, C, ExtendLease(m, s).s)
         /\ SameStore(s, ExtendLease(m, s).s) /\ SameRound(s, ExtendLease(m, s).s)
         /\ ExtendLease(m, s).s.epoch = s.epoch /\ ExtendLease(m, s).s.pending = s.pending
<1>. DEFINE t == [s EXCEPT !.lease = TRUE, !.acked_lease = {m},
                           !.events = @ \cup {"lease_ack", "lease_renew"}]
            msg == [Msg("LEASE", s) EXCEPT !.lc = s.last_committed, !.fc = s.first_committed]
<1>1. ExtendLease(m, s) = Sends(t, s.quorum \ {m}, msg)
  BY DEF ExtendLease
<1>2. s \in Monitors /\ s.last_committed \in Nat /\ s.first_committed \in Nat /\ s.num_last \in Nat
  BY DEF Good, Monitors
<1>3. t \in Monitors /\ t.epoch = s.epoch /\ t.pending = s.pending
  BY <1>2 DEF Monitors, Events
<1>4. SameStore(s, t) /\ SameRound(s, t)
  BY <1>2 DEF Monitors, SameStore, SameRound
<1>. HIDE DEF t
<1>5. Good(m, C, t)
  BY <1>3, <1>4, GoodKept
<1>6. msg \in Messages /\ msg.epoch = s.epoch /\ msg.op = "LEASE"
  <2>1. "LEASE" \in Ops
    BY DEF Ops
  <2>2. Msg("LEASE", s) \in Messages /\ Msg("LEASE", s).epoch = s.epoch
        /\ Msg("LEASE", s).op = "LEASE"
    BY <1>2, <2>1, MsgTyped
  <2>. QED
    BY <1>2, <2>2 DEF Messages
<1>. HIDE DEF msg
<1>7. \A d \in Rank : OutOK(m, d, C, s.epoch, msg)
  BY <1>6, PlainOut
<1>8. Outs(m, C, s.epoch, SendTo(s.quorum \ {m}, msg))
  BY <1>6, <1>7, SendOut
<1>9. /\ Sends(t, s.quorum \ {m}, msg).s = t
      /\ Sends(t, s.quorum \ {m}, msg).out = SendTo(s.quorum \ {m}, msg)
  BY DEF Sends
<1>. QED
  BY <1>1, <1>3, <1>4, <1>5, <1>8, <1>9

\* begin: the leader claims the next version under its number, once.
LEMMA BeginFine ==
  ASSUME NEW m \in Rank, NEW C, NEW s, NEW x \in Value,
         NEW st \in {"updating", "updating-previous"},
         Consistent(C), Good(m, C, s), s.role = "leader",
         N > 1 => s.state \in {"recovering", "active"},
         N > 1 => s.num_last >= Cardinality(s.quorum), x.trim <= s.last_committed
  PROVE  /\ Fine(m, C, s.epoch, Begin(m, s, x, st))
         /\ Begin(m, s, x, st).s.epoch = s.epoch /\ Begin(m, s, x, st).s.role = "leader"
<1>. DEFINE v   == s.last_committed + 1
            lg  == Over(One(v, x), s.log)
            t   == [s EXCEPT !.state = st, !.accepted = {m}, !.new_value = x,
                             !.log = lg, !.pending_v = v, !.pending_pn = s.accepted_pn]
            u   == IF s.quorum = {m} THEN CommitStart(t)
                                     ELSE [t EXCEPT !.events = @ \cup {"accept"}]
            msg == [Msg("BEGIN", s) EXCEPT !.pn = s.accepted_pn, !.values = One(v, x),
                                           !.lc = s.last_committed]
            c   == [v |-> v, pn |-> s.accepted_pn, x |-> x]
            D   == C \cup {c}
<1>1. Begin(m, s, x, st) = IF s.quorum = {m} THEN Done(u) ELSE Sends(u, s.quorum \ {m}, msg)
  BY DEF Begin
<1>2. /\ s \in Monitors /\ s.last_committed \in Nat /\ s.accepted_pn \in Nat /\ s.log \in VMaps
      /\ s.num_last \in Nat /\ s.last_pn \in Nat /\ v \in Nat /\ s.first_committed \in Nat
      /\ x.trim \in Nat
  BY DEF Good, Monitors, Value
<1>3. One(v, x) \in VMaps /\ DOMAIN One(v, x) = {v} /\ One(v, x)[v] = x
  <2>1. x.trim < v
    BY <1>2
  <2>. HIDE DEF v
  <2>. QED
    BY <1>2, <2>1, OneMap
<1>4. lg \in VMaps /\ v \in DOMAIN lg /\ lg[v] = x
  <2>. HIDE DEF v
  <2>. QED
    BY <1>2, <1>3, OverMap
<1>. HIDE DEF lg
<1>5. t \in Monitors
  BY <1>2, <1>4 DEF Monitors, States
<1>6. /\ t.epoch = s.epoch /\ t.role = "leader" /\ t.quorum = s.quorum /\ t.state = st
      /\ t.accepted_pn = s.accepted_pn /\ t.num_last = s.num_last /\ t.last_pn = s.last_pn
      /\ t.new_value = x /\ t.uncommitted = s.uncommitted /\ t.log = lg
      /\ t.last_committed = s.last_committed /\ t.first_committed = s.first_committed
      /\ t.pending_v = v /\ t.pending_pn = s.accepted_pn
  BY <1>2 DEF Monitors
<1>. HIDE DEF t
<1>7. u \in Monitors /\ SameStore(t, u)
  BY <1>5, <1>6, ZenonT(40) DEF CommitStart, Monitors, States, Events, SameStore
<1>8. /\ u.epoch = s.epoch /\ u.role = "leader" /\ u.quorum = s.quorum
      /\ u.accepted_pn = s.accepted_pn /\ u.num_last = s.num_last
      /\ u.new_value = x /\ u.uncommitted = s.uncommitted
      /\ u.state \notin {"recovering", "active"}
  BY <1>5, <1>6 DEF CommitStart, Monitors
<1>. HIDE DEF u
<1>9. Consistent(D)
  <2>1. c \in Claim
    BY <1>2 DEF Claim
  <2>2. ASSUME N > 1, NEW d \in C, d.v = c.v, d.pn = c.pn
        PROVE  FALSE
    <3>1. d.v <= s.last_committed
      BY <2>2, <1>2 DEF Good, LeaderOK
    <3>2. d.v = s.last_committed + 1
      BY <2>2
    <3>. QED
      BY <1>2, <3>1, <3>2
  <2>. HIDE DEF c
  <2>. QED
    BY <2>1, <2>2 DEF Consistent
<1>10. c.v = v /\ c.pn = s.accepted_pn /\ c.x = x
  OBVIOUS
<1>11. N > 1 => c.pn % 100 = m /\ c.pn <= s.last_pn
  BY <1>10 DEF Good, LeaderOK
<1>12. Extends(m, C, D)
  BY <1>9, <1>11 DEF Extends
<1>13. StoreOK(D, u)
  <2>1. s.first_committed <= s.last_committed
    BY DEF Good, StoreOK
  <2>2. [v |-> u.pending_v, pn |-> u.pending_pn, x |-> u.log[u.pending_v]] = c
    BY <1>4, <1>6, <1>7 DEF SameStore
  <2>3. /\ u.pending_v = v /\ u.last_committed = s.last_committed /\ u.log = lg
        /\ u.first_committed = s.first_committed
    BY <1>6, <1>7 DEF SameStore
  <2>. HIDE DEF c
  <2>. QED
    BY <1>2, <1>4, <2>1, <2>2, <2>3 DEF StoreOK
<1>14. MemoryOK(u)
  <2>1. s.uncommitted.v > 0 => s.uncommitted.value.trim < s.uncommitted.v
    BY DEF Good, MemoryOK
  <2>. QED
    BY <1>6, <1>7, <1>8, <2>1 DEF MemoryOK, SameStore
<1>15. OwnerOK(m, D, u)
  <2>1. OwnerOK(m, C, s) /\ u.last_pn = s.last_pn
    BY <1>6, <1>7 DEF Good, SameStore
  <2>. HIDE DEF c
  <2>. QED
    BY <1>11, <2>1 DEF OwnerOK
<1>16. LeaderOK(m, D, u)
  <2>1. LeaderOK(m, C, s) /\ u.last_pn = s.last_pn /\ u.last_committed = s.last_committed
    BY <1>6, <1>7 DEF Good, SameStore
  <2>2. \A d \in C : d.v \in Nat
    BY DEF Consistent, Claim
  <2>3. N > 1 => \A d \in D : d.pn = s.accepted_pn => d.v <= s.last_committed + 1
    <3>1. \A d \in C : N > 1 /\ d.pn = s.accepted_pn => d.v <= s.last_committed
      BY <1>2, <2>1, <2>2 DEF LeaderOK
    <3>. QED
      BY <1>2, <1>10, <2>2, <3>1
  <2>. HIDE DEF c, D
  <2>. QED
    BY <1>8, <2>1, <2>3 DEF LeaderOK
<1>17. Good(m, D, u)
  BY <1>7, <1>13, <1>14, <1>15, <1>16 DEF Good
<1>18. msg \in Messages /\ \A d \in s.quorum \ {m} : OutOK(m, d, D, s.epoch, msg)
  <2>1. "BEGIN" \in Ops
    BY DEF Ops
  <2>2. Msg("BEGIN", s) \in Messages /\ Msg("BEGIN", s).epoch = s.epoch
        /\ Msg("BEGIN", s).op = "BEGIN"
    BY <1>2, <2>1, MsgTyped
  <2>3. /\ msg \in Messages /\ msg.epoch = s.epoch /\ msg.op = "BEGIN"
        /\ msg.pn = s.accepted_pn /\ msg.lc = s.last_committed /\ msg.values = One(v, x)
    <3>. HIDE DEF v
    <3>. QED
      BY <1>2, <1>3, <2>2 DEF Messages
  <2>4. [v |-> msg.lc + 1, pn |-> msg.pn, x |-> msg.values[msg.lc + 1]] = c
    BY <1>3, <2>3
  <2>5. msg.lc + 1 \in DOMAIN msg.values
    BY <1>3, <2>3
  <2>6. N > 1 => msg.pn % 100 = m
    BY <1>10, <1>11, <2>3
  <2>. HIDE DEF msg, c
  <2>. QED
    BY <2>3, <2>4, <2>5, <2>6 DEF OutOK, MsgOK
<1>. HIDE DEF D, msg
<1>19. Fine(m, D, s.epoch, Done(u)) /\ Fine(m, D, s.epoch, Sends(u, s.quorum \ {m}, msg))
  <2>1. Consistent(D)
    BY <1>9
  <2>2. \A d \in (s.quorum \ {m}) \cap Rank : OutOK(m, d, D, s.epoch, msg)
    BY <1>18
  <2>. QED
    BY <1>17, <1>18, <2>1, <2>2, DoneFine, SendsFine
<1>20. Fine(m, C, s.epoch, Done(u)) /\ Fine(m, C, s.epoch, Sends(u, s.quorum \ {m}, msg))
  BY <1>12, <1>19, ExtendsTwice DEF Fine
<1>21. Done(u).s = u /\ Sends(u, s.quorum \ {m}, msg).s = u
  BY DEF Done, Sends
<1>. QED
  BY <1>1, <1>8, <1>20, <1>21

LEMMA TrimToSmall ==
  ASSUME NEW s \in Monitors
  PROVE  TrimTo(s) \in Nat /\ TrimTo(s) <= s.last_committed
<1>1. s.last_committed \in Nat /\ s.first_committed \in Nat
  BY DEF Monitors
<1>. QED
  BY <1>1, TrimAssumption DEF TrimTo, Smaller

\* propose_pending
LEMMA ProposePendingFine ==
  ASSUME NEW m \in Rank, NEW C, NEW s, NEW trim \in Nat,
         Consistent(C), Good(m, C, s), s.role = "leader", s.state = "active",
         trim <= s.last_committed
  PROVE  /\ Fine(m, C, s.epoch, ProposePending(m, s, trim))
         /\ ProposePending(m, s, trim).s.epoch = s.epoch
         /\ ProposePending(m, s, trim).s.role = "leader"
<1>. DEFINE t == [s EXCEPT !.events = {}, !.pending = FALSE]
            x == [epoch |-> s.epoch, by |-> m, v |-> s.last_committed + 1, trim |-> trim]
<1>1. ProposePending(m, s, trim) = Begin(m, t, x, "updating")
  BY DEF ProposePending
<1>2. s \in Monitors /\ s.last_committed \in Nat /\ s.epoch \in Nat /\ s.num_last \in Nat
  BY DEF Good, Monitors
<1>3. x \in Value /\ x.trim = trim
  BY <1>2 DEF Value
<1>4. t \in Monitors
  BY <1>2 DEF Monitors
<1>5. SameStore(s, t) /\ SameRound(s, t) /\ t.epoch = s.epoch /\ t.num_last = s.num_last
  BY <1>2 DEF Monitors, SameStore, SameRound
<1>. HIDE DEF t, x
<1>6. Good(m, C, t)
  BY <1>4, <1>5, GoodKept
<1>7. /\ t.role = "leader" /\ t.state = "active" /\ t.last_committed = s.last_committed
      /\ N > 1 => t.num_last >= Cardinality(t.quorum)
  BY <1>5 DEF SameStore, SameRound, Good, LeaderOK
<1>8. /\ Fine(m, C, t.epoch, Begin(m, t, x, "updating"))
      /\ Begin(m, t, x, "updating").s.epoch = t.epoch
      /\ Begin(m, t, x, "updating").s.role = "leader"
  BY <1>3, <1>6, <1>7, BeginFine
<1>. QED
  BY <1>1, <1>5, <1>8

LEMMA ActivateGood ==
  ASSUME NEW m \in Rank, NEW C, NEW s, Good(m, C, s), s.role = "leader",
         N > 1 => s.num_last >= Cardinality(s.quorum),
         N > 1 => \A c \in C : c.pn = s.accepted_pn => c.v <= s.last_committed
  PROVE  Good(m, C, [s EXCEPT !.state = "active"])
<1>. DEFINE t == [s EXCEPT !.state = "active"]
<1>1. s \in Monitors /\ StoreOK(C, s) /\ MemoryOK(s) /\ LeaderOK(m, C, s) /\ OwnerOK(m, C, s)
      /\ s.last_committed \in Nat
  BY DEF Good, Monitors
<1>2. t \in Monitors
  BY <1>1 DEF Monitors, States
<1>3. /\ SameStore(s, t) /\ t.role = s.role /\ t.quorum = s.quorum /\ t.state = "active"
      /\ t.accepted_pn = s.accepted_pn /\ t.num_last = s.num_last
      /\ t.new_value = s.new_value /\ t.uncommitted = s.uncommitted
  BY <1>1 DEF Monitors, SameStore
<1>. HIDE DEF t
<1>4. StoreOK(C, t) /\ OwnerOK(m, C, t)
  BY <1>1, <1>3 DEF StoreOK, OwnerOK, SameStore
<1>5. MemoryOK(t)
  BY <1>1, <1>3 DEF MemoryOK, SameStore, IsWriting
<1>6. LeaderOK(m, C, t)
  BY <1>1, <1>3 DEF LeaderOK, SameStore
<1>. QED
  BY <1>2, <1>4, <1>5, <1>6 DEF Good, t

LEMMA FinishRoundFine ==
  ASSUME NEW m \in Rank, NEW C, NEW s, Consistent(C), Good(m, C, s), s.role = "leader",
         N > 1 => s.num_last >= Cardinality(s.quorum),
         N > 1 => \A c \in C : c.pn = s.accepted_pn => c.v <= s.last_committed
  PROVE  /\ Fine(m, C, s.epoch, FinishRound(m, s))
         /\ FinishRound(m, s).s.epoch = s.epoch /\ FinishRound(m, s).s.role = "leader"
<1>. DEFINE t == [s EXCEPT !.state = "active"]
<1>1. FinishRound(m, s) = IF s.pending \/ TrimTo(s) > 0 THEN ProposePending(m, t, TrimTo(s))
                                                        ELSE Done(t)
  BY DEF FinishRound
<1>2. s \in Monitors
  BY DEF Good
<1>3. Good(m, C, t)
  BY ActivateGood
<1>4. /\ t.role = "leader" /\ t.state = "active" /\ t.epoch = s.epoch
      /\ t.last_committed = s.last_committed
  BY <1>2 DEF Monitors
<1>. HIDE DEF t
<1>5. TrimTo(s) \in Nat /\ TrimTo(s) <= t.last_committed
  BY <1>2, <1>4, TrimToSmall
<1>6. /\ Fine(m, C, t.epoch, ProposePending(m, t, TrimTo(s)))
      /\ ProposePending(m, t, TrimTo(s)).s.epoch = t.epoch
      /\ ProposePending(m, t, TrimTo(s)).s.role = "leader"
  BY <1>3, <1>4, <1>5, ProposePendingFine
<1>7. Fine(m, C, t.epoch, Done(t)) /\ Done(t).s = t
  BY <1>3, DoneFine DEF Done
<1>. QED
  BY <1>1, <1>4, <1>6, <1>7

\* The value that is proposed is committed.
LEMMA LearnNext ==
  ASSUME NEW m \in Rank, NEW C, NEW s, Consistent(C), Good(m, C, s),
         NEW v, v = s.last_committed + 1
  PROVE  /\ Good(m, C, Learn(s, {v}, One(v, s.new_value)))
         /\ SameTerm(s, Learn(s, {v}, One(v, s.new_value)))
         /\ Learn(s, {v}, One(v, s.new_value)).last_committed = v
         /\ One(v, s.new_value) \in VMaps
<1>. DEFINE o == One(v, s.new_value)
            a == Learn(s, {v}, o)
<1>1. /\ s.last_committed \in Nat /\ v \in Nat
      /\ s.new_value \in Value /\ s.new_value.trim <= s.last_committed /\ s.new_value.trim \in Nat
  BY DEF Good, Monitors, MemoryOK, Value
<1>2. o \in VMaps /\ DOMAIN o = {v}
  <2>1. s.new_value.trim < v
    BY <1>1
  <2>. QED
    BY <1>1, <2>1, OneMap
<1>. HIDE DEF o
<1>3. {v} # {} /\ {v} \subseteq DOMAIN o /\ {v} \subseteq s.last_committed + 1 .. v
  BY <1>1, <1>2
<1>4. Good(m, C, a) /\ SameTerm(s, a) /\ a.last_committed = Max({v})
  BY <1>1, <1>2, <1>3, LearnGood
<1>5. Max({v}) = v
  <2>1. {v} \subseteq v .. v /\ {v} # {}
    BY <1>1
  <2>. QED
    BY <1>1, <2>1, SetMax
<1>. QED
  BY <1>2, <1>4, <1>5 DEF o

\* commit_finish
LEMMA CommitFinishFine ==
  ASSUME NEW m \in Rank, NEW C, NEW s, Consistent(C), Good(m, C, s), IsWriting(s)
  PROVE  /\ Fine(m, C, s.epoch, CommitFinish(m, s))
         /\ CommitFinish(m, s).s.epoch = s.epoch /\ CommitFinish(m, s).s.role # "peon"
<1>. DEFINE v == s.last_committed + 1
            o == One(v, s.new_value)
            a == Learn(s, {v}, o)
            t == [a EXCEPT !.lease = FALSE, !.new_value = NoValue]
            msg == [Msg("COMMIT", s) EXCEPT !.pn = s.accepted_pn, !.lc = v, !.values = o]
            c == Sends(t, s.quorum \ {m}, msg)
            l == IF s.quorum = {m} THEN c ELSE Then(c, ExtendLease(m, t))
<1>1. CommitFinish(m, s) = IF NeedsBootstrap({v}, o) THEN [c EXCEPT !.s = Reset(t)]
                           ELSE Then(l, FinishRound(m, l.s))
  BY DEF CommitFinish
<1>2. /\ s \in Monitors /\ s.last_committed \in Nat /\ v \in Nat /\ s.accepted_pn \in Nat
      /\ s.new_value \in Value /\ s.new_value.trim <= s.last_committed /\ s.new_value.trim \in Nat
      /\ s.role = "leader" /\ s.state \in {"writing", "writing-previous"}
  BY DEF Good, Monitors, MemoryOK, IsWriting, Value
<1>3. o \in VMaps
  BY LearnNext
<1>4. Good(m, C, a) /\ SameTerm(s, a) /\ a.last_committed = v
  BY LearnNext
<1>. HIDE DEF a, o
<1>5. a \in Monitors /\ StoreOK(C, a) /\ MemoryOK(a) /\ LeaderOK(m, C, a) /\ OwnerOK(m, C, a)
  BY <1>4 DEF Good
<1>6. t \in Monitors
  <2>1. NoValue \in Value
    BY NoneTyped
  <2>. QED
    BY <1>5, <2>1 DEF Monitors
<1>7. /\ SameStore(a, t) /\ t.role = a.role /\ t.quorum = a.quorum /\ t.state = a.state
      /\ t.accepted_pn = a.accepted_pn /\ t.num_last = a.num_last /\ t.epoch = a.epoch
      /\ t.new_value = NoValue /\ t.uncommitted = a.uncommitted
  BY <1>5 DEF Monitors, SameStore
<1>. HIDE DEF t
<1>8. Good(m, C, t)
  <2>1. StoreOK(C, t) /\ OwnerOK(m, C, t) /\ LeaderOK(m, C, t)
    BY <1>5, <1>7 DEF StoreOK, OwnerOK, LeaderOK, SameStore
  <2>2. MemoryOK(t)
    BY <1>2, <1>4, <1>5, <1>7 DEF MemoryOK, SameStore, NoValue, IsWriting
  <2>. QED
    BY <1>6, <2>1, <2>2 DEF Good
<1>9. /\ t.epoch = s.epoch /\ t.role = "leader" /\ t.last_committed = v
      /\ t.accepted_pn = s.accepted_pn /\ t.num_last = s.num_last /\ t.quorum = s.quorum
  BY <1>2, <1>4, <1>7 DEF SameTerm, SameStore
<1>10. /\ N > 1 => t.num_last >= Cardinality(t.quorum)
       /\ N > 1 => \A d \in C : d.pn = t.accepted_pn => d.v <= t.last_committed
  BY <1>2, <1>9 DEF Good, LeaderOK
<1>11. Outs(m, C, s.epoch, c.out) /\ c.s = t
  <2>1. "COMMIT" \in Ops
    BY DEF Ops
  <2>2. Msg("COMMIT", s) \in Messages /\ Msg("COMMIT", s).epoch = s.epoch
        /\ Msg("COMMIT", s).op = "COMMIT"
    BY <1>2, <2>1, MsgTyped
  <2>3. msg \in Messages /\ msg.epoch = s.epoch /\ msg.op = "COMMIT"
    <3>. HIDE DEF v
    <3>. QED
      BY <1>2, <1>3, <2>2 DEF Messages
  <2>. HIDE DEF msg
  <2>4. \A d \in Rank : OutOK(m, d, C, s.epoch, msg)
    BY <2>3, PlainOut
  <2>5. c.s = t /\ c.out = SendTo(s.quorum \ {m}, msg)
    BY DEF Sends
  <2>. QED
    BY <2>3, <2>4, <2>5, SendOut
<1>12. CASE NeedsBootstrap({v}, o)
  <2>1. CommitFinish(m, s).s = Reset(t) /\ CommitFinish(m, s).out = c.out
    BY <1>1, <1>12 DEF Sends
  <2>2. Good(m, C, Reset(t)) /\ Reset(t).role = "out" /\ Reset(t).epoch = t.epoch
    BY <1>8, ResetGood
  <2>. QED
    BY <1>9, <1>11, <2>1, <2>2, PlainFine
<1>13. CASE ~NeedsBootstrap({v}, o)
  <2>1. /\ Outs(m, C, s.epoch, l.out) /\ Good(m, C, l.s) /\ l.s.epoch = s.epoch
        /\ SameStore(t, l.s) /\ SameRound(t, l.s)
    <3>1. CASE s.quorum = {m}
      <4>1. l = c
        BY <3>1
      <4>2. SameStore(t, t) /\ SameRound(t, t)
        BY <1>6 DEF SameStore, SameRound, Monitors
      <4>. HIDE DEF l, c
      <4>. QED
        BY <1>8, <1>9, <1>11, <4>1, <4>2
    <3>2. CASE s.quorum # {m}
      <4>. DEFINE x == ExtendLease(m, t)
      <4>1. l = Then(c, x)
        BY <3>2
      <4>2. /\ Outs(m, C, t.epoch, x.out) /\ Good(m, C, x.s)
            /\ SameStore(t, x.s) /\ SameRound(t, x.s) /\ x.s.epoch = t.epoch
        BY <1>8, ExtendLeaseFine
      <4>. HIDE DEF x, c, l
      <4>3. Outs(m, C, s.epoch, Then(c, x).out)
        BY <1>9, <1>11, <4>2, ThenOut
      <4>4. Then(c, x).s = x.s
        BY DEF Then
      <4>. QED
        BY <1>9, <4>1, <4>2, <4>3, <4>4
    <3>. QED
      BY <3>1, <3>2
  <2>. HIDE DEF l, c
  <2>2. N > 1 => l.s.num_last >= Cardinality(l.s.quorum)
    <3>1. Cardinality(t.quorum) \in Nat /\ t.num_last \in Nat /\ l.s.num_last \in Nat
      BY <1>6, <2>1, QuorumSize DEF Monitors, Good
    <3>. QED
      BY <1>9, <1>10, <2>1, <3>1 DEF SameRound
  <2>3. N > 1 => \A d \in C : d.pn = l.s.accepted_pn => d.v <= l.s.last_committed
    BY <1>10, <2>1 DEF SameRound, SameStore
  <2>4. l.s.role = "leader"
    BY <1>9, <2>1 DEF SameRound
  <2>5. /\ Fine(m, C, l.s.epoch, FinishRound(m, l.s))
        /\ FinishRound(m, l.s).s.epoch = l.s.epoch /\ FinishRound(m, l.s).s.role = "leader"
    BY <2>1, <2>2, <2>3, <2>4, FinishRoundFine
  <2>6. Fine(m, C, s.epoch, Then(l, FinishRound(m, l.s)))
    BY <2>1, <2>5, ThenPlain
  <2>7. Then(l, FinishRound(m, l.s)).s = FinishRound(m, l.s).s
    BY DEF Then
  <2>. QED
    BY <1>1, <1>13, <2>1, <2>5, <2>6, <2>7
<1>. QED
  BY <1>12, <1>13

\* A call returns a state and what it sent.
IsCall(r) == r = [s |-> r.s, out |-> r.out]

LEMMA CallMade ==
  /\ \A r, q : IsCall(Then(r, q))
  /\ \A s : IsCall(Done(s))
  /\ \A s, X, msg : IsCall(Sends(s, X, msg))
  /\ \A r, t : IsCall(r) => [r EXCEPT !.s = t] = [s |-> t, out |-> r.out]
<1>1. \A r, q : IsCall(Then(r, q))
  BY DEF IsCall, Then
<1>2. \A s : IsCall(Done(s))
  BY DEF IsCall, Done
<1>3. \A s, X, msg : IsCall(Sends(s, X, msg))
  BY DEF IsCall, Sends
<1>4. ASSUME NEW r, NEW t, IsCall(r)
      PROVE  [r EXCEPT !.s = t] = [s |-> t, out |-> r.out]
  <2>. DEFINE a == r.s
              b == r.out
  <2>1. r = [s |-> a, out |-> b]
    BY <1>4 DEF IsCall
  <2>2. b = r.out
    OBVIOUS
  <2>. HIDE DEF a, b
  <2>3. [[s |-> a, out |-> b] EXCEPT !.s = t] = [s |-> t, out |-> b]
    OBVIOUS
  <2>. QED
    BY <2>1, <2>2, <2>3
<1>. QED
  BY <1>1, <1>2, <1>3, <1>4

LEMMA CommitFinishCall == \A m, s : IsCall(CommitFinish(m, s))
<1>1. ASSUME NEW m, NEW s PROVE IsCall(CommitFinish(m, s))
  <2>. DEFINE v == s.last_committed + 1
              t == [Learn(s, {v}, One(v, s.new_value)) EXCEPT !.lease = FALSE,
                                                             !.new_value = NoValue]
              c == Sends(t, s.quorum \ {m},
                         [Msg("COMMIT", s) EXCEPT !.pn = s.accepted_pn, !.lc = v,
                                                  !.values = One(v, s.new_value)])
              l == IF s.quorum = {m} THEN c ELSE Then(c, ExtendLease(m, t))
  <2>1. CommitFinish(m, s) = IF NeedsBootstrap({v}, One(v, s.new_value))
                             THEN [c EXCEPT !.s = Reset(t)] ELSE Then(l, FinishRound(m, l.s))
    BY DEF CommitFinish
  <2>2. IsCall(c)
    BY CallMade
  <2>. HIDE DEF c, l, t
  <2>3. [c EXCEPT !.s = Reset(t)] = [s |-> Reset(t), out |-> c.out]
    BY <2>2, CallMade
  <2>4. IsCall([c EXCEPT !.s = Reset(t)])
    BY <2>3 DEF IsCall
  <2>5. IsCall(Then(l, FinishRound(m, l.s)))
    BY CallMade
  <2>. QED
    BY <2>1, <2>4, <2>5
<1>. QED
  BY <1>1

LEMMA WaitForPaxosWriteFine ==
  ASSUME NEW m \in Rank, NEW C, NEW s, Consistent(C), Good(m, C, s)
  PROVE  /\ Fine(m, C, s.epoch, WaitForPaxosWrite(m, s))
         /\ WaitForPaxosWrite(m, s).s.epoch = s.epoch
         /\ IsCall(WaitForPaxosWrite(m, s))
<1>. DEFINE f == IF IsWriting(s) THEN CommitFinish(m, s) ELSE Done(s)
<1>1. WaitForPaxosWrite(m, s) = IF IsWriting(f.s) THEN Then(f, CommitFinish(m, f.s)) ELSE f
  BY DEF WaitForPaxosWrite
<1>2. Fine(m, C, s.epoch, f) /\ f.s.epoch = s.epoch /\ IsCall(f)
  <2>1. CASE IsWriting(s)
    BY <2>1, CommitFinishFine, CommitFinishCall
  <2>2. CASE ~IsWriting(s)
    <3>1. f = Done(s) /\ Done(s).s = s
      BY <2>2 DEF Done
    <3>. QED
      BY <3>1, DoneFine, CallMade
  <2>. QED
    BY <2>1, <2>2
<1>. HIDE DEF f
<1>3. CASE IsWriting(f.s)
  <2>1. ASSUME NEW D, Consistent(D), Good(m, D, f.s)
        PROVE  /\ Fine(m, D, s.epoch, CommitFinish(m, f.s))
               /\ CommitFinish(m, f.s).s.epoch = s.epoch
    BY <1>2, <1>3, <2>1, CommitFinishFine
  <2>2. Fine(m, C, s.epoch, Then(f, CommitFinish(m, f.s)))
    BY <1>2, <2>1, ThenFine
  <2>3. PICK D : Consistent(D) /\ Good(m, D, f.s)
    BY <1>2 DEF Fine, Extends
  <2>4. Then(f, CommitFinish(m, f.s)).s = CommitFinish(m, f.s).s
    BY DEF Then
  <2>. QED
    BY <1>1, <1>3, <2>1, <2>2, <2>3, <2>4, CallMade
<1>4. CASE ~IsWriting(f.s)
  BY <1>1, <1>2, <1>4
<1>. QED
  BY <1>3, <1>4

LEMMA BootstrapFine ==
  ASSUME NEW m \in Rank, NEW C, NEW s, Consistent(C), Good(m, C, s)
  PROVE  /\ Fine(m, C, s.epoch, Bootstrap(m, s)) /\ IsCall(Bootstrap(m, s))
         /\ Bootstrap(m, s).s.epoch = s.epoch /\ Bootstrap(m, s).s.role = "out"
<1>. DEFINE w == WaitForPaxosWrite(m, s)
<1>1. Bootstrap(m, s) = [w EXCEPT !.s = Reset(w.s)]
  BY DEF Bootstrap
<1>2. Fine(m, C, s.epoch, w) /\ w.s.epoch = s.epoch /\ IsCall(w)
  BY WaitForPaxosWriteFine
<1>. HIDE DEF w
<1>3. Bootstrap(m, s) = [s |-> Reset(w.s), out |-> w.out]
  BY <1>1, <1>2, CallMade
<1>4. PICK D : Extends(m, C, D) /\ Good(m, D, w.s) /\ Outs(m, D, s.epoch, w.out)
  BY <1>2 DEF Fine
<1>5. Good(m, D, Reset(w.s)) /\ Reset(w.s).role = "out" /\ Reset(w.s).epoch = s.epoch
  BY <1>2, <1>4, ResetGood
<1>. QED
  BY <1>3, <1>4, <1>5 DEF Fine, IsCall

\* leader_init, after an election
LEMMA LeaderInitFine ==
  ASSUME NEW m \in Rank, NEW C, NEW s, Consistent(C), s \in Monitors,
         StoreOK(C, s), MemoryOK(s), OwnerOK(m, C, s),
         s.role = "leader", N > 1 => s.quorum # {m}
  PROVE  /\ Fine(m, C, s.epoch, LeaderInit(m, s))
         /\ LeaderInit(m, s).s.epoch = s.epoch /\ LeaderInit(m, s).s.role = "leader"
<1>. DEFINE t == [s EXCEPT !.events = {}, !.new_value = NoValue, !.pending = TRUE]
            a == [t EXCEPT !.state = "active"]
            b == [t EXCEPT !.lease = FALSE]
<1>1. LeaderInit(m, s) = IF s.quorum = {m} THEN Done(a) ELSE Collect(m, b, 0)
  BY DEF LeaderInit
<1>2. t \in Monitors
  <2>1. NoValue \in Value
    BY NoneTyped
  <2>. QED
    BY <2>1 DEF Monitors
<1>3. /\ SameStore(s, t) /\ t.role = "leader" /\ t.quorum = s.quorum
      /\ t.epoch = s.epoch /\ t.new_value = NoValue /\ t.uncommitted = s.uncommitted
  BY DEF Monitors, SameStore
<1>. HIDE DEF t
<1>4. a \in Monitors /\ b \in Monitors
  BY <1>2 DEF Monitors, States
<1>5. /\ SameStore(s, a) /\ a.role = "leader" /\ a.state = "active" /\ a.epoch = s.epoch
      /\ a.new_value = NoValue /\ a.uncommitted = s.uncommitted
  BY <1>2, <1>3 DEF Monitors, SameStore
<1>6. /\ SameStore(s, b) /\ b.role = "leader" /\ b.epoch = s.epoch
      /\ b.new_value = NoValue /\ b.uncommitted = s.uncommitted /\ b.quorum = s.quorum
  BY <1>2, <1>3 DEF Monitors, SameStore
<1>7. s.last_committed \in Nat
  BY DEF Monitors
<1>. HIDE DEF a, b
<1>8. CASE s.quorum = {m}
  <2>1. StoreOK(C, a) /\ OwnerOK(m, C, a)
    BY <1>5 DEF StoreOK, OwnerOK, SameStore
  <2>2. MemoryOK(a)
    BY <1>5, <1>7 DEF MemoryOK, SameStore, NoValue, IsWriting
  <2>3. LeaderOK(m, C, a)
    BY <1>8 DEF LeaderOK
  <2>4. Good(m, C, a)
    BY <1>4, <2>1, <2>2, <2>3 DEF Good
  <2>5. Fine(m, C, s.epoch, Done(a)) /\ Done(a).s = a
    BY <2>4, DoneFine DEF Done
  <2>. QED
    BY <1>1, <1>5, <1>8, <2>5
<1>9. CASE s.quorum # {m}
  <2>1. StoreOK(C, b) /\ OwnerOK(m, C, b)
    BY <1>6 DEF StoreOK, OwnerOK, SameStore
  <2>2. MemoryOK(b)
    BY <1>6, <1>7 DEF MemoryOK, SameStore, NoValue, IsWriting
  <2>3. /\ Fine(m, C, b.epoch, Collect(m, b, 0))
        /\ Collect(m, b, 0).s.epoch = b.epoch /\ Collect(m, b, 0).s.role = "leader"
    BY <1>4, <1>6, <1>9, <2>1, <2>2, CollectFine
  <2>. QED
    BY <1>1, <1>6, <1>9, <2>3
<1>. QED
  BY <1>8, <1>9

(***************************************************************************)
(* The handlers.                                                            *)
(***************************************************************************)

LEMMA RestrictedMap ==
  ASSUME NEW log \in VMaps, NEW V
  PROVE  /\ Restricted(log, V) \in VMaps
         /\ DOMAIN Restricted(log, V) = DOMAIN log \cap V
<1>1. DOMAIN log \cap V \subseteq DOMAIN log
  OBVIOUS
<1>. QED
  BY <1>1, SubMap DEF Restricted

LEMMA HandleCollectFine ==
  ASSUME NEW m \in Rank, NEW C, NEW s, NEW from \in Rank, NEW msg \in Messages,
         Consistent(C), Good(m, C, s), s.role # "leader"
  PROVE  /\ Fine(m, C, s.epoch, HandleCollect(m, s, from, msg))
         /\ Stays(s, HandleCollect(m, s, from, msg))
<1>. DEFINE t     == [s EXCEPT !.state = "recovering", !.events = @ \cup {"lease"}]
            newer == msg.pn > s.accepted_pn
            u     == [t EXCEPT !.accepted_pn = IF newer THEN msg.pn ELSE @,
                               !.stored_pn   = IF newer THEN msg.pn ELSE @]
            last  == [Msg("LAST", s) EXCEPT !.pn = u.accepted_pn,
                                            !.lc = s.last_committed,
                                            !.fc = s.first_committed]
            next  == s.last_committed + 1
            vals  == Restricted(s.log, msg.lc + 1 .. next)
            full  == [last EXCEPT !.values = vals,
                                  !.upn = IF Exists(s, next)
                                          THEN PendingPn(s, s.accepted_pn) ELSE 0]
            reply == IF msg.lc > s.last_committed THEN last ELSE full
<1>1. HandleCollect(m, s, from, msg) = IF msg.fc > next THEN Bootstrap(m, t)
                                       ELSE Sends(u, {from}, reply)
  BY DEF HandleCollect
<1>2. /\ s \in Monitors /\ s.last_committed \in Nat /\ s.first_committed \in Nat
      /\ s.log \in VMaps /\ s.accepted_pn \in Nat /\ s.pending_pn \in Nat
  BY DEF Good, Monitors
<1>3. msg.pn \in Nat /\ msg.lc \in Nat /\ msg.fc \in Nat
  BY DEF Messages
<1>4. t \in Monitors
  BY <1>2 DEF Monitors, States, Events
<1>5. /\ SameStore(s, t) /\ t.role = s.role /\ t.epoch = s.epoch /\ t.state = "recovering"
      /\ t.new_value = s.new_value /\ t.uncommitted = s.uncommitted
  BY <1>2 DEF Monitors, SameStore
<1>. HIDE DEF t
<1>6. u \in Monitors
  BY <1>3, <1>4 DEF Monitors
<1>7. /\ SameStore(s, u) /\ u.role = s.role /\ u.epoch = s.epoch /\ u.state = "recovering"
      /\ u.new_value = s.new_value /\ u.uncommitted = s.uncommitted
  BY <1>4, <1>5 DEF Monitors, SameStore
<1>. HIDE DEF u
<1>8. Good(m, C, t) /\ Good(m, C, u)
  <2>1. ~IsWriting(t) /\ ~IsWriting(u)
    BY <1>5, <1>7 DEF IsWriting
  <2>. QED
    BY <1>4, <1>5, <1>6, <1>7, <2>1, GoodFollower
<1>9. last \in Messages /\ last.op = "LAST" /\ last.epoch = s.epoch /\ last.upn = 0
      /\ last.lc = s.last_committed
  <2>1. "LAST" \in Ops
    BY DEF Ops
  <2>2. Msg("LAST", s) \in Messages /\ Msg("LAST", s).epoch = s.epoch
        /\ Msg("LAST", s).op = "LAST" /\ Msg("LAST", s).upn = 0
    BY <1>2, <2>1, MsgTyped
  <2>3. u.accepted_pn \in Nat
    BY <1>6 DEF Monitors
  <2>. QED
    BY <1>2, <2>2, <2>3 DEF Messages
<1>. HIDE DEF last
<1>10. vals \in VMaps /\ DOMAIN vals = DOMAIN s.log \cap (msg.lc + 1 .. next)
  BY <1>2, RestrictedMap
<1>11. PendingPn(s, s.accepted_pn) \in Nat
  BY <1>2 DEF PendingPn
<1>. HIDE DEF vals
<1>12. /\ full \in Messages /\ full.op = "LAST" /\ full.epoch = s.epoch
       /\ full.lc = s.last_committed /\ full.values = vals
       /\ full.upn = IF Exists(s, next) THEN PendingPn(s, s.accepted_pn) ELSE 0
  BY <1>9, <1>10, <1>11 DEF Messages
<1>. HIDE DEF full
<1>13. OutOK(m, from, C, s.epoch, last)
  BY <1>9 DEF OutOK, MsgOK
<1>14. msg.lc <= s.last_committed => OutOK(m, from, C, s.epoch, full)
  <2>1. SUFFICES ASSUME msg.lc <= s.last_committed
                 PROVE  full.upn > 0 => full.lc + 1 \in DOMAIN full.values
    BY <1>12 DEF OutOK, MsgOK
  <2>2. Exists(s, next) => next \in DOMAIN vals
    BY <1>2, <1>3, <1>10, <2>1 DEF Exists
  <2>. QED
    BY <1>12, <2>2
<1>15. reply \in Messages /\ OutOK(m, from, C, s.epoch, reply)
  BY <1>2, <1>3, <1>9, <1>12, <1>13, <1>14
<1>16. reply.op = "LAST"
  BY <1>9, <1>12
<1>. HIDE DEF reply
<1>17. /\ Fine(m, C, s.epoch, Sends(u, {from}, reply)) /\ Sends(u, {from}, reply).s = u
       /\ Quiet(Sends(u, {from}, reply).out)
  BY <1>8, <1>15, <1>16, SendsFine, SendQuiet DEF Sends
<1>18. /\ Fine(m, C, t.epoch, Bootstrap(m, t)) /\ Bootstrap(m, t).s.epoch = t.epoch
       /\ Bootstrap(m, t).s.role = "out"
  BY <1>8, BootstrapFine
<1>. QED
  BY <1>1, <1>5, <1>7, <1>17, <1>18 DEF Stays

\* handle_last: everyone has answered
LEMMA RecoveredFine ==
  ASSUME NEW m \in Rank, NEW C, NEW s, NEW refreshed, Consistent(C), Good(m, C, s),
         s.role = "leader", N > 1 => s.state = "recovering",
         N > 1 => s.num_last >= Cardinality(s.quorum)
  PROVE  /\ Fine(m, C, s.epoch, Recovered(m, s, refreshed))
         /\ Recovered(m, s, refreshed).s.epoch = s.epoch
         /\ Recovered(m, s, refreshed).s.role = "leader"
<1>. DEFINE t == [s EXCEPT !.events = @ \ {"collect"}, !.peer_lc = <<>>]
            l == ExtendLease(m, t)
            x == t.uncommitted.value
<1>1. Recovered(m, s, refreshed) =
        IF t.uncommitted.v = t.last_committed + 1 THEN Begin(m, t, x, "updating-previous")
        ELSE IF refreshed THEN Then(l, FinishRound(m, l.s)) ELSE l
  BY DEF Recovered
<1>2. s \in Monitors /\ s.num_last \in Nat
  BY DEF Good, Monitors
<1>3. t \in Monitors
  BY <1>2, EmptyMaps DEF Monitors
<1>4. SameStore(s, t) /\ SameRound(s, t) /\ t.epoch = s.epoch /\ t.num_last = s.num_last
  BY <1>2 DEF Monitors, SameStore, SameRound
<1>. HIDE DEF t
<1>5. Good(m, C, t)
  BY <1>3, <1>4, GoodKept
<1>6. /\ t.role = "leader" /\ N > 1 => t.state = "recovering"
  BY <1>4 DEF SameRound
<1>7. t.role = "leader" /\ t.epoch = s.epoch
  BY <1>4 DEF SameRound
<1>8. N > 1 => t.num_last >= Cardinality(t.quorum)
  BY <1>4 DEF SameRound
<1>9. N > 1 => \A c \in C : c.pn = t.accepted_pn => c.v <= t.last_committed
  <2>1. t.last_committed \in Nat
    BY <1>3 DEF Monitors
  <2>. QED
    BY <1>5, <1>6, <1>7, <2>1 DEF Good, LeaderOK
<1>10. CASE t.uncommitted.v = t.last_committed + 1
  <2>1. /\ x \in Value /\ t.last_committed \in Nat /\ x.trim \in Nat
        /\ t.uncommitted.v > 0 => x.trim < t.uncommitted.v
    BY <1>3, <1>5 DEF Good, MemoryOK, Monitors, Value
  <2>2. x.trim <= t.last_committed
    BY <1>10, <2>1
  <2>3. /\ Fine(m, C, t.epoch, Begin(m, t, x, "updating-previous"))
        /\ Begin(m, t, x, "updating-previous").s.epoch = t.epoch
        /\ Begin(m, t, x, "updating-previous").s.role = "leader"
    <3>. HIDE DEF x
    <3>. QED
      BY <1>5, <1>6, <1>7, <1>8, <2>1, <2>2, BeginFine
  <2>. QED
    BY <1>1, <1>7, <1>10, <2>3
<1>11. CASE t.uncommitted.v # t.last_committed + 1
  <2>1. /\ Outs(m, C, t.epoch, l.out) /\ Good(m, C, l.s) /\ l.s.epoch = t.epoch
        /\ SameStore(t, l.s) /\ SameRound(t, l.s)
    BY <1>5, ExtendLeaseFine
  <2>. HIDE DEF l
  <2>2. N > 1 => l.s.num_last >= Cardinality(l.s.quorum)
    <3>1. Cardinality(t.quorum) \in Nat /\ t.num_last \in Nat /\ l.s.num_last \in Nat
      BY <1>3, <2>1, QuorumSize DEF Monitors, Good
    <3>. QED
      BY <1>8, <2>1, <3>1 DEF SameRound
  <2>3. N > 1 => \A c \in C : c.pn = l.s.accepted_pn => c.v <= l.s.last_committed
    BY <1>9, <2>1 DEF SameRound, SameStore
  <2>4. l.s.role = "leader"
    BY <1>7, <2>1 DEF SameRound
  <2>5. /\ Fine(m, C, l.s.epoch, FinishRound(m, l.s))
        /\ FinishRound(m, l.s).s.epoch = l.s.epoch /\ FinishRound(m, l.s).s.role = "leader"
    BY <2>1, <2>2, <2>3, <2>4, FinishRoundFine
  <2>6. Fine(m, C, s.epoch, Then(l, FinishRound(m, l.s)))
    BY <1>7, <2>1, <2>5, ThenPlain
  <2>7. Then(l, FinishRound(m, l.s)).s = FinishRound(m, l.s).s
    BY DEF Then
  <2>8. Fine(m, C, s.epoch, l)
    BY <1>7, <2>1, PlainFine
  <2>. QED
    BY <1>1, <1>7, <1>11, <2>1, <2>4, <2>5, <2>6, <2>7, <2>8
<1>. QED
  BY <1>10, <1>11

LEMMA ShareCommitsOut ==
  ASSUME NEW m, NEW C, NEW s \in Monitors
  PROVE  ShareCommits(s).s = s /\ Outs(m, C, s.epoch, ShareCommits(s).out)
<1>. DEFINE out == ShareCommits(s).out
            cm(d) == Share(s, Msg("COMMIT", s), s.peer_lc[d])
<1>1. ShareCommits(s).s = s
  BY DEF ShareCommits
<1>2. ASSUME NEW d \in Rank
      PROVE  out[d] = <<cm(d)>> \/ out[d] = <<>>
  BY DEF ShareCommits
<1>3. out = [d \in Rank |-> out[d]]
  BY DEF ShareCommits
<1>4. ASSUME NEW d \in Rank
      PROVE  cm(d) \in Messages /\ cm(d).epoch = s.epoch /\ cm(d).op = "COMMIT"
  <2>. DEFINE vals == Restricted(s.log, s.peer_lc[d] + 1 .. s.last_committed)
  <2>1. "COMMIT" \in Ops
    BY DEF Ops
  <2>2. Msg("COMMIT", s) \in Messages /\ Msg("COMMIT", s).epoch = s.epoch
        /\ Msg("COMMIT", s).op = "COMMIT"
    BY <2>1, MsgTyped
  <2>3. s.log \in VMaps /\ s.last_committed \in Nat
    BY DEF Monitors
  <2>4. vals \in VMaps
    BY <2>3, RestrictedMap
  <2>5. cm(d) = [Msg("COMMIT", s) EXCEPT !.values = vals, !.lc = s.last_committed]
    BY DEF Share
  <2>. HIDE DEF vals, cm
  <2>. QED
    BY <2>2, <2>3, <2>4, <2>5 DEF Messages
<1>. HIDE DEF out, cm
<1>5. out \in [Rank -> Seq(Messages)]
  <2>1. ASSUME NEW d \in Rank PROVE out[d] \in Seq(Messages)
    <3>1. <<>> \in Seq(Messages) /\ <<cm(d)>> \in Seq(Messages)
      BY <1>4
    <3>. QED
      BY <1>2, <3>1
  <2>. QED
    BY <1>3, <2>1
<1>6. ASSUME NEW d \in Rank, NEW i \in 1 .. Len(out[d])
      PROVE  OutOK(m, d, C, s.epoch, out[d][i])
  <2>1. CASE out[d] = <<>>
    BY <2>1
  <2>2. CASE out[d] = <<cm(d)>>
    <3>1. i = 1 /\ out[d][i] = cm(d)
      BY <2>2
    <3>. QED
      BY <1>4, <3>1, PlainOut
  <2>. QED
    BY <1>2, <2>1, <2>2
<1>. QED
  BY <1>1, <1>5, <1>6 DEF Outs, out


LEMMA LearnUncommittedGood ==
  ASSUME NEW m, NEW D, NEW s, NEW x, NEW d, Good(m, D, s), NEW msg \in Messages,
         MsgOK(x, d, D, msg), msg.op = "LAST"
  PROVE  /\ Good(m, D, LearnUncommitted(s, msg))
         /\ SameTerm(s, LearnUncommitted(s, msg))
<1>. DEFINE v == msg.lc + 1
            un == [v |-> v, pn |-> msg.upn, value |-> msg.values[v]]
            t == [s EXCEPT !.uncommitted = un]
<1>0. /\ s \in Monitors /\ StoreOK(D, s) /\ MemoryOK(s) /\ LeaderOK(m, D, s) /\ OwnerOK(m, D, s)
      /\ s.last_committed \in Nat
  BY DEF Good, Monitors
<1>1. CASE LearnUncommitted(s, msg) = s
  BY <1>0, <1>1 DEF SameTerm
<1>2. CASE LearnUncommitted(s, msg) # s
  <2>1. LearnUncommitted(s, msg) = t /\ msg.upn > 0
    BY <1>2 DEF LearnUncommitted
  <2>2. v \in DOMAIN msg.values /\ msg.values \in VMaps /\ msg.lc \in Nat /\ msg.upn \in Nat
    BY <2>1 DEF MsgOK, Messages
  <2>3. v \in Nat /\ msg.values[v] \in Value /\ msg.values[v].trim < v
    BY <2>2, VMapsDef
  <2>4. un \in [v: Nat, pn: Nat, value: Value] /\ un.value.trim < un.v
    <3>. HIDE DEF v
    <3>. QED
      BY <2>2, <2>3
  <2>. HIDE DEF un
  <2>5. t \in Monitors /\ t.uncommitted = un
    BY <1>0, <2>4 DEF Monitors
  <2>6. /\ SameStore(s, t) /\ t.role = s.role /\ t.quorum = s.quorum /\ t.state = s.state
        /\ t.accepted_pn = s.accepted_pn /\ t.num_last = s.num_last
        /\ t.new_value = s.new_value /\ t.epoch = s.epoch
    BY <1>0 DEF Monitors, SameStore
  <2>. HIDE DEF t
  <2>7. StoreOK(D, t) /\ OwnerOK(m, D, t) /\ LeaderOK(m, D, t)
    BY <1>0, <2>6 DEF StoreOK, OwnerOK, LeaderOK, SameStore
  <2>8. MemoryOK(t)
    BY <1>0, <2>4, <2>5, <2>6 DEF MemoryOK, SameStore, IsWriting
  <2>9. SameTerm(s, t)
    BY <1>0, <2>6 DEF SameTerm, SameStore
  <2>. QED
    BY <2>1, <2>5, <2>7, <2>8, <2>9 DEF Good
<1>. QED
  BY <1>1, <1>2

LEMMA HandleLastFine ==
  ASSUME NEW m \in Rank, NEW C, NEW s, NEW from \in Rank, NEW msg \in Messages,
         Consistent(C), Good(m, C, s), MsgOK(from, m, C, msg), msg.op = "LAST"
  PROVE  /\ Fine(m, C, s.epoch, HandleLast(m, s, from, msg))
         /\ Stays(s, HandleLast(m, s, from, msg))
<1>. DEFINE heard == [s EXCEPT !.peer_lc = Over(One(from, msg.lc), @)]
            W     == News(s, msg)
            remap == NeedsBootstrap(W, msg.values)
            st    == StoreState(heard, msg)
            c     == ShareCommits(st)
            nc    == [c.s EXCEPT !.events = @ \ {"collect"}]
            again == Collect(m, nc, msg.pn)
            n     == [c.s EXCEPT !.num_last = @ + 1]
            t     == LearnUncommitted(n, msg)
            r     == IF msg.pn > s.accepted_pn THEN Then(c, again)
                     ELSE IF msg.pn < s.accepted_pn THEN c
                     ELSE IF t.num_last = Cardinality(s.quorum)
                          THEN Then(c, Recovered(m, t, ~remap))
                     ELSE [c EXCEPT !.s = t]
            h     == HandleLast(m, s, from, msg)
<1>1. h = IF s.role # "leader" THEN Done(s)
          ELSE IF msg.fc > s.last_committed + 1 THEN Bootstrap(m, heard)
          ELSE IF TooLow(c.s) # {} THEN Then(c, Bootstrap(m, c.s))
          ELSE IF remap THEN Then(r, Bootstrap(m, r.s))
          ELSE r
  BY DEF HandleLast
<1>. HIDE DEF remap, h
<1>2. s \in Monitors /\ s.num_last \in Nat
  BY DEF Good, Monitors
<1>3. CASE s.role # "leader"
  <2>1. h = Done(s) /\ Done(s).s = s
    BY <1>1, <1>3 DEF Done
  <2>. QED
    BY <2>1, DoneFine, DoneStays DEF h
<1>4. CASE s.role = "leader"
  <2>1. heard \in Monitors
    <3>1. Over(One(from, msg.lc), s.peer_lc) \in PeerMaps
      <4>1. msg.lc \in Nat /\ s.peer_lc \in PeerMaps
        BY <1>2 DEF Messages, Monitors
      <4>. QED
        BY <4>1, PeerMapsDef DEF Over, One
    <3>. QED
      BY <1>2, <3>1 DEF Monitors
  <2>2. SameStore(s, heard) /\ SameRound(s, heard) /\ heard.epoch = s.epoch
        /\ heard.num_last = s.num_last
    BY <1>2 DEF Monitors, SameStore, SameRound
  <2>. HIDE DEF heard
  <2>3. Good(m, C, heard)
    BY <2>1, <2>2, GoodKept
  <2>4. Good(m, C, st) /\ SameTerm(heard, st)
    BY <2>3, StoreStateGood
  <2>. HIDE DEF st
  <2>5. st \in Monitors /\ st.num_last \in Nat
    BY <2>4 DEF Good, Monitors
  <2>6. /\ st.epoch = s.epoch /\ st.role = "leader" /\ st.quorum = s.quorum
        /\ st.state = s.state /\ st.num_last = s.num_last
    BY <1>4, <2>2, <2>4 DEF SameTerm, SameRound
  <2>7. c.s = st /\ Outs(m, C, s.epoch, c.out)
    BY <2>5, <2>6, ShareCommitsOut
  <2>8. IsCall(c)
    BY DEF ShareCommits, IsCall
  <2>. HIDE DEF c
  <2>9. Fine(m, C, s.epoch, c)
    BY <2>4, <2>7, PlainFine
  <2>10. /\ nc \in Monitors /\ SameStore(st, nc) /\ SameRound(st, nc) /\ nc.epoch = s.epoch
    BY <2>5, <2>6, <2>7 DEF Monitors, SameStore, SameRound
  <2>11. /\ n \in Monitors /\ SameStore(st, n) /\ SameRound(st, n) /\ n.epoch = s.epoch
         /\ n.num_last = s.num_last + 1
    BY <2>5, <2>6, <2>7 DEF Monitors, SameStore, SameRound
  <2>. HIDE DEF nc, n
  <2>12. Good(m, C, nc) /\ Good(m, C, n)
    BY <2>4, <2>10, <2>11, GoodKept
  <2>13. Fine(m, C, s.epoch, again) /\ again.s.epoch = s.epoch /\ again.s.role = "leader"
    <3>1. nc.role = "leader" /\ msg.pn \in Nat
      BY <2>6, <2>10 DEF SameRound, Messages
    <3>2. N > 1 => nc.quorum # {m}
      BY <2>12, <3>1 DEF Good, LeaderOK
    <3>3. StoreOK(C, nc) /\ MemoryOK(nc) /\ OwnerOK(m, C, nc)
      BY <2>12 DEF Good
    <3>4. /\ Fine(m, C, nc.epoch, Collect(m, nc, msg.pn))
          /\ Collect(m, nc, msg.pn).s.epoch = nc.epoch
          /\ Collect(m, nc, msg.pn).s.role = "leader"
      BY <2>10, <3>1, <3>2, <3>3, CollectFine
    <3>. QED
      BY <2>10, <3>4
  <2>14. Good(m, C, t) /\ SameTerm(n, t)
    BY <2>12, LearnUncommittedGood
  <2>. HIDE DEF again, t
  <2>15. /\ t.epoch = s.epoch /\ t.role = "leader" /\ t.quorum = s.quorum
         /\ t.state = s.state /\ t.num_last = s.num_last + 1
    BY <2>6, <2>11, <2>14 DEF SameTerm, SameRound
  <2>16. Fine(m, C, s.epoch, r) /\ r.s.epoch = s.epoch /\ r.s.role = "leader"
    <3>1. CASE msg.pn > s.accepted_pn
      <4>1. r = Then(c, again) /\ Then(c, again).s = again.s
        BY <3>1 DEF Then
      <4>. HIDE DEF r
      <4>. QED
        BY <2>7, <2>13, <4>1, ThenPlain
    <3>2. CASE ~(msg.pn > s.accepted_pn) /\ msg.pn < s.accepted_pn
      <4>1. r = c
        BY <3>2
      <4>. HIDE DEF r
      <4>. QED
        BY <2>6, <2>7, <2>9, <4>1
    <3>3. CASE /\ ~(msg.pn > s.accepted_pn) /\ ~(msg.pn < s.accepted_pn)
               /\ t.num_last = Cardinality(s.quorum)
      <4>1. r = Then(c, Recovered(m, t, ~remap))
            /\ Then(c, Recovered(m, t, ~remap)).s = Recovered(m, t, ~remap).s
        BY <3>3 DEF Then
      <4>2. N > 1 => t.state = "recovering"
        <5>1. N > 1 /\ s.state # "recovering" => s.num_last >= Cardinality(s.quorum)
          BY <1>4 DEF Good, LeaderOK
        <5>. QED
          BY <1>2, <2>15, <3>3, <5>1
      <4>3. t.num_last >= Cardinality(t.quorum)
        BY <1>2, <2>15, <3>3
      <4>4. /\ Fine(m, C, t.epoch, Recovered(m, t, ~remap))
            /\ Recovered(m, t, ~remap).s.epoch = t.epoch
            /\ Recovered(m, t, ~remap).s.role = "leader"
        BY <2>14, <2>15, <4>2, <4>3, RecoveredFine
      <4>. HIDE DEF r
      <4>. QED
        BY <2>7, <2>15, <4>1, <4>4, ThenPlain
    <3>4. CASE /\ ~(msg.pn > s.accepted_pn) /\ ~(msg.pn < s.accepted_pn)
               /\ t.num_last # Cardinality(s.quorum)
      <4>1. r = [c EXCEPT !.s = t]
        BY <3>4
      <4>2. r = [s |-> t, out |-> c.out]
        BY <2>8, <4>1, CallMade
      <4>3. r.s = t /\ r.out = c.out
        BY <4>2
      <4>. HIDE DEF r
      <4>. QED
        BY <2>7, <2>14, <2>15, <4>3, PlainFine
    <3>. QED
      BY <3>1, <3>2, <3>3, <3>4
  <2>. HIDE DEF r
  <2>17. CASE msg.fc > s.last_committed + 1
    <3>1. h = Bootstrap(m, heard)
      BY <1>1, <1>4, <2>17
    <3>2. /\ Fine(m, C, heard.epoch, Bootstrap(m, heard))
          /\ Bootstrap(m, heard).s.epoch = heard.epoch /\ Bootstrap(m, heard).s.role = "out"
      BY <2>3, BootstrapFine
    <3>. QED
      BY <2>2, <3>1, <3>2 DEF Stays, h
  <2>18. CASE ~(msg.fc > s.last_committed + 1) /\ TooLow(c.s) # {}
    <3>1. h = Then(c, Bootstrap(m, c.s)) /\ Then(c, Bootstrap(m, c.s)).s = Bootstrap(m, c.s).s
      BY <1>1, <1>4, <2>18 DEF Then
    <3>2. /\ Fine(m, C, st.epoch, Bootstrap(m, st))
          /\ Bootstrap(m, st).s.epoch = st.epoch /\ Bootstrap(m, st).s.role = "out"
      BY <2>4, BootstrapFine
    <3>3. Fine(m, C, s.epoch, Then(c, Bootstrap(m, st)))
      BY <2>6, <2>7, <3>2, ThenPlain
    <3>. QED
      BY <2>6, <2>7, <3>1, <3>2, <3>3 DEF Stays, h
  <2>19. CASE ~(msg.fc > s.last_committed + 1) /\ TooLow(c.s) = {} /\ remap
    <3>1. h = Then(r, Bootstrap(m, r.s)) /\ Then(r, Bootstrap(m, r.s)).s = Bootstrap(m, r.s).s
      BY <1>1, <1>4, <2>19 DEF Then
    <3>2. ASSUME NEW D, Consistent(D), Good(m, D, r.s)
          PROVE  /\ Fine(m, D, s.epoch, Bootstrap(m, r.s))
                 /\ Bootstrap(m, r.s).s.epoch = s.epoch /\ Bootstrap(m, r.s).s.role = "out"
      BY <2>16, <3>2, BootstrapFine
    <3>3. Fine(m, C, s.epoch, Then(r, Bootstrap(m, r.s)))
      BY <2>16, <3>2, ThenFine
    <3>4. PICK D : Consistent(D) /\ Good(m, D, r.s)
      BY <2>16 DEF Fine, Extends
    <3>. QED
      BY <3>1, <3>2, <3>3, <3>4 DEF Stays, h
  <2>20. CASE ~(msg.fc > s.last_committed + 1) /\ TooLow(c.s) = {} /\ ~remap
    <3>1. h = r
      BY <1>1, <1>4, <2>20
    <3>. QED
      BY <1>4, <2>16, <3>1 DEF Stays, h
  <2>. QED
    BY <2>17, <2>18, <2>19, <2>20
<1>. QED
  BY <1>3, <1>4

\* handle_commit, of a peon
LEMMA HandleCommitFine ==
  ASSUME NEW m \in Rank, NEW C, NEW s, NEW from \in Rank, NEW msg \in Messages,
         Consistent(C), Good(m, C, s)
  PROVE  /\ Fine(m, C, s.epoch, HandleCommit(m, s, from, msg))
         /\ Stays(s, HandleCommit(m, s, from, msg))
<1>. DEFINE t == StoreState(s, msg)
<1>1. HandleCommit(m, s, from, msg) = IF NeedsBootstrap(News(s, msg), msg.values)
                                      THEN Bootstrap(m, t) ELSE Done(t)
  BY DEF HandleCommit
<1>2. Good(m, C, t) /\ t.epoch = s.epoch /\ t.role = s.role
  BY StoreStateGood DEF SameTerm
<1>. HIDE DEF t
<1>3. /\ Fine(m, C, t.epoch, Bootstrap(m, t)) /\ Bootstrap(m, t).s.epoch = t.epoch
      /\ Bootstrap(m, t).s.role = "out"
  BY <1>2, BootstrapFine
<1>4. Fine(m, C, t.epoch, Done(t)) /\ Stays(t, Done(t))
  BY <1>2, DoneFine, DoneStays
<1>. QED
  BY <1>1, <1>2, <1>3, <1>4 DEF Stays

LEMMA HandleLeaseFine ==
  ASSUME NEW m \in Rank, NEW C, NEW s, NEW from \in Rank, NEW msg,
         Consistent(C), Good(m, C, s)
  PROVE  /\ Fine(m, C, s.epoch, HandleLease(m, s, from, msg))
         /\ Stays(s, HandleLease(m, s, from, msg))
<1>. DEFINE t == [s EXCEPT !.lease = TRUE, !.state = "active", !.events = @ \cup {"lease"}]
            ack == [Msg("LEASE_ACK", s) EXCEPT !.lc = s.last_committed, !.fc = s.first_committed]
            h == HandleLease(m, s, from, msg)
<1>1. CASE h = Done(s)
  BY <1>1, DoneFine, DoneStays
<1>2. CASE h # Done(s)
  <2>1. h = Sends(t, {from}, ack) /\ s.role = "peon"
    BY <1>2 DEF HandleLease
  <2>2. s \in Monitors /\ s.last_committed \in Nat /\ s.first_committed \in Nat
    BY DEF Good, Monitors
  <2>3. t \in Monitors
    BY <2>2 DEF Monitors, States, Events
  <2>4. /\ SameStore(s, t) /\ t.role = s.role /\ t.epoch = s.epoch /\ t.state = "active"
        /\ t.new_value = s.new_value /\ t.uncommitted = s.uncommitted
    BY <2>2 DEF Monitors, SameStore
  <2>. HIDE DEF t
  <2>5. Good(m, C, t)
    <3>1. ~IsWriting(t)
      BY <2>4 DEF IsWriting
    <3>. QED
      BY <2>1, <2>3, <2>4, <3>1, GoodFollower
  <2>6. ack \in Messages /\ ack.epoch = s.epoch /\ ack.op = "LEASE_ACK"
    <3>1. "LEASE_ACK" \in Ops
      BY DEF Ops
    <3>2. Msg("LEASE_ACK", s) \in Messages /\ Msg("LEASE_ACK", s).epoch = s.epoch
          /\ Msg("LEASE_ACK", s).op = "LEASE_ACK"
      BY <2>2, <3>1, MsgTyped
    <3>. QED
      BY <2>2, <3>2 DEF Messages
  <2>. HIDE DEF ack
  <2>7. \A d \in Rank : OutOK(m, d, C, s.epoch, ack)
    BY <2>6, PlainOut
  <2>8. Fine(m, C, s.epoch, Sends(t, {from}, ack))
    BY <2>5, <2>6, <2>7, SendsFine
  <2>9. Sends(t, {from}, ack).s = t /\ Quiet(Sends(t, {from}, ack).out)
    BY <2>6, SendQuiet DEF Sends
  <2>. HIDE DEF h
  <2>. QED
    BY <2>1, <2>4, <2>8, <2>9 DEF Stays, h
<1>. QED
  BY <1>1, <1>2

LEMMA HandleLeaseAckFine ==
  ASSUME NEW m \in Rank, NEW C, NEW s, NEW from \in Rank, NEW msg,
         Consistent(C), Good(m, C, s)
  PROVE  /\ Fine(m, C, s.epoch, HandleLeaseAck(m, s, from, msg))
         /\ Stays(s, HandleLeaseAck(m, s, from, msg))
<1>. DEFINE t == [s EXCEPT !.acked_lease = @ \cup {from}]
            u == [t EXCEPT !.events = @ \ {"lease_ack"}]
<1>1. HandleLeaseAck(m, s, from, msg) \in {Done(s), Done(t), Done(u)}
  BY DEF HandleLeaseAck
<1>2. s \in Monitors /\ s.num_last \in Nat
  BY DEF Good, Monitors
<1>3. t \in Monitors /\ SameStore(s, t) /\ SameRound(s, t) /\ t.epoch = s.epoch
  BY <1>2 DEF Monitors, SameStore, SameRound
<1>. HIDE DEF t
<1>4. u \in Monitors /\ SameStore(t, u) /\ SameRound(t, u) /\ u.epoch = s.epoch
  BY <1>3 DEF Monitors, SameStore, SameRound
<1>. HIDE DEF u
<1>5. Good(m, C, t) /\ Good(m, C, u) /\ t.role = s.role /\ u.role = s.role
  <2>1. Good(m, C, t)
    BY <1>3, GoodKept
  <2>2. Good(m, C, u)
    BY <1>4, <2>1, GoodKept
  <2>. QED
    BY <1>3, <1>4, <2>1, <2>2 DEF SameRound
<1>6. /\ Fine(m, C, s.epoch, Done(s)) /\ Stays(s, Done(s))
      /\ Fine(m, C, s.epoch, Done(t)) /\ Stays(t, Done(t))
      /\ Fine(m, C, s.epoch, Done(u)) /\ Stays(u, Done(u))
  BY <1>5, DoneFine, DoneStays
<1>7. Stays(s, Done(t)) /\ Stays(s, Done(u))
  BY <1>3, <1>4, <1>5, <1>6 DEF Stays
<1>. QED
  BY <1>1, <1>6, <1>7

\* handle_accept, of a leader: a round that everyone has accepted is written.
LEMMA HandleAcceptFine ==
  ASSUME NEW m \in Rank, NEW C, NEW s, NEW from \in Rank, NEW msg \in Messages,
         Consistent(C), Good(m, C, s), s.role = "leader", msg.op = "ACCEPT",
         Asserted(s, from, msg)
  PROVE  /\ Fine(m, C, s.epoch, HandleAccept(m, s, from, msg))
         /\ Stays(s, HandleAccept(m, s, from, msg))
<1>. DEFINE t == [s EXCEPT !.accepted = @ \cup {from}]
            u == CommitStart(t)
            h == HandleAccept(m, s, from, msg)
<1>1. s \in Monitors /\ s.num_last \in Nat
  BY DEF Good, Monitors
<1>2. t \in Monitors /\ SameStore(s, t) /\ SameRound(s, t) /\ t.epoch = s.epoch
  BY <1>1 DEF Monitors, SameStore, SameRound
<1>3. h = Done(s) \/ h = Done(t) \/
      (h = Done(u) /\ ~(msg.pn # s.accepted_pn \/ msg.lc < s.last_committed - 1))
  BY DEF HandleAccept
<1>. HIDE DEF t
<1>4. Good(m, C, t) /\ t.role = "leader" /\ t.state = s.state
  BY <1>2, GoodKept DEF SameRound
<1>5. CASE h = Done(s)
  BY <1>5, DoneFine, DoneStays
<1>6. CASE h = Done(t)
  <2>1. Fine(m, C, s.epoch, Done(t)) /\ Stays(t, Done(t))
    BY <1>4, DoneFine, DoneStays
  <2>. QED
    BY <1>2, <1>4, <1>6, <2>1 DEF Stays
<1>7. CASE h = Done(u) /\ ~(msg.pn # s.accepted_pn \/ msg.lc < s.last_committed - 1)
  <2>1. s.state \in {"updating", "updating-previous"}
    BY <1>7 DEF Asserted
  <2>2. u \in Monitors
    BY <1>2 DEF CommitStart, Monitors, States
  <2>3. /\ SameStore(t, u) /\ u.role = t.role /\ u.quorum = t.quorum /\ u.epoch = t.epoch
        /\ u.accepted_pn = t.accepted_pn /\ u.num_last = t.num_last
        /\ u.new_value = t.new_value /\ u.uncommitted = t.uncommitted
        /\ u.state \in {"writing", "writing-previous"}
    BY <1>2 DEF CommitStart, Monitors, SameStore
  <2>. HIDE DEF u, h
  <2>4. StoreOK(C, u) /\ OwnerOK(m, C, u)
    BY <1>4, <2>3 DEF Good, StoreOK, OwnerOK, SameStore
  <2>5. MemoryOK(u)
    BY <1>4, <2>3 DEF Good, MemoryOK, SameStore
  <2>6. LeaderOK(m, C, u)
    <3>1. LeaderOK(m, C, t) /\ t.state \in {"updating", "updating-previous"}
      BY <1>4, <2>1 DEF Good
    <3>. QED
      BY <2>3, <3>1 DEF LeaderOK, SameStore
  <2>7. Good(m, C, u)
    BY <2>2, <2>4, <2>5, <2>6 DEF Good
  <2>8. Fine(m, C, s.epoch, Done(u)) /\ Stays(u, Done(u))
    BY <2>7, DoneFine, DoneStays
  <2>. QED
    BY <1>2, <1>4, <1>7, <2>3, <2>8 DEF Stays, h
<1>. QED
  BY <1>3, <1>5, <1>6, <1>7

(***************************************************************************)
(* The system.                                                              *)
(***************************************************************************)

\* A monitor in state s does not follow in epoch e, and never will.
Past(s, e) == s.epoch > e \/ (s.epoch = e /\ s.role # "peon")

\* Only who leads sends BEGINs, and only who leads is sent ACCEPTs; epochs that
\* were won are even.
Direct(ms, x, d, msg) ==
  /\ msg.op = "BEGIN" => Past(ms[x], msg.epoch)
  /\ msg.op = "ACCEPT" => Past(ms[d], msg.epoch)
  /\ msg.op = "VICTORY" => msg.epoch % 2 = 0

ChanOK(ms, D, x, d, ch) ==
  /\ ch \in Seq(Messages)
  /\ \A i \in 1 .. Len(ch) : MsgOK(x, d, D, ch[i]) /\ Direct(ms, x, d, ch[i])

\* The next message is not of the past.
HeadOK(s, ch) == Len(ch) > 0 => ch[1].epoch >= s.epoch

LeadsEven(s) == s.role = "leader" => s.epoch % 2 = 0

MonsOK(D, ms) ==
  /\ ms \in [Rank -> Monitors]
  /\ \A m \in Rank : Good(m, D, ms[m]) /\ LeadsEven(ms[m])

NetOK(D, ms, n) ==
  /\ n \in [Rank -> [Rank -> Seq(Messages)]]
  /\ \A x, d \in Rank : ChanOK(ms, D, x, d, n[x][d]) /\ HeadOK(ms[d], n[x][d])

CommittedOK(S) == \A c \in S : c.v \in Nat \ {0} /\ c.value \in Value

\* The inductive invariant
PaxosInv ==
  /\ \E D : Consistent(D) /\ MonsOK(D, mon) /\ NetOK(D, mon, net)
  /\ CommittedOK(committed)

\* A monitor goes from s to t.
Onward(s, t) ==
  /\ t.epoch >= s.epoch
  /\ t.epoch = s.epoch /\ t.role = "peon" => s.role = "peon"

LEMMA ChanPart ==
  ASSUME NEW ms, NEW D, NEW x, NEW d, NEW ch, ChanOK(ms, D, x, d, ch),
         NEW a \in Nat \ {0}, NEW b \in Nat, b <= Len(ch)
  PROVE  /\ ChanOK(ms, D, x, d, SubSeq(ch, a, b))
         /\ a <= b => Len(SubSeq(ch, a, b)) > 0 /\ SubSeq(ch, a, b)[1] = ch[a]
<1>. DEFINE u == SubSeq(ch, a, b)
<1>1. ch \in Seq(Messages) /\ Len(ch) \in Nat
  BY DEF ChanOK
<1>2. \A i \in a .. b : ch[i] \in Messages
  BY <1>1
<1>3. /\ u \in Seq(Messages) /\ Len(u) = IF a <= b THEN b - a + 1 ELSE 0
      /\ \A i \in 1 .. b - a + 1 : u[i] = ch[a + i - 1]
  BY <1>2, SubSeqProperties
<1>. HIDE DEF u
<1>4. ASSUME NEW i \in 1 .. Len(u)
      PROVE  u[i] = ch[a + i - 1] /\ a + i - 1 \in 1 .. Len(ch)
  BY <1>1, <1>3
<1>5. ChanOK(ms, D, x, d, u)
  BY <1>3, <1>4 DEF ChanOK
<1>6. ASSUME a <= b PROVE Len(u) > 0 /\ u[1] = ch[a]
  BY <1>3, <1>6
<1>. QED
  BY <1>5, <1>6 DEF u

LEMMA ChanTail ==
  ASSUME NEW ms, NEW D, NEW x, NEW d, NEW ch, ChanOK(ms, D, x, d, ch), ch # <<>>
  PROVE  ChanOK(ms, D, x, d, Tail(ch))
<1>1. ch \in Seq(Messages) /\ Len(ch) \in Nat
  BY DEF ChanOK
<1>2. /\ Tail(ch) \in Seq(Messages) /\ Len(Tail(ch)) = Len(ch) - 1
      /\ \A i \in 1 .. Len(Tail(ch)) : Tail(ch)[i] = ch[i + 1]
  BY <1>1, HeadTailProperties
<1>3. \A i \in 1 .. Len(Tail(ch)) : i + 1 \in 1 .. Len(ch)
  BY <1>1, <1>2
<1>. QED
  BY <1>2, <1>3 DEF ChanOK

LEMMA ChanConcat ==
  ASSUME NEW ms, NEW D, NEW x, NEW d, NEW u, NEW w,
         ChanOK(ms, D, x, d, u), ChanOK(ms, D, x, d, w)
  PROVE  ChanOK(ms, D, x, d, u \o w)
<1>1. u \in Seq(Messages) /\ w \in Seq(Messages)
  BY DEF ChanOK
<1>2. u \o w \in Seq(Messages)
  BY <1>1, ConcatProperties
<1>3. ASSUME NEW i \in 1 .. Len(u \o w)
      PROVE  \/ \E k \in 1 .. Len(u) : (u \o w)[i] = u[k]
             \/ \E k \in 1 .. Len(w) : (u \o w)[i] = w[k]
  BY <1>1, ConcatAt
<1>. DEFINE c == u \o w
<1>. HIDE DEF c
<1>4. ASSUME NEW i \in 1 .. Len(c)
      PROVE  MsgOK(x, d, D, c[i]) /\ Direct(ms, x, d, c[i])
  BY <1>3 DEF ChanOK, c
<1>. QED
  BY <1>2, <1>4 DEF ChanOK, c

LEMMA ChanEmpty ==
  ASSUME NEW ms, NEW D, NEW x, NEW d
  PROVE  ChanOK(ms, D, x, d, <<>>)
<1>1. <<>> \in Seq(Messages) /\ Len(<<>>) = 0
  OBVIOUS
<1>2. 1 .. Len(<<>>) = {}
  BY <1>1
<1>. QED
  BY <1>1, <1>2 DEF ChanOK

\* The claims that m makes are nothing to the others.
LEMMA OthersGood ==
  ASSUME NEW m \in Rank, NEW C, NEW D, Extends(m, C, D),
         NEW x \in Rank, x # m, NEW s, Good(x, C, s)
  PROVE  Good(x, D, s)
<1>1. /\ s \in Monitors /\ StoreOK(C, s) /\ MemoryOK(s)
      /\ LeaderOK(x, C, s) /\ OwnerOK(x, C, s) /\ C \subseteq D
  BY DEF Good, Extends
<1>2. StoreOK(D, s)
  BY <1>1 DEF StoreOK
<1>3. N > 1 => \A c \in D \ C : c.pn % 100 # x
  BY DEF Extends
<1>4. OwnerOK(x, D, s)
  BY <1>1, <1>3 DEF OwnerOK
<1>5. LeaderOK(x, D, s)
  BY <1>1, <1>3 DEF LeaderOK
<1>. QED
  BY <1>1, <1>2, <1>4, <1>5 DEF Good

LEMMA PastOnward ==
  ASSUME NEW s \in Monitors, NEW t \in Monitors, Onward(s, t), NEW e \in Nat, Past(s, e)
  PROVE  Past(t, e)
<1>1. s.epoch \in Nat /\ t.epoch \in Nat
  BY DEF Monitors
<1>. QED
  BY <1>1 DEF Onward, Past

\* Monitor m goes to state t.
LEMMA MonsMove ==
  ASSUME NEW m \in Rank, NEW C, NEW D, NEW ms, NEW n, NEW t,
         MonsOK(C, ms), NetOK(C, ms, n), Extends(m, C, D),
         Good(m, D, t), LeadsEven(t), Onward(ms[m], t)
  PROVE  /\ MonsOK(D, [ms EXCEPT ![m] = t])
         /\ \A x, d \in Rank : ChanOK([ms EXCEPT ![m] = t], D, x, d, n[x][d])
<1>. DEFINE ns == [ms EXCEPT ![m] = t]
<1>1. ms \in [Rank -> Monitors] /\ t \in Monitors /\ ms[m] \in Monitors
  BY DEF MonsOK, Good
<1>2. ns \in [Rank -> Monitors] /\ ns[m] = t /\ \A x \in Rank \ {m} : ns[x] = ms[x]
  BY <1>1
<1>. HIDE DEF ns
<1>3. ASSUME NEW x \in Rank PROVE Good(x, D, ns[x]) /\ LeadsEven(ns[x])
  <2>1. CASE x = m
    BY <1>2, <2>1
  <2>2. CASE x # m
    <3>1. Good(x, C, ms[x]) /\ LeadsEven(ms[x]) /\ ns[x] = ms[x]
      BY <1>2, <2>2 DEF MonsOK
    <3>. QED
      BY <2>2, <3>1, OthersGood
  <2>. QED
    BY <2>1, <2>2
<1>4. MonsOK(D, ns)
  BY <1>2, <1>3 DEF MonsOK
<1>5. ASSUME NEW x \in Rank, NEW e \in Nat, Past(ms[x], e) PROVE Past(ns[x], e)
  <2>1. CASE x = m
    BY <1>1, <1>2, <1>5, <2>1, PastOnward
  <2>2. CASE x # m
    BY <1>2, <1>5, <2>2
  <2>. QED
    BY <2>1, <2>2
<1>6. ASSUME NEW x \in Rank, NEW d \in Rank PROVE ChanOK(ns, D, x, d, n[x][d])
  <2>. DEFINE ch == n[x][d]
  <2>1. ChanOK(ms, C, x, d, ch)
    BY DEF NetOK
  <2>. HIDE DEF ch
  <2>2. ch \in Seq(Messages)
    BY <2>1 DEF ChanOK
  <2>3. ASSUME NEW i \in 1 .. Len(ch)
        PROVE  MsgOK(x, d, D, ch[i]) /\ Direct(ns, x, d, ch[i])
    <3>1. MsgOK(x, d, C, ch[i]) /\ Direct(ms, x, d, ch[i]) /\ ch[i] \in Messages
      BY <2>1, <2>2 DEF ChanOK
    <3>2. ch[i].epoch \in Nat
      BY <3>1 DEF Messages
    <3>3. MsgOK(x, d, D, ch[i])
      BY <3>1 DEF MsgOK, Extends
    <3>4. Direct(ns, x, d, ch[i])
      BY <1>5, <3>1, <3>2 DEF Direct
    <3>. QED
      BY <3>3, <3>4
  <2>. QED
    BY <2>2, <2>3 DEF ChanOK, ch
<1>. QED
  BY <1>4, <1>6 DEF ns

\* What is delivered is still all right, and the past is gone.
LEMMA DeliveredOK ==
  ASSUME NEW D, NEW ms \in [Rank -> Monitors], NEW n,
         \A x, d \in Rank : ChanOK(ms, D, x, d, n[x][d])
  PROVE  NetOK(D, ms, Delivered(n, ms))
<1>. DEFINE del == Delivered(n, ms)
            hd(x, d) == {i \in 1 .. Len(n[x][d]) : Heard(ms[d], n[x][d][i])}
<1>1. del = [x \in Rank |-> [d \in Rank |->
               IF hd(x, d) = {} THEN <<>>
               ELSE SubSeq(n[x][d], Min(hd(x, d)), Len(n[x][d]))]]
  BY DEF Delivered
<1>2. ASSUME NEW x \in Rank, NEW d \in Rank
      PROVE  del[x][d] = IF hd(x, d) = {} THEN <<>>
                         ELSE SubSeq(n[x][d], Min(hd(x, d)), Len(n[x][d]))
  BY <1>1
<1>3. del = [x \in Rank |-> [d \in Rank |-> del[x][d]]]
  BY <1>1
<1>. HIDE DEF del
<1>4. ASSUME NEW x \in Rank, NEW d \in Rank
      PROVE  ChanOK(ms, D, x, d, del[x][d]) /\ HeadOK(ms[d], del[x][d])
  <2>. DEFINE ch == n[x][d]
              h  == {i \in 1 .. Len(ch) : Heard(ms[d], ch[i])}
  <2>1. ChanOK(ms, D, x, d, ch)
    OBVIOUS
  <2>2. del[x][d] = IF h = {} THEN <<>> ELSE SubSeq(ch, Min(h), Len(ch))
    BY <1>2
  <2>. HIDE DEF ch
  <2>3. CASE h = {}
    <3>1. del[x][d] = <<>> /\ Len(<<>>) = 0
      BY <2>2, <2>3
    <3>. QED
      BY <3>1, ChanEmpty DEF HeadOK
  <2>4. CASE h # {}
    <3>1. ch \in Seq(Messages) /\ Len(ch) \in Nat
      BY <2>1 DEF ChanOK
    <3>2. h \subseteq Nat
      BY <3>1
    <3>. DEFINE k == Min(h)
    <3>3. k \in h
      <4>. HIDE DEF h
      <4>. QED
        BY <2>4, <3>2, SetMin
    <3>. HIDE DEF k
    <3>4. k \in 1 .. Len(ch) /\ Heard(ms[d], ch[k])
      BY <3>3
    <3>5. del[x][d] = SubSeq(ch, k, Len(ch))
      BY <2>2, <2>4 DEF k
    <3>6. k \in Nat \ {0} /\ k <= Len(ch)
      BY <3>1, <3>4
    <3>7. /\ ChanOK(ms, D, x, d, SubSeq(ch, k, Len(ch)))
          /\ SubSeq(ch, k, Len(ch))[1] = ch[k]
      BY <2>1, <3>1, <3>6, ChanPart
    <3>8. ch[k].epoch >= ms[d].epoch
      <4>1. ch[k].epoch \in Nat /\ ms[d].epoch \in Nat
        <5>1. ch[k] \in Messages /\ ms[d] \in Monitors
          BY <3>1, <3>4
        <5>. QED
          BY <5>1 DEF Messages, Monitors
      <4>. QED
        BY <3>4, <4>1 DEF Heard
    <3>. QED
      BY <3>5, <3>7, <3>8 DEF HeadOK
  <2>. QED
    BY <2>3, <2>4
<1>5. \A x, d \in Rank : del[x][d] \in Seq(Messages)
  BY <1>4 DEF ChanOK
<1>6. del \in [Rank -> [Rank -> Seq(Messages)]]
  BY <1>3, <1>5
<1>. QED
  BY <1>4, <1>6 DEF NetOK, del

LEMMA CommittedByOK ==
  ASSUME NEW s \in Monitors
  PROVE  CommittedOK(CommittedBy(s))
<1>1. s.log \in VMaps
  BY DEF Monitors
<1>2. \A v \in DOMAIN s.log : v \in Nat /\ s.log[v] \in Value /\ s.log[v].trim < v
  BY <1>1, VMapsDef
<1>3. \A v \in DOMAIN s.log : s.log[v].trim \in Nat
  BY <1>2 DEF Value
<1>4. \A v \in DOMAIN s.log : v \in Nat \ {0}
  BY <1>2, <1>3
<1>. QED
  BY <1>2, <1>4 DEF CommittedOK, CommittedBy

\* The result r of a call is a step that m may take.
Moves(m, C, ms, r) ==
  \E D : /\ Extends(m, C, D) /\ Good(m, D, r.s) /\ LeadsEven(r.s) /\ Onward(ms[m], r.s)
         /\ \A d \in Rank : ChanOK([ms EXCEPT ![m] = r.s], D, m, d, r.out[d])

LEMMA StepKeeps ==
  ASSUME NEW C, Consistent(C), MonsOK(C, mon), NetOK(C, mon, net), CommittedOK(committed),
         NEW m \in Rank, NEW From, \A x \in From : net[x][m] # <<>>,
         NEW r, Moves(m, C, mon, r), Step(m, From, r)
  PROVE  PaxosInv'
<1>. DEFINE ns == [mon EXCEPT ![m] = r.s]
            nn == [x \in Rank |-> [d \in Rank |->
                     (IF x \in From /\ d = m THEN Tail(net[x][d]) ELSE net[x][d])
                       \o (IF x = m THEN r.out[d] ELSE <<>>)]]
<1>1. /\ mon' = ns /\ committed' = committed \cup CommittedBy(r.s)
      /\ net' = Delivered(nn, ns)
  BY DEF Step
<1>2. PICK D : /\ Extends(m, C, D) /\ Good(m, D, r.s) /\ LeadsEven(r.s) /\ Onward(mon[m], r.s)
               /\ \A d \in Rank : ChanOK(ns, D, m, d, r.out[d])
  BY DEF Moves
<1>3. MonsOK(D, ns) /\ \A x, d \in Rank : ChanOK(ns, D, x, d, net[x][d])
  BY <1>2, MonsMove
<1>4. ns \in [Rank -> Monitors]
  BY <1>3 DEF MonsOK
<1>. HIDE DEF ns
<1>5. ASSUME NEW x \in Rank, NEW d \in Rank PROVE ChanOK(ns, D, x, d, nn[x][d])
  <2>. DEFINE u == IF x \in From /\ d = m THEN Tail(net[x][d]) ELSE net[x][d]
              w == IF x = m THEN r.out[d] ELSE <<>>
  <2>1. nn[x][d] = u \o w
    OBVIOUS
  <2>2. ChanOK(ns, D, x, d, u)
    <3>1. CASE x \in From /\ d = m
      BY <1>3, <3>1, ChanTail
    <3>2. CASE ~(x \in From /\ d = m)
      BY <1>3, <3>2
    <3>. QED
      BY <3>1, <3>2
  <2>3. ChanOK(ns, D, x, d, w)
    BY <1>2, ChanEmpty
  <2>. HIDE DEF u, w, nn
  <2>. QED
    BY <2>1, <2>2, <2>3, ChanConcat
<1>. HIDE DEF nn
<1>6. NetOK(D, ns, Delivered(nn, ns))
  BY <1>4, <1>5, DeliveredOK
<1>7. Consistent(D) /\ r.s \in Monitors
  BY <1>2 DEF Extends, Good
<1>8. CommittedOK(committed \cup CommittedBy(r.s))
  BY <1>7, CommittedByOK DEF CommittedOK
<1>9. \E E : Consistent(E) /\ MonsOK(E, mon') /\ NetOK(E, mon', net')
  BY <1>1, <1>3, <1>6, <1>7
<1>. QED
  BY <1>1, <1>8, <1>9 DEF PaxosInv

LEMMA FreshTyped ==
  /\ Fresh \in Monitors
  /\ Fresh.role = "out" /\ Fresh.state = "recovering" /\ Fresh.new_value = NoValue
  /\ Fresh.uncommitted = NoneUncommitted
<1>1. NoValue \in Value /\ NoneUncommitted \in [v: Nat, pn: Nat, value: Value]
      /\ <<>> \in PeerMaps /\ <<>> \in VMaps /\ 0 \in Rank
  BY NoneTyped, EmptyMaps, NAssumption DEF Rank
<1>2. "out" \in Roles /\ "recovering" \in States
  BY DEF Roles, States
<1>3. Fresh \in Monitors
  BY <1>1, <1>2 DEF Fresh, Monitors
<1>. QED
  BY <1>3 DEF Fresh

LEMMA ReloadedGood ==
  ASSUME NEW m, NEW C, NEW s, Good(m, C, s)
  PROVE  /\ Good(m, C, Reloaded(s)) /\ Reloaded(s).role = "out"
         /\ Reloaded(s).epoch = s.epoch
<1>. DEFINE t == Reloaded(s)
<1>1. s \in Monitors
  BY DEF Good
<1>2. t = [Fresh EXCEPT !.epoch = s.epoch, !.log = s.log,
                        !.last_committed = s.last_committed,
                        !.first_committed = s.first_committed, !.last_pn = s.last_pn,
                        !.stored_pn = s.stored_pn, !.accepted_pn = s.stored_pn,
                        !.pending_v = s.pending_v, !.pending_pn = s.pending_pn]
  BY DEF Reloaded
<1>. HIDE DEF t
<1>3. /\ s.epoch \in Nat /\ s.log \in VMaps /\ s.last_committed \in Nat
      /\ s.first_committed \in Nat /\ s.last_pn \in Nat /\ s.stored_pn \in Nat
      /\ s.pending_v \in Nat /\ s.pending_pn \in Nat
  BY <1>1 DEF Monitors
<1>4. t \in Monitors
  BY <1>2, <1>3, FreshTyped DEF Monitors
<1>5. /\ SameStore(s, t) /\ t.role = "out" /\ t.epoch = s.epoch /\ t.state = "recovering"
      /\ t.new_value = NoValue /\ t.uncommitted = NoneUncommitted
  BY <1>2, FreshTyped DEF SameStore, Monitors
<1>6. ~IsWriting(t)
  BY <1>5 DEF IsWriting
<1>7. Good(m, C, t)
  BY <1>4, <1>5, <1>6, GoodFollower
<1>. QED
  BY <1>5, <1>7 DEF t

LEMMA DieKeeps ==
  ASSUME NEW C, Consistent(C), MonsOK(C, mon), NetOK(C, mon, net), CommittedOK(committed),
         NEW m \in Rank, Die(m)
  PROVE  PaxosInv'
<1>. DEFINE s == mon[m]
            v == s.last_committed + 1
            l == Learn(s, {v}, One(v, s.new_value))
<1>1. Good(m, C, s) /\ mon \in [Rank -> Monitors]
  BY DEF MonsOK
<1>2. Good(m, C, l) /\ l.epoch = s.epoch
  <2>. HIDE DEF s
  <2>. QED
    BY <1>1, LearnNext DEF SameTerm
<1>3. PICK t : /\ t = Reloaded(l) \/ t = Reloaded(s)
               /\ mon' = [mon EXCEPT ![m] = t]
               /\ committed' = committed \cup CommittedBy(t)
  BY DEF Die
<1>4. PICK keep : /\ \A d \in Rank : keep[d] \in Nat /\ keep[d] <= Len(net[m][d])
                  /\ net' = [x \in Rank |-> [d \in Rank |->
                               IF x = m THEN SubSeq(net[x][d], 1, keep[d])
                               ELSE IF d = m THEN <<>> ELSE net[x][d]]]
  <2>. DEFINE top == Max({Len(net[m][d]) : d \in Rank})
  <2>1. PICK keep \in [Rank -> 0 .. top] :
               /\ \A d \in Rank : keep[d] <= Len(net[m][d])
               /\ net' = [x \in Rank |-> [d \in Rank |->
                            IF x = m THEN SubSeq(net[x][d], 1, keep[d])
                            ELSE IF d = m THEN <<>> ELSE net[x][d]]]
    BY DEF Die
  <2>. HIDE DEF top
  <2>2. \A d \in Rank : keep[d] \in Nat
    BY <2>1
  <2>. QED
    BY <2>1, <2>2
<1>5. Good(m, C, t) /\ t.role = "out" /\ t.epoch = s.epoch /\ t \in Monitors
  <2>. HIDE DEF s, l
  <2>1. Good(m, C, t) /\ t.role = "out" /\ t.epoch = s.epoch
    BY <1>1, <1>2, <1>3, ReloadedGood
  <2>. QED
    BY <2>1 DEF Good
<1>6. LeadsEven(t) /\ Onward(s, t)
  <2>1. s.epoch \in Nat
    BY <1>1 DEF Monitors
  <2>. QED
    BY <1>5, <2>1 DEF LeadsEven, Onward
<1>. DEFINE ns == [mon EXCEPT ![m] = t]
<1>7. MonsOK(C, ns) /\ \A x, d \in Rank : ChanOK(ns, C, x, d, net[x][d])
  <2>1. Extends(m, C, C)
    BY DEF Extends
  <2>. QED
    BY <1>5, <1>6, <2>1, MonsMove
<1>8. \A d \in Rank : ns[d].epoch = mon[d].epoch
  BY <1>1, <1>5
<1>. HIDE DEF ns
<1>9. ASSUME NEW x \in Rank, NEW d \in Rank
      PROVE  ChanOK(ns, C, x, d, net'[x][d]) /\ HeadOK(ns[d], net'[x][d])
  <2>. DEFINE ch == net[x][d]
              nc == net'[x][d]
  <2>1. ChanOK(ns, C, x, d, ch) /\ HeadOK(mon[d], ch)
    BY <1>7 DEF NetOK
  <2>2. nc = IF x = m THEN SubSeq(ch, 1, keep[d]) ELSE IF d = m THEN <<>> ELSE ch
    BY <1>4
  <2>. HIDE DEF ch, nc
  <2>3. CASE x = m
    <3>. DEFINE k == keep[d]
    <3>1. nc = SubSeq(ch, 1, k) /\ k \in Nat /\ k <= Len(ch) /\ Len(ch) \in Nat
      BY <1>4, <2>1, <2>2, <2>3 DEF ChanOK, ch
    <3>. HIDE DEF k
    <3>2. /\ ChanOK(ns, C, x, d, nc) /\ 1 <= k => Len(nc) > 0 /\ nc[1] = ch[1]
      BY <2>1, <3>1, ChanPart
    <3>3. ChanOK(ns, C, x, d, nc)
      BY <2>1, <3>1, ChanPart
    <3>4. k = 0 => Len(nc) = 0
      <4>1. k = 0 => nc = <<>>
        BY <3>1, SubSeqEmpty
      <4>. QED
        BY <4>1
    <3>5. HeadOK(ns[d], nc)
      BY <1>8, <2>1, <3>1, <3>2, <3>3, <3>4 DEF HeadOK
    <3>. QED
      BY <3>3, <3>5 DEF nc
  <2>4. CASE x # m /\ d = m
    <3>1. nc = <<>> /\ Len(<<>>) = 0
      BY <2>2, <2>4
    <3>. QED
      BY <3>1, ChanEmpty DEF HeadOK, nc
  <2>5. CASE x # m /\ d # m
    <3>1. nc = ch
      BY <2>2, <2>5
    <3>. QED
      BY <1>8, <2>1, <3>1 DEF HeadOK, nc
  <2>. QED
    BY <2>3, <2>4, <2>5
<1>10. NetOK(C, ns, net')
  <2>1. net' = [x \in Rank |-> [d \in Rank |-> net'[x][d]]]
    BY <1>4
  <2>2. \A x, d \in Rank : net'[x][d] \in Seq(Messages)
    BY <1>9 DEF ChanOK
  <2>3. net' \in [Rank -> [Rank -> Seq(Messages)]]
    BY <2>1, <2>2
  <2>. QED
    BY <1>9, <2>3 DEF NetOK
<1>11. CommittedOK(committed \cup CommittedBy(t))
  BY <1>5, CommittedByOK DEF CommittedOK
<1>12. \E E : Consistent(E) /\ MonsOK(E, mon') /\ NetOK(E, mon', net')
  BY <1>3, <1>7, <1>10 DEF ns
<1>. QED
  BY <1>3, <1>11, <1>12 DEF PaxosInv

\* What a call of Paxos returns is such a step, unless m is a peon by then and
\* has begun a round.
LEMMA FineMoves ==
  ASSUME NEW m \in Rank, NEW C, NEW ms \in [Rank -> Monitors], NEW e \in Nat, NEW r,
         Fine(m, C, e, r), Onward(ms[m], r.s), LeadsEven(r.s), r.s.epoch >= e,
         r.s.epoch = e /\ r.s.role = "peon" => Quiet(r.out)
  PROVE  Moves(m, C, ms, r)
<1>1. PICK D : Extends(m, C, D) /\ Good(m, D, r.s) /\ Outs(m, D, e, r.out)
  BY DEF Fine
<1>. DEFINE ns == [ms EXCEPT ![m] = r.s]
<1>2. ns[m] = r.s /\ r.s.epoch \in Nat
  BY <1>1 DEF Good, Monitors
<1>. HIDE DEF ns
<1>3. ASSUME NEW d \in Rank PROVE ChanOK(ns, D, m, d, r.out[d])
  <2>. DEFINE ch == r.out[d]
  <2>1. /\ ch \in Seq(Messages)
        /\ \A i \in 1 .. Len(ch) : OutOK(m, d, D, e, ch[i])
        /\ Quiet(r.out) => \A i \in 1 .. Len(ch) : ch[i].op # "BEGIN"
    BY <1>1 DEF Outs, Quiet
  <2>. HIDE DEF ch
  <2>2. ASSUME NEW i \in 1 .. Len(ch)
        PROVE  MsgOK(m, d, D, ch[i]) /\ Direct(ns, m, d, ch[i])
    <3>1. MsgOK(m, d, D, ch[i]) /\ ch[i].epoch = e /\ ch[i].op \notin {"ACCEPT", "VICTORY"}
      BY <2>1 DEF OutOK
    <3>2. ch[i].op = "BEGIN" => Past(ns[m], e)
      BY <1>2, <2>1 DEF Past
    <3>. QED
      BY <3>1, <3>2 DEF Direct
  <2>. QED
    BY <2>1, <2>2 DEF ChanOK, ch
<1>. QED
  BY <1>1, <1>3 DEF Moves, ns

LEMMA StaysMoves ==
  ASSUME NEW m \in Rank, NEW C, NEW ms \in [Rank -> Monitors], NEW r, LeadsEven(ms[m]),
         Fine(m, C, ms[m].epoch, r), Stays(ms[m], r)
  PROVE  Moves(m, C, ms, r)
<1>1. ms[m].epoch \in Nat
  BY DEF Monitors
<1>2. Onward(ms[m], r.s) /\ LeadsEven(r.s) /\ r.s.epoch >= ms[m].epoch
  BY <1>1 DEF Stays, Onward, LeadsEven
<1>. QED
  BY <1>1, <1>2, FineMoves DEF Stays

\* handle_begin: the claim of the leader goes to the store of a peon.
LEMMA HandleBeginMoves ==
  ASSUME NEW m \in Rank, NEW C, NEW ms \in [Rank -> Monitors], NEW from \in Rank,
         NEW msg \in Messages, Consistent(C), Good(m, C, ms[m]), LeadsEven(ms[m]),
         MsgOK(from, m, C, msg), Direct(ms, from, m, msg), msg.op = "BEGIN",
         msg.epoch = ms[m].epoch, Asserted(ms[m], from, msg)
  PROVE  Moves(m, C, ms, HandleBegin(m, ms[m], from, msg))
<1>. DEFINE s == ms[m]
            v == s.last_committed + 1
            x == msg.values[v]
            lg == Over(One(v, x), s.log)
            t == [s EXCEPT !.state = "updating", !.lease = FALSE, !.log = lg,
                           !.pending_v = v, !.pending_pn = s.accepted_pn]
            ack == [Msg("ACCEPT", s) EXCEPT !.pn = s.accepted_pn, !.lc = s.last_committed]
            h == HandleBegin(m, s, from, msg)
<1>1. h = IF msg.pn < s.accepted_pn THEN Done(s) ELSE Sends(t, {from}, ack)
  BY DEF HandleBegin
<1>2. /\ s \in Monitors /\ StoreOK(C, s) /\ MemoryOK(s) /\ OwnerOK(m, C, s)
      /\ s.last_committed \in Nat /\ s.log \in VMaps /\ s.accepted_pn \in Nat
      /\ s.first_committed \in Nat
  BY DEF Good, Monitors
<1>. HIDE DEF s, h
<1>3. CASE msg.pn < s.accepted_pn
  <2>1. h = Done(s)
    BY <1>1, <1>3
  <2>2. Fine(m, C, s.epoch, Done(s)) /\ Stays(s, Done(s))
    BY DoneFine, DoneStays DEF s
  <2>. QED
    BY <2>1, <2>2, StaysMoves DEF s, h
<1>4. CASE ~(msg.pn < s.accepted_pn)
  <2>1. h = Sends(t, {from}, ack) /\ msg.pn = s.accepted_pn /\ msg.lc = s.last_committed
    BY <1>1, <1>4 DEF Asserted, s
  <2>2. /\ v \in DOMAIN msg.values /\ [v |-> v, pn |-> s.accepted_pn, x |-> x] \in C
        /\ N > 1 => s.accepted_pn % 100 = from /\ from # m
    BY <2>1 DEF MsgOK
  <2>3. v \in Nat /\ x \in Value /\ x.trim < v
    <3>1. msg.values \in VMaps
      BY DEF Messages
    <3>. QED
      BY <1>2, <2>2, <3>1, VMapsDef
  <2>4. lg \in VMaps /\ v \in DOMAIN lg /\ lg[v] = x
    <3>. HIDE DEF v, x
    <3>1. One(v, x) \in VMaps /\ DOMAIN One(v, x) = {v} /\ One(v, x)[v] = x
      BY <2>3, OneMap
    <3>. QED
      BY <1>2, <3>1, OverMap, ZenonT(40)
  <2>. HIDE DEF lg
  <2>5. t \in Monitors
    BY <1>2, <2>3, <2>4 DEF Monitors, States
  <2>6. /\ t.epoch = s.epoch /\ t.role = s.role /\ t.state = "updating" /\ t.log = lg
        /\ t.pending_v = v /\ t.pending_pn = s.accepted_pn
        /\ t.last_committed = s.last_committed /\ t.first_committed = s.first_committed
        /\ t.last_pn = s.last_pn /\ t.new_value = s.new_value /\ t.uncommitted = s.uncommitted
    BY <1>2 DEF Monitors
  <2>. HIDE DEF t
  <2>7. StoreOK(C, t)
    <3>1. /\ t.pending_v \in DOMAIN t.log
          /\ [v |-> t.pending_v, pn |-> t.pending_pn, x |-> t.log[t.pending_v]] \in C
      BY <2>2, <2>4, <2>6
    <3>. QED
      BY <1>2, <2>6, <3>1 DEF StoreOK
  <2>8. MemoryOK(t)
    BY <1>2, <2>6 DEF MemoryOK, IsWriting
  <2>9. OwnerOK(m, C, t)
    BY <1>2, <2>6 DEF OwnerOK
  <2>10. LeaderOK(m, C, t)
    <3>1. s.role = "leader" /\ N > 1 => s.accepted_pn % 100 = m
      BY DEF Good, LeaderOK, s
    <3>. QED
      BY <2>2, <2>6, <3>1 DEF LeaderOK
  <2>11. Good(m, C, t)
    BY <2>5, <2>7, <2>8, <2>9, <2>10 DEF Good
  <2>12. ack \in Messages /\ ack.op = "ACCEPT" /\ ack.epoch = s.epoch
    <3>1. "ACCEPT" \in Ops
      BY DEF Ops
    <3>2. Msg("ACCEPT", s) \in Messages /\ Msg("ACCEPT", s).epoch = s.epoch
          /\ Msg("ACCEPT", s).op = "ACCEPT"
      BY <1>2, <3>1, MsgTyped
    <3>. QED
      BY <1>2, <3>2 DEF Messages
  <2>. HIDE DEF ack
  <2>. DEFINE ns == [ms EXCEPT ![m] = t]
  <2>13. Past(ns[from], s.epoch)
    <3>1. Past(ms[from], s.epoch)
      BY DEF Direct, s
    <3>2. ns[from] = IF from = m THEN t ELSE ms[from]
      OBVIOUS
    <3>3. from = m => t.epoch = ms[from].epoch /\ t.role = ms[from].role
      BY <2>6 DEF s
    <3>. HIDE DEF ns
    <3>. QED
      BY <3>1, <3>2, <3>3 DEF Past
  <2>. HIDE DEF ns
  <2>14. ASSUME NEW d \in Rank PROVE ChanOK(ns, C, m, d, h.out[d])
    <3>1. h.out[d] = IF d = from THEN <<ack>> ELSE <<>>
      BY <2>1 DEF Sends, SendTo
    <3>2. CASE d # from
      BY <3>1, <3>2, ChanEmpty
    <3>3. CASE d = from
      <4>1. h.out[d] = <<ack>>
        BY <3>1, <3>3
      <4>2. MsgOK(m, d, C, ack) /\ Direct(ns, m, d, ack)
        BY <2>12, <2>13, <3>3 DEF MsgOK, Direct
      <4>3. <<ack>> \in Seq(Messages) /\ \A i \in 1 .. Len(<<ack>>) : <<ack>>[i] = ack
        BY <2>12
      <4>. QED
        BY <4>1, <4>2, <4>3 DEF ChanOK
    <3>. QED
      BY <3>2, <3>3
  <2>15. h.s = t
    BY <2>1 DEF Sends
  <2>16. Onward(ms[m], t) /\ LeadsEven(t)
    <3>1. ms[m].epoch \in Nat
      BY DEF Monitors
    <3>. QED
      BY <2>6, <3>1 DEF s, Onward, LeadsEven
  <2>17. Extends(m, C, C)
    BY DEF Extends
  <2>. QED
    BY <2>11, <2>14, <2>15, <2>16, <2>17 DEF Moves, ns, h, s
<1>. QED
  BY <1>3, <1>4

LEMMA JoinElectionFine ==
  ASSUME NEW m \in Rank, NEW C, NEW s, NEW e \in Nat, Consistent(C), Good(m, C, s)
  PROVE  /\ Fine(m, C, e, JoinElection(m, s, e)) /\ IsCall(JoinElection(m, s, e))
         /\ JoinElection(m, s, e).s.epoch = e /\ JoinElection(m, s, e).s.role = "out"
         /\ ~IsWriting(s) => JoinElection(m, s, e).out = Nothing
<1>. DEFINE t == [s EXCEPT !.epoch = e]
<1>1. s \in Monitors /\ s.num_last \in Nat
  BY DEF Good, Monitors
<1>2. t \in Monitors /\ SameStore(s, t) /\ SameRound(s, t) /\ t.epoch = e
  BY <1>1 DEF Monitors, SameStore, SameRound
<1>3. JoinElection(m, s, e) = Bootstrap(m, t)
  BY DEF JoinElection
<1>. HIDE DEF t
<1>4. Good(m, C, t)
  BY <1>2, GoodKept
<1>5. /\ Fine(m, C, t.epoch, Bootstrap(m, t)) /\ IsCall(Bootstrap(m, t))
      /\ Bootstrap(m, t).s.epoch = t.epoch /\ Bootstrap(m, t).s.role = "out"
  BY <1>4, BootstrapFine
<1>6. ASSUME ~IsWriting(s) PROVE Bootstrap(m, t).out = Nothing
  <2>1. ~IsWriting(t)
    BY <1>2, <1>6 DEF SameRound, IsWriting
  <2>2. WaitForPaxosWrite(m, t) = Done(t)
    BY <2>1 DEF WaitForPaxosWrite, Done
  <2>3. Bootstrap(m, t) = [Done(t) EXCEPT !.s = Reset(t)]
    BY <2>2 DEF Bootstrap, Done
  <2>4. [Done(t) EXCEPT !.s = Reset(t)] = [s |-> Reset(t), out |-> Done(t).out]
    BY CallMade
  <2>. QED
    BY <2>3, <2>4 DEF Done
<1>. QED
  BY <1>2, <1>3, <1>5, <1>6

\* handle_victory: who follows has not been writing, for it did not lead.
LEMMA HandleVictoryMoves ==
  ASSUME NEW m \in Rank, NEW C, NEW ms \in [Rank -> Monitors], NEW from \in Rank,
         NEW msg \in Messages, Consistent(C), Good(m, C, ms[m]), LeadsEven(ms[m]),
         msg.epoch % 2 = 0, msg.epoch >= ms[m].epoch
  PROVE  Moves(m, C, ms, HandleVictory(m, ms[m], from, msg))
<1>. DEFINE s == ms[m]
            e == msg.epoch
            b == JoinElection(m, s, e)
            f == [b.s EXCEPT !.role = "peon", !.leader = from, !.quorum = msg.quorum]
            p == PeonInit(f)
            g == [b.s EXCEPT !.epoch = e + 1]
            h == HandleVictory(m, s, from, msg)
<1>1. h = IF e = s.epoch + 1 THEN [b EXCEPT !.s = p] ELSE [b EXCEPT !.s = g]
  BY DEF HandleVictory
<1>2. e \in Nat /\ s.epoch \in Nat /\ s \in Monitors /\ msg.quorum \subseteq Rank
  BY DEF Messages, Monitors
<1>3. /\ Fine(m, C, e, b) /\ IsCall(b) /\ b.s.epoch = e /\ b.s.role = "out"
      /\ ~IsWriting(s) => b.out = Nothing
  BY <1>2, JoinElectionFine
<1>. HIDE DEF b, h
<1>4. PICK D : Extends(m, C, D) /\ Good(m, D, b.s) /\ Outs(m, D, e, b.out)
  BY <1>3 DEF Fine
<1>5. b.s \in Monitors /\ ~IsWriting(b.s)
  BY <1>3, <1>4 DEF Good, MemoryOK
<1>6. CASE e = s.epoch + 1
  <2>1. f \in Monitors
    BY <1>2, <1>5 DEF Monitors, Roles
  <2>2. /\ SameStore(b.s, f) /\ f.role = "peon" /\ f.epoch = e /\ f.state = b.s.state
        /\ f.new_value = b.s.new_value /\ f.uncommitted = b.s.uncommitted
    BY <1>3, <1>5 DEF Monitors, SameStore
  <2>. HIDE DEF f
  <2>3. Good(m, D, f)
    <3>1. ~IsWriting(f)
      BY <1>5, <2>2 DEF IsWriting
    <3>. QED
      BY <1>4, <2>1, <2>2, <3>1, GoodFollower
  <2>4. Good(m, D, p) /\ p.role = "peon" /\ p.epoch = e
    BY <2>2, <2>3, PeonInitGood
  <2>. HIDE DEF p
  <2>5. h = [s |-> p, out |-> b.out]
    BY <1>1, <1>3, <1>6, CallMade
  <2>6. h.s = p /\ h.out = b.out
    BY <2>5
  <2>7. ~IsWriting(s)
    <3>1. s.role # "leader"
      <4>1. s.epoch % 2 # 0
        BY <1>2, <1>6
      <4>. QED
        BY <4>1 DEF LeadsEven, s
    <3>. QED
      BY <3>1 DEF Good, MemoryOK, s
  <2>8. Quiet(h.out)
    BY <1>3, <2>6, <2>7, NothingQuiet
  <2>9. Fine(m, C, e, h)
    BY <1>4, <2>4, <2>6 DEF Fine
  <2>10. Onward(s, h.s) /\ LeadsEven(h.s) /\ h.s.epoch >= e
    BY <1>2, <1>6, <2>4, <2>6 DEF Onward, LeadsEven
  <2>. QED
    BY <1>2, <2>8, <2>9, <2>10, FineMoves DEF h, s
<1>7. CASE e # s.epoch + 1
  <2>. DEFINE k == e + 1
              bs == b.s
  <2>0. g = [bs EXCEPT !.epoch = k] /\ k \in Nat /\ bs \in Monitors /\ bs.role = "out"
        /\ bs.num_last \in Nat
    BY <1>2, <1>3, <1>5 DEF Monitors
  <2>. HIDE DEF g, k, bs
  <2>1. g \in Monitors
    BY <2>0 DEF Monitors
  <2>2. SameStore(b.s, g) /\ SameRound(b.s, g) /\ g.epoch = e + 1 /\ g.role = "out"
    <3>1. SameStore(bs, g) /\ SameRound(bs, g) /\ g.epoch = k /\ g.role = "out"
      BY <2>0 DEF Monitors, SameStore, SameRound
    <3>. QED
      BY <3>1 DEF bs, k
  <2>3. Good(m, D, g)
    BY <1>4, <2>1, <2>2, GoodKept
  <2>4. h = [s |-> g, out |-> b.out]
    BY <1>1, <1>3, <1>7, CallMade
  <2>5. h.s = g /\ h.out = b.out
    BY <2>4
  <2>6. Fine(m, C, e, h)
    BY <1>4, <2>3, <2>5 DEF Fine
  <2>7. Onward(s, h.s) /\ LeadsEven(h.s) /\ h.s.epoch >= e /\ h.s.role = "out"
    BY <1>2, <2>2, <2>5 DEF Onward, LeadsEven, s
  <2>. QED
    BY <1>2, <2>6, <2>7, FineMoves DEF h, s
<1>. QED
  BY <1>6, <1>7

Won(s, w, Q) ==
  /\ w \in Monitors /\ SameStore(s, w) /\ w.role = "leader"
  /\ w.epoch = s.epoch + 1 /\ w.quorum = Q
  /\ w.new_value = s.new_value /\ w.uncommitted = s.uncommitted

LEMMA WonTyped ==
  ASSUME NEW m \in Rank, NEW s \in Monitors, NEW Q, Q \subseteq Rank
  PROVE  Won(s, [s EXCEPT !.epoch = @ + 1, !.role = "leader", !.leader = m, !.quorum = Q], Q)
<1>. DEFINE k == s.epoch + 1
            w == [s EXCEPT !.epoch = k, !.role = "leader", !.leader = m, !.quorum = Q]
<1>1. k \in Nat
  BY DEF Monitors
<1>. HIDE DEF k
<1>2. w \in Monitors
  BY <1>1 DEF Monitors, Roles
<1>3. /\ SameStore(s, w) /\ w.role = "leader" /\ w.epoch = k /\ w.quorum = Q
      /\ w.new_value = s.new_value /\ w.uncommitted = s.uncommitted
  BY DEF Monitors, SameStore
<1>. HIDE DEF w
<1>4. Won(s, w, Q)
  BY <1>2, <1>3 DEF k, Won
<1>. QED
  BY <1>4 DEF w, k

\* win_election: one monitor is a majority only where it is alone.
LEMMA WinMoves ==
  ASSUME NEW m \in Rank, NEW C, NEW ms \in [Rank -> Monitors], Consistent(C),
         Good(m, C, ms[m]), Odd(ms[m].epoch), NEW Q, Q \subseteq Rank, Majority(Q),
         NEW w, w = [ms[m] EXCEPT !.epoch = @ + 1, !.role = "leader",
                                  !.leader = m, !.quorum = Q],
         NEW v, v = Sends(w, Q \ {m}, [Msg("VICTORY", w) EXCEPT !.quorum = Q])
  PROVE  Moves(m, C, ms, Then(v, LeaderInit(m, w)))
<1>. DEFINE s == ms[m]
            msg == [Msg("VICTORY", w) EXCEPT !.quorum = Q]
            q == LeaderInit(m, w)
            r == Then(v, q)
<1>1. s \in Monitors /\ StoreOK(C, s) /\ MemoryOK(s) /\ OwnerOK(m, C, s) /\ s.epoch \in Nat
  BY DEF Good, Monitors
<1>2. Won(s, w, Q)
  BY <1>1, WonTyped
<1>. HIDE DEF s
<1>3. /\ w \in Monitors /\ SameStore(s, w) /\ w.role = "leader" /\ w.epoch = s.epoch + 1
      /\ w.quorum = Q /\ w.new_value = s.new_value /\ w.uncommitted = s.uncommitted
  BY <1>2, Zenon DEF Won
<1>4. w.epoch % 2 = 0 /\ w.epoch > s.epoch
  BY <1>1, <1>3 DEF Odd, s
<1>5. N > 1 => w.quorum # {m}
  <2>1. Cardinality({m}) = 1
    BY FS_Singleton
  <2>2. Q # {m} \/ 2 * 1 > N
    BY <2>1 DEF Majority
  <2>. QED
    BY <1>3, <2>2, NAssumption
<1>6. StoreOK(C, w) /\ OwnerOK(m, C, w) /\ MemoryOK(w)
  BY <1>1, <1>3 DEF StoreOK, OwnerOK, MemoryOK, SameStore
<1>7. Fine(m, C, w.epoch, q) /\ q.s.epoch = w.epoch /\ q.s.role = "leader"
  BY <1>3, <1>5, <1>6, LeaderInitFine, ZenonT(40)
<1>8. v.out = SendTo(Q \ {m}, msg)
  BY DEF Sends
<1>9. msg \in Messages /\ msg.op = "VICTORY" /\ msg.epoch = w.epoch
  <2>1. "VICTORY" \in Ops
    BY DEF Ops
  <2>2. Msg("VICTORY", w) \in Messages /\ Msg("VICTORY", w).epoch = w.epoch
        /\ Msg("VICTORY", w).op = "VICTORY"
    BY <1>3, <2>1, MsgTyped
  <2>. QED
    BY <2>2 DEF Messages
<1>. HIDE DEF q, msg
<1>10. w.epoch \in Nat /\ Onward(s, q.s) /\ LeadsEven(q.s) /\ q.s.epoch >= w.epoch
  <2>1. w.epoch \in Nat
    BY <1>3 DEF Monitors
  <2>. QED
    BY <1>1, <1>4, <1>7, <2>1 DEF Onward, LeadsEven
<1>11. Moves(m, C, ms, q)
  BY <1>7, <1>10, FineMoves DEF s
<1>. DEFINE ns == [ms EXCEPT ![m] = q.s]
<1>12. PICK D : /\ Extends(m, C, D) /\ Good(m, D, q.s)
                /\ \A d \in Rank : ChanOK(ns, D, m, d, q.out[d])
  BY <1>11 DEF Moves
<1>. HIDE DEF ns
<1>13. ASSUME NEW d \in Rank PROVE ChanOK(ns, D, m, d, v.out[d])
  <2>1. v.out[d] = <<msg>> \/ v.out[d] = <<>>
    BY <1>8 DEF SendTo
  <2>2. MsgOK(m, d, D, msg) /\ Direct(ns, m, d, msg)
    BY <1>4, <1>9 DEF MsgOK, Direct
  <2>3. <<msg>> \in Seq(Messages) /\ \A i \in 1 .. Len(<<msg>>) : <<msg>>[i] = msg
    BY <1>9
  <2>4. ChanOK(ns, D, m, d, <<msg>>)
    BY <2>2, <2>3 DEF ChanOK
  <2>. QED
    BY <2>1, <2>4, ChanEmpty
<1>14. r.s = q.s /\ \A d \in Rank : r.out[d] = v.out[d] \o q.out[d]
  BY DEF Then
<1>. HIDE DEF r
<1>15. \A d \in Rank : ChanOK(ns, D, m, d, r.out[d])
  BY <1>12, <1>13, <1>14, ChanConcat, ZenonT(40)
<1>16. Moves(m, C, ms, r)
  BY <1>10, <1>12, <1>14, <1>15 DEF Moves, ns, s
<1>. QED
  BY <1>16 DEF r, q

(***************************************************************************)
(* The steps.                                                               *)
(***************************************************************************)

\* The assertions of Paxos::dispatch and of the handlers hold where they are made.
LEMMA HandlerMoves ==
  ASSUME NEW m \in Rank, NEW C, NEW ms \in [Rank -> Monitors], NEW from \in Rank,
         NEW msg \in Messages, Consistent(C), Good(m, C, ms[m]), LeadsEven(ms[m]),
         MsgOK(from, m, C, msg), Direct(ms, from, m, msg), msg.epoch >= ms[m].epoch,
         msg.op = "VICTORY" \/ msg.epoch = ms[m].epoch,
         ForPaxos(ms[m], msg) => FromQuorum(ms[m], from) /\ Asserted(ms[m], from, msg)
  PROVE  Moves(m, C, ms, Handler(m, ms[m], from, msg))
<1>1. msg.op \in Ops
  BY DEF Messages
<1>2. CASE msg.op = "VICTORY"
  <2>1. Handler(m, ms[m], from, msg) = HandleVictory(m, ms[m], from, msg)
    BY <1>2 DEF Handler
  <2>2. msg.epoch % 2 = 0
    BY <1>2 DEF Direct
  <2>. QED
    BY <2>1, <2>2, HandleVictoryMoves
<1>3. ASSUME msg.op # "VICTORY"
      PROVE  FromQuorum(ms[m], from) /\ Asserted(ms[m], from, msg) /\ msg.epoch = ms[m].epoch
  BY <1>3 DEF ForPaxos
<1>4. CASE msg.op = "COLLECT"
  <2>1. Handler(m, ms[m], from, msg) = HandleCollect(m, ms[m], from, msg)
    BY <1>4 DEF Handler
  <2>2. ms[m].role # "leader"
    BY <1>3, <1>4 DEF Asserted
  <2>. QED
    BY <2>1, <2>2, HandleCollectFine, StaysMoves
<1>5. CASE msg.op = "LAST"
  <2>1. Handler(m, ms[m], from, msg) = HandleLast(m, ms[m], from, msg)
    BY <1>5 DEF Handler
  <2>. QED
    BY <1>5, <2>1, HandleLastFine, StaysMoves
<1>6. CASE msg.op = "BEGIN"
  <2>1. Handler(m, ms[m], from, msg) = HandleBegin(m, ms[m], from, msg)
    BY <1>6 DEF Handler
  <2>. QED
    BY <1>3, <1>6, <2>1, HandleBeginMoves
<1>7. CASE msg.op = "ACCEPT"
  <2>1. Handler(m, ms[m], from, msg) = HandleAccept(m, ms[m], from, msg)
    BY <1>7 DEF Handler
  <2>2. ms[m].role = "leader"
    <3>1. Past(ms[m], ms[m].epoch) /\ ms[m].epoch \in Nat
      BY <1>3, <1>7 DEF Direct, Monitors
    <3>2. ms[m].role # "peon"
      BY <3>1 DEF Past
    <3>. QED
      BY <1>3, <1>7, <3>2 DEF FromQuorum
  <2>3. Asserted(ms[m], from, msg)
    BY <1>3, <1>7
  <2>. QED
    BY <1>7, <2>1, <2>2, <2>3, HandleAcceptFine, StaysMoves
<1>8. CASE msg.op = "COMMIT"
  <2>1. Handler(m, ms[m], from, msg) = HandleCommit(m, ms[m], from, msg)
    BY <1>8 DEF Handler
  <2>. QED
    BY <2>1, HandleCommitFine, StaysMoves
<1>9. CASE msg.op = "LEASE"
  <2>1. Handler(m, ms[m], from, msg) = HandleLease(m, ms[m], from, msg)
    BY <1>9 DEF Handler
  <2>. QED
    BY <2>1, HandleLeaseFine, StaysMoves
<1>10. CASE msg.op = "LEASE_ACK"
  <2>1. Handler(m, ms[m], from, msg) = HandleLeaseAck(m, ms[m], from, msg)
    BY <1>10 DEF Handler
  <2>. QED
    BY <2>1, HandleLeaseAckFine, StaysMoves
<1>. QED
  BY <1>1, <1>2, <1>4, <1>5, <1>6, <1>7, <1>8, <1>9, <1>10 DEF Ops

\* A call that ends in bootstrap is a step.
LEMMA BootstrapMoves ==
  ASSUME NEW m \in Rank, NEW C, NEW ms \in [Rank -> Monitors], Consistent(C),
         Good(m, C, ms[m])
  PROVE  Moves(m, C, ms, Bootstrap(m, ms[m]))
<1>1. /\ Fine(m, C, ms[m].epoch, Bootstrap(m, ms[m]))
      /\ Bootstrap(m, ms[m]).s.epoch = ms[m].epoch /\ Bootstrap(m, ms[m]).s.role = "out"
  BY BootstrapFine
<1>2. ms[m].epoch \in Nat
  BY DEF Monitors
<1>3. /\ Onward(ms[m], Bootstrap(m, ms[m]).s) /\ LeadsEven(Bootstrap(m, ms[m]).s)
      /\ Bootstrap(m, ms[m]).s.epoch >= ms[m].epoch
  BY <1>1, <1>2 DEF Onward, LeadsEven
<1>. QED
  BY <1>1, <1>2, <1>3, FineMoves

LEMMA ReceiveKeeps ==
  ASSUME NEW C, Consistent(C), MonsOK(C, mon), NetOK(C, mon, net), CommittedOK(committed),
         NEW m \in Rank, NEW from \in Rank, Receive(m, from)
  PROVE  PaxosInv'
<1>. DEFINE ch == net[from][m]
            msg == Head(ch)
            r == IF msg.op # "VICTORY" /\ msg.epoch > mon[m].epoch THEN Bootstrap(m, mon[m])
                 ELSE Handler(m, mon[m], from, msg)
<1>1. /\ ch # <<>> /\ Step(m, {from}, r)
      /\ ForPaxos(mon[m], msg) => FromQuorum(mon[m], from) /\ Asserted(mon[m], from, msg)
  BY DEF Receive
<1>2. /\ mon \in [Rank -> Monitors] /\ Good(m, C, mon[m]) /\ LeadsEven(mon[m])
      /\ mon[m].epoch \in Nat
  BY DEF MonsOK, Monitors
<1>3. ChanOK(mon, C, from, m, ch) /\ HeadOK(mon[m], ch)
  BY DEF NetOK
<1>. HIDE DEF ch
<1>4. /\ msg \in Messages /\ MsgOK(from, m, C, msg) /\ Direct(mon, from, m, msg)
      /\ msg.epoch >= mon[m].epoch /\ msg.epoch \in Nat
  <2>1. ch \in Seq(Messages) /\ Len(ch) \in Nat /\ Len(ch) > 0
    BY <1>1, <1>3, EmptySeq DEF ChanOK
  <2>2. msg = ch[1] /\ 1 \in 1 .. Len(ch)
    BY <2>1
  <2>3. MsgOK(from, m, C, ch[1]) /\ Direct(mon, from, m, ch[1]) /\ ch[1] \in Messages
    BY <1>3, <2>1, <2>2 DEF ChanOK
  <2>4. ch[1].epoch >= mon[m].epoch /\ ch[1].epoch \in Nat
    BY <1>3, <2>1, <2>3 DEF HeadOK, Messages
  <2>. QED
    BY <2>2, <2>3, <2>4
<1>. HIDE DEF msg
<1>5. Moves(m, C, mon, r)
  <2>1. CASE msg.op # "VICTORY" /\ msg.epoch > mon[m].epoch
    <3>1. r = Bootstrap(m, mon[m])
      BY <2>1
    <3>. QED
      BY <1>2, <3>1, BootstrapMoves
  <2>2. CASE ~(msg.op # "VICTORY" /\ msg.epoch > mon[m].epoch)
    <3>1. r = Handler(m, mon[m], from, msg)
      BY <2>2
    <3>2. msg.op = "VICTORY" \/ msg.epoch = mon[m].epoch
      BY <1>2, <1>4, <2>2
    <3>. QED
      BY <1>1, <1>2, <1>4, <3>1, <3>2, HandlerMoves
  <2>. QED
    BY <2>1, <2>2
<1>. HIDE DEF r
<1>6. \A x \in {from} : net[x][m] # <<>>
  BY <1>1 DEF ch
<1>. QED
  BY <1>1, <1>5, <1>6, StepKeeps

LEMMA WinKeeps ==
  ASSUME NEW C, Consistent(C), MonsOK(C, mon), NetOK(C, mon, net), CommittedOK(committed),
         NEW m \in Rank, Win(m)
  PROVE  PaxosInv'
<1>1. mon \in [Rank -> Monitors] /\ Good(m, C, mon[m])
  BY DEF MonsOK
<1>2. Odd(mon[m].epoch)
  BY DEF Win
<1>3. PICK Q \in SUBSET Rank :
        /\ Majority(Q)
        /\ LET w == [mon[m] EXCEPT !.epoch = @ + 1, !.role = "leader",
                                   !.leader = m, !.quorum = Q]
               v == Sends(w, Q \ {m}, [Msg("VICTORY", w) EXCEPT !.quorum = Q])
           IN  Step(m, {}, Then(v, LeaderInit(m, w)))
  BY DEF Win
<1>. DEFINE w == [mon[m] EXCEPT !.epoch = @ + 1, !.role = "leader", !.leader = m, !.quorum = Q]
            v == Sends(w, Q \ {m}, [Msg("VICTORY", w) EXCEPT !.quorum = Q])
<1>4. Step(m, {}, Then(v, LeaderInit(m, w)))
  BY <1>3
<1>5. Moves(m, C, mon, Then(v, LeaderInit(m, w)))
  BY <1>1, <1>2, <1>3, WinMoves
<1>. HIDE DEF w, v
<1>. QED
  BY <1>4, <1>5, StepKeeps

LEMMA LocalStepKeeps ==
  ASSUME NEW C, Consistent(C), MonsOK(C, mon), NetOK(C, mon, net), CommittedOK(committed),
         NEW m \in Rank,
         FinishCommit(m) \/ Propose(m) \/ Timeout(m) \/ RenewLease(m) \/ Elect(m)
  PROVE  PaxosInv'
<1>. DEFINE s == mon[m]
<1>1. /\ mon \in [Rank -> Monitors] /\ Good(m, C, mon[m]) /\ LeadsEven(mon[m])
      /\ s \in Monitors /\ s.epoch \in Nat /\ s.last_committed \in Nat /\ s.num_last \in Nat
  BY DEF MonsOK, Monitors
<1>2. \A r : Moves(m, C, mon, r) /\ Step(m, {}, r) => PaxosInv'
  BY StepKeeps
<1>3. ASSUME FinishCommit(m) PROVE PaxosInv'
  <2>. DEFINE r == CommitFinish(m, s)
  <2>1. IsWriting(s) /\ Step(m, {}, r)
    BY <1>3 DEF FinishCommit
  <2>2. s.role = "leader"
    BY <1>1, <2>1 DEF Good, MemoryOK
  <2>3. Fine(m, C, s.epoch, r) /\ r.s.epoch = s.epoch /\ r.s.role # "peon"
    BY <1>1, <2>1, CommitFinishFine
  <2>. HIDE DEF r
  <2>4. Onward(s, r.s) /\ LeadsEven(r.s) /\ r.s.epoch >= s.epoch
    BY <1>1, <2>2, <2>3 DEF Onward, LeadsEven
  <2>5. Moves(m, C, mon, r)
    BY <1>1, <2>3, <2>4, FineMoves
  <2>. QED
    BY <1>2, <2>1, <2>5
<1>4. ASSUME Propose(m) PROVE PaxosInv'
  <2>. DEFINE t == [s EXCEPT !.pending = TRUE]
              r == IF s.state = "active" THEN ProposePending(m, s, 0) ELSE Done(t)
  <2>1. s.role = "leader" /\ Step(m, {}, r)
    BY <1>4 DEF Propose
  <2>2. CASE s.state = "active"
    <3>1. r = ProposePending(m, s, 0)
      BY <2>2
    <3>2. /\ Fine(m, C, s.epoch, ProposePending(m, s, 0))
          /\ ProposePending(m, s, 0).s.epoch = s.epoch
          /\ ProposePending(m, s, 0).s.role = "leader"
      BY <1>1, <2>1, <2>2, ProposePendingFine
    <3>3. Stays(s, ProposePending(m, s, 0))
      BY <2>1, <3>2 DEF Stays
    <3>. HIDE DEF r
    <3>4. Moves(m, C, mon, r)
      BY <1>1, <3>1, <3>2, <3>3, StaysMoves
    <3>. QED
      BY <1>2, <2>1, <3>4
  <2>3. CASE s.state # "active"
    <3>1. r = Done(t)
      BY <2>3
    <3>2. t \in Monitors /\ SameStore(s, t) /\ SameRound(s, t) /\ t.epoch = s.epoch
      <4>. HIDE DEF s
      <4>1. t \in Monitors
        BY <1>1 DEF Monitors
      <4>. QED
        BY <1>1, <4>1 DEF Monitors, SameStore, SameRound
    <3>. HIDE DEF t, r
    <3>3. Good(m, C, t) /\ t.role = s.role
      BY <1>1, <3>2, GoodKept DEF SameRound
    <3>4. Fine(m, C, s.epoch, Done(t)) /\ Stays(t, Done(t))
      BY <3>3, DoneFine, DoneStays
    <3>5. Stays(s, Done(t))
      BY <3>2, <3>3, <3>4 DEF Stays
    <3>6. Moves(m, C, mon, r)
      BY <1>1, <3>1, <3>4, <3>5, StaysMoves
    <3>. QED
      BY <1>2, <2>1, <3>6
  <2>. QED
    BY <2>2, <2>3
<1>5. ASSUME Timeout(m) PROVE PaxosInv'
  <2>1. Step(m, {}, Bootstrap(m, s)) /\ Moves(m, C, mon, Bootstrap(m, s))
    BY <1>1, <1>5, BootstrapMoves DEF Timeout
  <2>. QED
    BY <1>2, <2>1
<1>6. ASSUME RenewLease(m) PROVE PaxosInv'
  <2>. DEFINE t == [s EXCEPT !.events = @ \ {"lease_renew"}]
              r == ExtendLease(m, t)
  <2>1. Step(m, {}, r) /\ "lease_renew" \in s.events
    BY <1>6 DEF RenewLease
  <2>2. t \in Monitors /\ SameStore(s, t) /\ SameRound(s, t) /\ t.epoch = s.epoch
    BY <1>1 DEF Monitors, SameStore, SameRound
  <2>. HIDE DEF t
  <2>3. Good(m, C, t) /\ t.role = s.role
    BY <1>1, <2>2, GoodKept DEF SameRound
  <2>4. /\ Outs(m, C, s.epoch, r.out) /\ Good(m, C, r.s) /\ r.s.role = s.role
        /\ r.s.epoch = s.epoch /\ Quiet(r.out)
    <3>1. /\ Outs(m, C, t.epoch, r.out) /\ Good(m, C, r.s) /\ SameRound(t, r.s)
          /\ r.s.epoch = t.epoch
      BY <2>3, ExtendLeaseFine
    <3>2. Quiet(r.out)
      <4>. DEFINE msg == [Msg("LEASE", t) EXCEPT !.lc = t.last_committed, !.fc = t.first_committed]
      <4>1. r.out = SendTo(t.quorum \ {m}, msg)
        BY DEF ExtendLease, Sends
      <4>2. msg.op = "LEASE"
        BY DEF Msg
      <4>. HIDE DEF msg
      <4>. QED
        BY <4>1, <4>2, SendQuiet
    <3>. HIDE DEF r
    <3>. QED
      BY <2>2, <2>3, <3>1, <3>2 DEF SameRound
  <2>. HIDE DEF r
  <2>5. Fine(m, C, s.epoch, r) /\ Stays(s, r)
    BY <2>4, PlainFine DEF Stays
  <2>6. Moves(m, C, mon, r)
    BY <1>1, <2>5, StaysMoves
  <2>. QED
    BY <1>2, <2>1, <2>6
<1>7. ASSUME Elect(m) PROVE PaxosInv'
  <2>1. PICK e \in mon[m].epoch + 1 .. EpochBound : Step(m, {}, JoinElection(m, mon[m], e))
    BY <1>7 DEF Elect
  <2>. DEFINE r == JoinElection(m, s, e)
  <2>2. e \in Nat /\ e > s.epoch
    BY <1>1, <2>1
  <2>3. Fine(m, C, e, r) /\ r.s.epoch = e /\ r.s.role = "out"
    BY <1>1, <2>2, JoinElectionFine
  <2>4. Step(m, {}, r)
    BY <2>1
  <2>. HIDE DEF r
  <2>5. Onward(s, r.s) /\ LeadsEven(r.s) /\ r.s.epoch >= e
    BY <1>1, <2>2, <2>3 DEF Onward, LeadsEven
  <2>6. Moves(m, C, mon, r)
    BY <1>1, <2>2, <2>3, <2>5, FineMoves
  <2>. QED
    BY <1>2, <2>4, <2>6
<1>. QED
  BY <1>3, <1>4, <1>5, <1>6, <1>7

LEMMA IgnoreVictoryKeeps ==
  ASSUME NEW C, Consistent(C), MonsOK(C, mon), NetOK(C, mon, net), CommittedOK(committed),
         NEW m \in Rank, NEW from \in Rank, IgnoreVictory(m, from)
  PROVE  PaxosInv'
<1>1. mon \in [Rank -> Monitors] /\ Good(m, C, mon[m]) /\ LeadsEven(mon[m])
  BY DEF MonsOK
<1>2. net[from][m] # <<>> /\ Step(m, {from}, Done(mon[m]))
  BY DEF IgnoreVictory
<1>3. Moves(m, C, mon, Done(mon[m]))
  BY <1>1, DoneFine, DoneStays, StaysMoves
<1>4. \A x \in {from} : net[x][m] # <<>>
  BY <1>2
<1>. QED
  BY <1>2, <1>3, <1>4, StepKeeps

LEMMA InvInit == Init => PaxosInv
<1>. SUFFICES ASSUME Init PROVE PaxosInv
  OBVIOUS
<1>1. /\ mon = [m \in Rank |-> Fresh] /\ net = [m \in Rank |-> [d \in Rank |-> <<>>]]
      /\ committed = {}
  BY DEF Init
<1>2. Consistent({})
  BY DEF Consistent
<1>3. ASSUME NEW m \in Rank PROVE Good(m, {}, Fresh) /\ LeadsEven(Fresh)
  <2>1. /\ Fresh.first_committed = 0 /\ Fresh.last_committed = 0 /\ Fresh.pending_v = 0
        /\ NoValue.trim = 0 /\ NoneUncommitted.v = 0
    BY DEF Fresh, NoValue, NoneUncommitted
  <2>2. StoreOK({}, Fresh)
    BY <2>1 DEF StoreOK
  <2>3. MemoryOK(Fresh)
    BY <2>1, FreshTyped DEF MemoryOK, IsWriting
  <2>4. LeaderOK(m, {}, Fresh) /\ OwnerOK(m, {}, Fresh) /\ LeadsEven(Fresh)
    BY FreshTyped DEF LeaderOK, OwnerOK, LeadsEven
  <2>. QED
    BY <2>2, <2>3, <2>4, FreshTyped DEF Good
<1>4. MonsOK({}, mon)
  BY <1>1, <1>3, FreshTyped DEF MonsOK
<1>5. NetOK({}, mon, net)
  <2>1. \A x, d \in Rank : net[x][d] = <<>>
    BY <1>1
  <2>2. \A x, d \in Rank : ChanOK(mon, {}, x, d, net[x][d]) /\ HeadOK(mon[d], net[x][d])
    <3>1. \A x, d \in Rank : Len(net[x][d]) = 0
      BY <2>1
    <3>. QED
      BY <2>1, <3>1, ChanEmpty DEF HeadOK
  <2>3. net \in [Rank -> [Rank -> Seq(Messages)]]
    BY <1>1
  <2>. QED
    BY <2>2, <2>3 DEF NetOK
<1>. QED
  BY <1>1, <1>2, <1>4, <1>5 DEF PaxosInv, CommittedOK

LEMMA InvNext == PaxosInv /\ [Next]_vars => PaxosInv'
<1>. SUFFICES ASSUME PaxosInv, [Next]_vars PROVE PaxosInv'
  OBVIOUS
<1>1. PICK C : Consistent(C) /\ MonsOK(C, mon) /\ NetOK(C, mon, net)
  BY DEF PaxosInv
<1>2. CommittedOK(committed)
  BY DEF PaxosInv
<1>3. CASE UNCHANGED vars
  BY <1>3 DEF PaxosInv, vars
<1>4. ASSUME NEW m \in Rank, NEW from \in Rank, Receive(m, from) PROVE PaxosInv'
  BY <1>1, <1>2, <1>4, ReceiveKeeps
<1>5. ASSUME NEW m \in Rank, NEW from \in Rank, IgnoreVictory(m, from) PROVE PaxosInv'
  BY <1>1, <1>2, <1>5, IgnoreVictoryKeeps
<1>6. ASSUME NEW m \in Rank, NEW from \in Rank, Abort(m, from) PROVE PaxosInv'
  <2>1. Die(m)
    BY <1>6 DEF Abort
  <2>. QED
    BY <1>1, <1>2, <2>1, DieKeeps
<1>7. ASSUME NEW m \in Rank,
             FinishCommit(m) \/ Propose(m) \/ Timeout(m) \/ RenewLease(m) \/ Elect(m)
      PROVE  PaxosInv'
  BY <1>1, <1>2, <1>7, LocalStepKeeps
<1>8. ASSUME NEW m \in Rank, Win(m) PROVE PaxosInv'
  BY <1>1, <1>2, <1>8, WinKeeps
<1>9. ASSUME NEW m \in Rank, Restart(m) PROVE PaxosInv'
  <2>1. Die(m)
    BY <1>9 DEF Restart
  <2>. QED
    BY <1>1, <1>2, <2>1, DieKeeps
<1>. QED
  BY <1>3, <1>4, <1>5, <1>6, <1>7, <1>8, <1>9 DEF Next

LEMMA InvTypes == PaxosInv => TypeOK
<1>. SUFFICES ASSUME PaxosInv PROVE TypeOK
  OBVIOUS
<1>1. PICK D : MonsOK(D, mon) /\ NetOK(D, mon, net)
  BY DEF PaxosInv
<1>2. ASSUME NEW s \in Monitors
      PROVE  /\ s \in MonitorState(s.log, s.peer_lc)
             /\ Maps(s.log, Nat, Value) /\ Maps(s.peer_lc, Rank, Nat)
  <2>1. s \in MonitorState(s.log, s.peer_lc)
    BY DEF Monitors, MonitorState
  <2>2. s.log \in VMaps /\ s.peer_lc \in PeerMaps
    BY DEF Monitors
  <2>. QED
    BY <2>1, <2>2, VMapsDef, PeerMapsDef DEF Maps
<1>3. ASSUME NEW msg \in Messages
      PROVE  msg \in Message(msg.values) /\ Maps(msg.values, Nat, Value)
  <2>1. msg \in Message(msg.values)
    BY DEF Messages, Message
  <2>2. msg.values \in VMaps
    BY DEF Messages
  <2>. QED
    BY <2>1, <2>2, VMapsDef DEF Maps
<1>4. \A m \in Rank : mon[m] \in Monitors
  BY <1>1 DEF MonsOK
<1>5. ASSUME NEW m \in Rank, NEW d \in Rank, NEW i \in DOMAIN net[m][d]
      PROVE  net[m][d][i] \in Messages
  <2>1. net[m][d] \in Seq(Messages)
    BY <1>1 DEF NetOK
  <2>. QED
    BY <2>1
<1>6. \A c \in committed : c.v \in Nat \ {0} /\ c.value \in Value
  BY DEF PaxosInv, CommittedOK
<1>. QED
  BY <1>2, <1>3, <1>4, <1>5, <1>6 DEF TypeOK

LEMMA InvOneValue == PaxosInv => OneValuePerPn
<1>. SUFFICES ASSUME PaxosInv, NEW m \in Rank, NEW x \in Rank, NEW v,
                     v = mon[m].pending_v, v > 0, v = mon[x].pending_v,
                     mon[m].pending_pn = mon[x].pending_pn,
                     mon[m].last_committed < v, mon[x].last_committed < v
              PROVE  mon[m].log[v] = mon[x].log[v]
  BY DEF OneValuePerPn
<1>1. PICK D : Consistent(D) /\ MonsOK(D, mon)
  BY DEF PaxosInv
<1>2. CASE N = 1
  <2>1. m = x
    BY <1>2 DEF Rank
  <2>. QED
    BY <2>1
<1>3. CASE N # 1
  <2>1. N > 1
    BY <1>3, NAssumption
  <2>. DEFINE a == [v |-> v, pn |-> mon[m].pending_pn, x |-> mon[m].log[v]]
              b == [v |-> v, pn |-> mon[x].pending_pn, x |-> mon[x].log[v]]
  <2>2. ASSUME NEW k \in Rank, v = mon[k].pending_v, mon[k].last_committed < v
        PROVE  [v |-> v, pn |-> mon[k].pending_pn, x |-> mon[k].log[v]] \in D
    <3>1. StoreOK(D, mon[k]) /\ mon[k].pending_v \in Nat /\ mon[k].last_committed \in Nat
      BY <1>1 DEF MonsOK, Good, Monitors
    <3>. QED
      BY <2>2, <3>1 DEF StoreOK
  <2>3. a \in D /\ b \in D
    BY <2>2
  <2>4. a.v = b.v /\ a.pn = b.pn /\ a.x = mon[m].log[v] /\ b.x = mon[x].log[v]
    OBVIOUS
  <2>. HIDE DEF a, b
  <2>5. a.x = b.x
    BY <1>1, <2>1, <2>3, <2>4 DEF Consistent
  <2>. QED
    BY <2>4, <2>5
<1>. QED
  BY <1>2, <1>3

(***************************************************************************)
(* The theorems.                                                            *)
(***************************************************************************)

\* The state of every monitor, the messages in flight and the history of the
\* commits keep their types, whatever elections, answers, timeouts, restarts
\* and losses do to the handlers of Paxos.cc.
THEOREM PaxosTypes == Spec => []TypeOK
<1>1. PaxosInv => TypeOK
  BY InvTypes
<1>. QED
  BY <1>1, InvInit, InvNext, PTL DEF Spec

\* However many monitors there are, a proposal number stands for one value: no
\* two stores hold different values for a version under the same pending_pn,
\* though a leader may propose a version again after a collect, die between
\* begin and commit, or hear the answers to an earlier collect.
THEOREM PaxosOneValue == Spec => []OneValuePerPn
<1>1. PaxosInv => OneValuePerPn
  BY InvOneValue
<1>. QED
  BY <1>1, InvInit, InvNext, PTL DEF Spec
=============================================================================
