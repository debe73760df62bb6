-------------------------- MODULE ServiceLifeProofs --------------------------
(***************************************************************************)
(* The life of a service in and out of a quorum, for any number of services *)
(* and requests and every value of the bounds.                              *)
(*                                                                          *)
(* A monitor that leaves its quorum has dropped all that Paxos had in the   *)
(* works, and each of its services drops its own before the lock is free    *)
(* again (Leaving).  In a quorum (Member) a service has one token at most:  *)
(* a pending value, the call or the context that will make it active, or    *)
(* the C_Committed of its proposal.  So nothing makes it active, and ends   *)
(* the contexts that wait for its proposal, before that is committed.       *)
(***************************************************************************)
EXTENDS PaxosServiceProofs

\* The calls on the agenda, and those that come after the first
Todo == Range(agenda)
Later == IF agenda = <<>> THEN {} ELSE Range(Tail(agenda))

Does(D) == \E c \in Todo : c.do \in D

\* How many elements of the sequence q are in W
Count(q, W) == Cardinality({i \in DOMAIN q : q[i] \in W})

-----------------------------------------------------------------------------
(* In and out of a quorum *)

Resetting == role \in {"probing", "electing"} \/ Does({"role"})

\* What the lists may hold
ListInv ==
  /\ \A s \in Services : \A c \in Range(svc[s].waiting) : c.kind \in {"retry", "ack"}
  /\ \A c \in Range(px.active) : c.kind \in {"active", "retry"}
  /\ \A c \in Range(px.readable) : c.kind = "retry"
  /\ \A c \in Range(px.pending) \cup Range(px.committing) : c.kind = "committed"

\* What is pending belongs to the service, and it proposes or has a pending value.
ValueInv ==
  \A s \in Services :
    /\ \A c \in svc[s].value : c.svc = s
    /\ svc[s].value # {} => svc[s].have_pending
    /\ svc[s].proposing => ~svc[s].have_pending

\* Paxos has nothing in the works, and the services will soon have nothing either.
Leaving ==
  /\ px.state = "recovering" /\ px.value = None /\ px.txn = None
  /\ px.pending = <<>> /\ px.committing = <<>> /\ px.active = <<>>
  /\ \A c \in Todo : c.do \in {"again", "dispatch", "restart", "discard", "role"}
  /\ \A s \in Services :
       /\ svc[s].have_pending \/ svc[s].proposing =>
            Call("restart", s) \in Todo \/ Call("discard", s) \in Todo
       /\ svc[s].timer \/ (\E c \in Range(svc[s].waiting) : c.kind = "ack") =>
            Call("restart", s) \in Todo

-----------------------------------------------------------------------------
(* The monitor is in a quorum *)

Works == {"active", "updating", "writing"}
Proposes(c) == c.do \in {"propose", "plugged"}

\* Nothing is left of a reset.
CallInv ==
  \A c \in Todo : /\ c.do \notin {"restart", "discard"}
                  /\ c.do = "again" => c.arg.kind \in {"retry", "ack"}

\* Proposals come first on the agenda q: at most two, of two services, and a
\* plugged one is followed by another.
ProposesFirst(q) ==
  /\ \A i \in DOMAIN q : Proposes(q[i]) => i <= 2 /\ Proposes(q[1])
  /\ \A i \in DOMAIN q : i = 2 /\ Proposes(q[2]) => q[1].arg # q[2].arg /\ q[2].do = "propose"
  /\ \A i \in DOMAIN q : i = 1 /\ q[1].do = "plugged" => 2 \in DOMAIN q /\ Proposes(q[2])

ProposeInv ==
  /\ \A c \in Todo : Proposes(c) => MayPropose(c.arg)
  /\ ProposesFirst(agenda)

\* The states of Paxos, and what the thread with the lock will do about them
RoundInv ==
  /\ px.value # None => px.state \in Proposing
  /\ px.state \in {"writing", "writing_previous"} => role = "leader"
  /\ role = "peon" => px.state \in {"recovering", "active"}
  /\ px.state = "refresh" => Does({"round"})
  /\ Does({"round"}) => role = "leader" /\ px.state \in {"recovering", "refresh"}
  /\ Does({"rest"}) => role = "leader" /\ px.state \in {"active", "updating"}
  /\ Does({"finish", "readable"}) => px.state # "recovering"
  /\ Count(agenda, {Call("round", None)}) <= 1

\* A transaction that is not proposed yet will be, and what is committed is what
\* was proposed.
QueueInv ==
  /\ px.pending # <<>> =>
       /\ px.txn # None
       /\ \/ px.state \in {"updating", "writing", "refresh"}
          \/ px.state = "active" /\ (Does({"rest"}) \/ (agenda # <<>> /\ agenda[1].do = "propose"))
  /\ px.committing # <<>> => px.state \in {"updating", "writing"}
  /\ px.state \in {"recovering", "updating_previous", "writing_previous"} => Txn(px) = {}

\* What will make s active, and what will tell it that its proposal is committed
WakeCalls(s) == {Call("elected", s), Call("active", s), Call("finish", Context("active", s))}
ToldCalls(s) == {Call("finish", Context("committed", s))}
Wakes(s) == Count(agenda, WakeCalls(s)) + Count(px.active, {Context("active", s)})
Tells(s) ==
  Count(agenda, ToldCalls(s)) + Count(px.committing, {Context("committed", s)})
    + Count(px.pending, {Context("committed", s)})

TokenInv ==
  \A s \in Services :
    /\ Wakes(s) + Tells(s) + (IF svc[s].have_pending THEN 1 ELSE 0) <= 1
    /\ svc[s].proposing <=> Tells(s) = 1
    /\ svc[s].have_pending \/ svc[s].proposing => role = "leader" /\ px.state \in Works \cup {"refresh"}
    /\ svc[s].timer => svc[s].have_pending

Member == CallInv /\ ProposeInv /\ RoundInv /\ QueueInv /\ TokenInv

Life == /\ TypeInv /\ ListInv /\ ValueInv
        /\ IF Resetting THEN Leaving ELSE Member

-----------------------------------------------------------------------------
(* Lemmas about counting in sequences *)

LEMMA CountType ==
  ASSUME NEW S, NEW q \in Seq(S), NEW W
  PROVE  /\ IsFiniteSet({i \in DOMAIN q : q[i] \in W})
         /\ Count(q, W) \in Nat
         /\ Count(q, W) = 0 <=> (\A c \in Range(q) : c \notin W)
<1> DEFINE I == {i \in DOMAIN q : q[i] \in W}
<1>1. IsFiniteSet(DOMAIN q)
  BY FS_Interval
<1>2. IsFiniteSet(I)
  BY <1>1, FS_Subset
<1>3. Count(q, W) = Cardinality(I) /\ Count(q, W) \in Nat
  BY <1>2, FS_CardinalityType DEF Count
<1>4. I = {} <=> \A c \in Range(q) : c \notin W
  BY DEF Range
<1> HIDE DEF I
<1>5. Cardinality(I) = 0 <=> I = {}
  BY <1>2, FS_EmptySet
<1>6. Count(q, W) = 0 <=> (\A c \in Range(q) : c \notin W)
  BY <1>3, <1>4, <1>5
<1> QED BY <1>2, <1>3, <1>6 DEF I

LEMMA CountConcat ==
  ASSUME NEW S, NEW q \in Seq(S), NEW r \in Seq(S), NEW W
  PROVE  /\ Count(q \o r, W) = Count(q, W) + Count(r, W)
         /\ Range(q \o r) = Range(q) \cup Range(r)
         /\ q \o r \in Seq(S)
<1> DEFINE I == {i \in DOMAIN q : q[i] \in W}
           J == {i \in DOMAIN r : r[i] \in W}
           K == {i + Len(q) : i \in J}
           f == [i \in J |-> i + Len(q)]
<1>1. /\ IsFiniteSet(I) /\ IsFiniteSet(J)
      /\ Count(q, W) = Cardinality(I) /\ Count(r, W) = Cardinality(J)
      /\ Count(q, W) \in Nat /\ Count(r, W) \in Nat
  BY CountType DEF Count
<1>2. /\ DOMAIN (q \o r) = 1 .. Len(q) + Len(r) /\ Len(q) \in Nat /\ Len(r) \in Nat
      /\ DOMAIN q = 1 .. Len(q) /\ DOMAIN r = 1 .. Len(r)
      /\ \A i \in 1 .. Len(q) + Len(r) : (q \o r)[i] = IF i <= Len(q) THEN q[i] ELSE r[i - Len(q)]
  OBVIOUS
<1>3. {i \in DOMAIN (q \o r) : (q \o r)[i] \in W} = I \cup K
  <2>1. ASSUME NEW i \in DOMAIN (q \o r), (q \o r)[i] \in W PROVE i \in I \cup K
    <3>1. CASE i <= Len(q)
      BY <1>2, <2>1, <3>1
    <3>2. CASE ~(i <= Len(q))
      <4>1. i - Len(q) \in J
        BY <1>2, <2>1, <3>2
      <4>2. i = (i - Len(q)) + Len(q)
        BY <1>2
      <4> QED BY <4>1, <4>2
    <3> QED BY <3>1, <3>2
  <2>2. ASSUME NEW i \in I PROVE i \in DOMAIN (q \o r) /\ (q \o r)[i] \in W
    BY <1>2
  <2>3. ASSUME NEW j \in J PROVE j + Len(q) \in DOMAIN (q \o r) /\ (q \o r)[j + Len(q)] \in W
    <3>1. j \in 1 .. Len(r) /\ r[j] \in W
      BY <1>2
    <3>2. j + Len(q) \in 1 .. Len(q) + Len(r) /\ ~(j + Len(q) <= Len(q)) /\ (j + Len(q)) - Len(q) = j
      BY <1>2, <3>1
    <3> QED BY <1>2, <3>1, <3>2
  <2> QED BY <2>1, <2>2, <2>3
<1>4. I \cap K = {}
  BY <1>2
<1>5. f \in Bijection(J, K)
  <2>1. \A i \in J : f[i] \in K
    OBVIOUS
  <2>2. \A k \in K : \E i \in J : f[i] = k
    OBVIOUS
  <2>3. \A i, j \in J : f[i] = f[j] => i = j
    BY <1>2
  <2> QED BY <2>1, <2>2, <2>3 DEF Bijection, Injection, Surjection, IsInjective
<1> HIDE DEF I, J, K, f
<1>6. IsFiniteSet(K) /\ Cardinality(K) = Cardinality(J)
  BY <1>1, <1>5, FS_Bijection DEF ExistsBijection
<1>7. Cardinality(I \cup K) = Cardinality(I) + Cardinality(K)
  <2>1. Cardinality(I \cup K) = Cardinality(I) + Cardinality(K) - Cardinality(I \cap K)
    BY <1>1, <1>6, FS_Union
  <2>2. Cardinality(I) \in Nat /\ Cardinality(K) \in Nat /\ Cardinality(I \cap K) = 0
    BY <1>1, <1>4, <1>6, FS_CardinalityType, FS_EmptySet
  <2> QED BY <2>1, <2>2
<1>8. Count(q \o r, W) = Count(q, W) + Count(r, W)
  BY <1>1, <1>3, <1>6, <1>7 DEF Count
<1>9. Range(q \o r) = Range(q) \cup Range(r)
  <2>1. ASSUME NEW i \in DOMAIN (q \o r) PROVE (q \o r)[i] \in Range(q) \cup Range(r)
    <3>1. CASE i <= Len(q)
      BY <1>2, <3>1 DEF Range
    <3>2. CASE ~(i <= Len(q))
      <4>1. i - Len(q) \in DOMAIN r
        BY <1>2, <3>2
      <4> QED BY <1>2, <3>2, <4>1 DEF Range
    <3> QED BY <3>1, <3>2
  <2>2. ASSUME NEW i \in DOMAIN q PROVE q[i] \in Range(q \o r)
    BY <1>2 DEF Range
  <2>3. ASSUME NEW i \in DOMAIN r PROVE r[i] \in Range(q \o r)
    <3>1. i + Len(q) \in DOMAIN (q \o r) /\ (q \o r)[i + Len(q)] = r[i]
      BY <1>2
    <3> QED BY <3>1 DEF Range
  <2> QED BY <2>1, <2>2, <2>3 DEF Range
<1> QED BY <1>8, <1>9

LEMMA CountShort ==
  /\ \A W : Count(<<>>, W) = 0
  /\ Range(<<>>) = {}
  /\ \A c, W : Count(<<c>>, W) = IF c \in W THEN 1 ELSE 0
  /\ \A c : Range(<<c>>) = {c}
<1>1. \A W : Count(<<>>, W) = 0
  BY FS_EmptySet DEF Count
<1>2. ASSUME NEW c, NEW W PROVE Count(<<c>>, W) = IF c \in W THEN 1 ELSE 0
  <2>1. {i \in DOMAIN <<c>> : <<c>>[i] \in W} = IF c \in W THEN {1} ELSE {}
    OBVIOUS
  <2> QED BY <2>1, FS_EmptySet, FS_Singleton DEF Count
<1>3. Range(<<>>) = {} /\ \A c : Range(<<c>>) = {c}
  BY DEF Range
<1> QED BY <1>1, <1>2, <1>3

LEMMA CountAppend ==
  ASSUME NEW S, NEW q \in Seq(S), NEW c \in S, NEW W
  PROVE  /\ Count(Append(q, c), W) = Count(q, W) + (IF c \in W THEN 1 ELSE 0)
         /\ Range(Append(q, c)) = Range(q) \cup {c}
         /\ Append(q, c) \in Seq(S) /\ Append(q, c) # <<>>
<1>1. Append(q, c) = q \o <<c>> /\ <<c>> \in Seq(S)
  OBVIOUS
<1>2. Append(q, c) \in Seq(S) /\ Len(Append(q, c)) = Len(q) + 1 /\ Len(q) \in Nat
  OBVIOUS
<1>3. Append(q, c) # <<>>
  <2> DEFINE a == Append(q, c)
  <2> HIDE DEF a
  <2>1. Len(a) > 0
    BY <1>2 DEF a
  <2>2. a # <<>>
    BY <2>1
  <2> QED BY <2>2 DEF a
<1>4. /\ Count(q \o <<c>>, W) = Count(q, W) + Count(<<c>>, W)
      /\ Range(q \o <<c>>) = Range(q) \cup Range(<<c>>)
  <2>1. \A x, y \in Seq(S) : /\ Count(x \o y, W) = Count(x, W) + Count(y, W)
                             /\ Range(x \o y) = Range(x) \cup Range(y)
    BY CountConcat
  <2> QED BY <1>1, <2>1
<1> QED BY <1>1, <1>2, <1>3, <1>4, CountShort

LEMMA CountTail ==
  ASSUME NEW S, NEW q \in Seq(S), q # <<>>, NEW W
  PROVE  /\ Count(q, W) = (IF Head(q) \in W THEN 1 ELSE 0) + Count(Tail(q), W)
         /\ Range(q) = {Head(q)} \cup Range(Tail(q))
         /\ Tail(q) \in Seq(S) /\ Head(q) \in S
<1>1. q = <<Head(q)>> \o Tail(q) /\ <<Head(q)>> \in Seq(S) /\ Tail(q) \in Seq(S) /\ Head(q) \in S
  OBVIOUS
<1> DEFINE h == Head(q)
           r == Tail(q)
<1> HIDE DEF h, r
<1>2. q = <<h>> \o r /\ <<h>> \in Seq(S) /\ r \in Seq(S) /\ h \in S
  BY <1>1 DEF h, r
<1>3. Count(q, W) = (IF h \in W THEN 1 ELSE 0) + Count(r, W) /\ Range(q) = {h} \cup Range(r)
  <2>1. Count(q, W) = Count(<<h>>, W) + Count(r, W) /\ Range(q) = Range(<<h>>) \cup Range(r)
    <3>1. \A x, y \in Seq(S) : /\ Count(x \o y, W) = Count(x, W) + Count(y, W)
                               /\ Range(x \o y) = Range(x) \cup Range(y)
      BY CountConcat
    <3> QED BY <1>2, <3>1
  <2> QED BY <2>1, CountShort
<1> QED BY <1>2, <1>3 DEF h, r

LEMMA CountTwo ==
  ASSUME NEW c, NEW d
  PROVE  /\ \A W : Count(<<c, d>>, W) = (IF c \in W THEN 1 ELSE 0) + (IF d \in W THEN 1 ELSE 0)
         /\ Range(<<c, d>>) = {c, d}
<1> DEFINE S == {c, d}
<1>1. <<c, d>> = Append(<<c>>, d) /\ <<c>> \in Seq(S) /\ d \in S
  OBVIOUS
<1> HIDE DEF S
<1>2. /\ \A W : Count(Append(<<c>>, d), W) = Count(<<c>>, W) + (IF d \in W THEN 1 ELSE 0)
      /\ Range(Append(<<c>>, d)) = Range(<<c>>) \cup {d}
  BY <1>1, CountAppend, ZenonT(40)
<1> QED BY <1>1, <1>2, CountShort

\* The contexts of a list when it is finished
LEMMA CountFinish ==
  ASSUME NEW q \in Seq(Contexts), NEW ok \in BOOLEAN, NEW do, do = IF ok THEN "finish" ELSE "again"
  PROVE  /\ Range(Finish(q, ok)) = {Call(do, c) : c \in Range(q)}
         /\ Finish(q, ok) \in Seq(Calls)
         /\ \A c \in Range(Finish(q, ok)) : c.do = do /\ c.arg \in Range(q)
<1> DEFINE f == Finish(q, ok)
<1>1. /\ f \in Seq(Calls) /\ DOMAIN f = DOMAIN q
      /\ \A i \in DOMAIN q : q[i] \in Contexts /\ f[i] = Call(do, q[i])
  BY FinishSeq
<1> HIDE DEF f
<1>2. Range(f) = {Call(do, c) : c \in Range(q)}
  BY <1>1 DEF Range
<1>3. ASSUME NEW c \in Range(f) PROVE c.do = do /\ c.arg \in Range(q)
  <2>1. PICK x \in Range(q) : c = Call(do, x)
    BY <1>2
  <2> QED BY <2>1 DEF Call
<1> QED BY <1>1, <1>2, <1>3 DEF f

LEMMA CountFinished ==
  ASSUME NEW q \in Seq(Contexts), NEW W, NEW X, \A c \in Contexts : Call("finish", c) \in W <=> c \in X
  PROVE  Count(Finish(q, TRUE), W) = Count(q, X)
<1> DEFINE f == Finish(q, TRUE)
<1>1. DOMAIN f = DOMAIN q /\ \A i \in DOMAIN q : q[i] \in Contexts /\ f[i] = Call("finish", q[i])
  BY FinishSeq
<1> HIDE DEF f
<1>2. {i \in DOMAIN f : f[i] \in W} = {i \in DOMAIN q : q[i] \in X}
  BY <1>1
<1> QED BY <1>2 DEF Count, f

\* One call for each service
LEMMA CountForEach ==
  ASSUME NEW do \in ServiceCalls
  PROVE  /\ Range(ForEach(do)) = {Call(do, s) : s \in Services}
         /\ ForEach(do) \in Seq(Calls)
         /\ \A W : \A s \in Services : W \cap Range(ForEach(do)) = {Call(do, s)} => Count(ForEach(do), W) = 1
<1>1. /\ ForEach(do) \in Seq(Calls) /\ DOMAIN ForEach(do) = 1 .. Len(Order) /\ DOMAIN Order = 1 .. Len(Order)
      /\ \A i \in 1 .. Len(Order) : Order[i] \in Services /\ ForEach(do)[i] = Call(do, Order[i])
      /\ \A s \in Services : \E i \in 1 .. Len(Order) : Order[i] = s
  BY ForEachSeq, OrderAssumption
<1>2. Range(ForEach(do)) = {Call(do, s) : s \in Services}
  BY <1>1 DEF Range
<1>3. ASSUME NEW W, NEW s \in Services, W \cap Range(ForEach(do)) = {Call(do, s)}
      PROVE  Count(ForEach(do), W) = 1
  <2>1. PICK i \in 1 .. Len(Order) : Order[i] = s
    BY <1>1
  <2>2. \A j \in 1 .. Len(Order) : Order[j] = s => j = i
    BY <1>1, <2>1, OrderAssumption
  <2>3. \A j \in 1 .. Len(Order) : ForEach(do)[j] \in W <=> Order[j] = s
    <3>1. \A j \in 1 .. Len(Order) : ForEach(do)[j] \in Range(ForEach(do))
      BY <1>1 DEF Range
    <3>2. \A j \in 1 .. Len(Order) : ForEach(do)[j] \in W <=> ForEach(do)[j] = Call(do, s)
      BY <1>3, <3>1
    <3> QED BY <1>1, <3>2 DEF Call
  <2>4. {j \in DOMAIN ForEach(do) : ForEach(do)[j] \in W} = {i}
    BY <1>1, <2>1, <2>2, <2>3
  <2> QED BY <2>4, FS_Singleton DEF Count
<1> QED BY <1>1, <1>2, <1>3

LEMMA CountContexts ==
  /\ \A q \in Seq(Contexts) : \A c \in Contexts :
       /\ Range(Append(q, c)) = Range(q) \cup {c} /\ Append(q, c) \in Seq(Contexts) /\ Append(q, c) # <<>>
       /\ \A W : Count(Append(q, c), W) = Count(q, W) + (IF c \in W THEN 1 ELSE 0)
  /\ \A q \in Seq(Contexts) : \A W :
       Count(q, W) \in Nat /\ (Count(q, W) = 0 <=> \A c \in Range(q) : c \notin W)
<1>1. ASSUME NEW q \in Seq(Contexts), NEW c \in Contexts, NEW W
      PROVE  /\ Range(Append(q, c)) = Range(q) \cup {c} /\ Append(q, c) \in Seq(Contexts)
             /\ Append(q, c) # <<>> /\ Count(Append(q, c), W) = Count(q, W) + (IF c \in W THEN 1 ELSE 0)
  BY CountAppend
<1>2. ASSUME NEW q \in Seq(Contexts), NEW W
      PROVE  Count(q, W) \in Nat /\ (Count(q, W) = 0 <=> \A c \in Range(q) : c \notin W)
  BY CountType
<1> QED BY <1>1, <1>2

\* Contexts end with -EAGAIN, or with 0.
LEMMA FinishAgain ==
  ASSUME NEW q \in Seq(Contexts)
  PROVE  /\ Finish(q, FALSE) \in Seq(Calls)
         /\ \A c \in Range(Finish(q, FALSE)) : c.do = "again" /\ c.arg \in Range(q)
  BY CountFinish

LEMMA FinishOk ==
  ASSUME NEW q \in Seq(Contexts)
  PROVE  /\ Finish(q, TRUE) \in Seq(Calls)
         /\ Range(Finish(q, TRUE)) = {Call("finish", c) : c \in Range(q)}
         /\ \A c \in Range(Finish(q, TRUE)) : c.do = "finish" /\ c.arg \in Range(q)
         /\ \A s : /\ Count(Finish(q, TRUE), WakeCalls(s)) = Count(q, {Context("active", s)})
                   /\ Count(Finish(q, TRUE), ToldCalls(s)) = Count(q, {Context("committed", s)})
         /\ Count(Finish(q, TRUE), {Call("round", None)}) = 0
<1> DEFINE f == Finish(q, TRUE)
<1>1. /\ f \in Seq(Calls) /\ Range(f) = {Call("finish", c) : c \in Range(q)}
      /\ \A c \in Range(f) : c.do = "finish" /\ c.arg \in Range(q)
  BY CountFinish
<1> HIDE DEF f
<1>2. ASSUME NEW s PROVE Count(f, WakeCalls(s)) = Count(q, {Context("active", s)})
  <2>1. \A c \in Contexts : Call("finish", c) \in WakeCalls(s) <=> c \in {Context("active", s)}
    BY DEF WakeCalls, Call
  <2> QED BY <2>1, CountFinished DEF f
<1>3. ASSUME NEW s PROVE Count(f, ToldCalls(s)) = Count(q, {Context("committed", s)})
  <2>1. \A c \in Contexts : Call("finish", c) \in ToldCalls(s) <=> c \in {Context("committed", s)}
    BY DEF ToldCalls, Call
  <2> QED BY <2>1, CountFinished DEF f
<1>4. Count(f, {Call("round", None)}) = 0
  <2>1. \A c \in Range(f) : c \notin {Call("round", None)}
    BY <1>1 DEF Call
  <2> QED BY <1>1, <2>1, CountType
<1> QED BY <1>1, <1>2, <1>3, <1>4 DEF f

-----------------------------------------------------------------------------
(* Lemmas about the agenda *)

LEMMA CountCalls ==
  \A q, r \in Seq(Calls) : /\ q \o r \in Seq(Calls) /\ Range(q \o r) = Range(q) \cup Range(r)
                           /\ \A W : Count(q \o r, W) = Count(q, W) + Count(r, W)
  BY CountConcat

\* The thread has made the first call and goes on with n.
LEMMA AgendaStep ==
  ASSUME TypeInv, agenda # <<>>, NEW n \in Seq(Calls), Continue(n)
  PROVE  /\ Todo = {Head(agenda)} \cup Later /\ Todo' = Range(n) \cup Later
         /\ Head(agenda) \in Calls /\ Todo \subseteq Calls
         /\ \A W : /\ Count(agenda', W) = Count(n, W) + Count(agenda, W) - (IF Head(agenda) \in W THEN 1 ELSE 0)
                   /\ Count(agenda', W) \in Nat /\ Count(agenda, W) \in Nat /\ Count(n, W) \in Nat
                   /\ Head(agenda) \in W => Count(agenda, W) >= 1
<1> DEFINE r == Tail(agenda)
<1>1. agenda \in Seq(Calls) /\ r \in Seq(Calls) /\ agenda' = n \o r /\ n \o r \in Seq(Calls)
  BY ContinueSeq DEF TypeInv, Continue
<1>2. /\ Range(agenda) = {Head(agenda)} \cup Range(r) /\ Head(agenda) \in Calls
      /\ \A W : Count(agenda, W) = (IF Head(agenda) \in W THEN 1 ELSE 0) + Count(r, W)
  BY <1>1, CountTail
<1>3. Range(agenda) \subseteq Calls
  BY <1>1 DEF Range
<1> HIDE DEF r
<1>4. /\ Range(agenda') = Range(n) \cup Range(r)
      /\ \A W : Count(agenda', W) = Count(n, W) + Count(r, W)
  BY <1>1, CountCalls
<1>5. \A W : Count(agenda', W) \in Nat /\ Count(agenda, W) \in Nat /\ Count(n, W) \in Nat /\ Count(r, W) \in Nat
  BY <1>1, CountType
<1>6. \A W : /\ Count(agenda', W) = Count(n, W) + Count(agenda, W) - (IF Head(agenda) \in W THEN 1 ELSE 0)
             /\ Head(agenda) \in W => Count(agenda, W) >= 1
  BY <1>2, <1>4, <1>5
<1> QED BY <1>2, <1>3, <1>4, <1>5, <1>6 DEF Todo, Later, r

LEMMA AgendaPop ==
  ASSUME TypeInv, agenda # <<>>, Continue(<<>>)
  PROVE  /\ Todo = {Head(agenda)} \cup Later /\ Todo' = Later /\ agenda' = Tail(agenda)
         /\ Head(agenda) \in Calls /\ Todo \subseteq Calls
         /\ \A W : /\ Count(agenda', W) = Count(agenda, W) - (IF Head(agenda) \in W THEN 1 ELSE 0)
                   /\ Count(agenda', W) \in Nat /\ Count(agenda, W) \in Nat
                   /\ Head(agenda) \notin W => Count(agenda', W) = Count(agenda, W)
<1>1. agenda \in Seq(Calls) /\ <<>> \in Seq(Calls)
  BY DEF TypeInv
<1>2. /\ Todo = {Head(agenda)} \cup Later /\ Todo' = Range(<<>>) \cup Later
      /\ Head(agenda) \in Calls /\ Todo \subseteq Calls
      /\ \A W : /\ Count(agenda', W) = Count(<<>>, W) + Count(agenda, W) - (IF Head(agenda) \in W THEN 1 ELSE 0)
                /\ Count(agenda', W) \in Nat /\ Count(agenda, W) \in Nat
  BY <1>1, AgendaStep
<1>3. Range(<<>>) = {} /\ \A W : Count(<<>>, W) = 0
  BY CountShort
<1>4. agenda' = Tail(agenda)
  BY <1>1 DEF Continue
<1>5. ASSUME NEW W
      PROVE  /\ Count(agenda', W) = Count(agenda, W) - (IF Head(agenda) \in W THEN 1 ELSE 0)
             /\ Count(agenda', W) \in Nat /\ Count(agenda, W) \in Nat
             /\ Head(agenda) \notin W => Count(agenda', W) = Count(agenda, W)
  <2>1. /\ Count(agenda', W) = 0 + Count(agenda, W) - (IF Head(agenda) \in W THEN 1 ELSE 0)
        /\ Count(agenda', W) \in Nat /\ Count(agenda, W) \in Nat
    BY <1>2, <1>3
  <2> QED BY <2>1
<1> QED BY <1>2, <1>3, <1>4, <1>5

\* A thread has taken the lock.
LEMMA AgendaFresh ==
  ASSUME TypeInv, LockFree, NEW n \in Seq(Calls), agenda' = n
  PROVE  /\ Todo = {} /\ Later = {} /\ Todo' = Range(n)
         /\ \A W : Count(agenda, W) = 0 /\ Count(agenda', W) = Count(n, W) /\ Count(n, W) \in Nat
         /\ agenda = <<>>
<1>1. agenda = <<>> /\ Todo = {} /\ Later = {} /\ \A W : Count(agenda, W) = 0
  BY CountShort DEF Todo, Later, LockFree
<1>2. \A W : Count(n, W) \in Nat
  BY CountType
<1> QED BY <1>1, <1>2 DEF Todo

\* What Does and the counts say of the calls
LEMMA CallsDone ==
  ASSUME TypeInv
  PROVE  /\ \A D : Does(D) <=> \E c \in Todo : c.do \in D
         /\ Todo \subseteq Calls
         /\ \A W : Count(agenda, W) \in Nat
         /\ \A W : Count(agenda, W) = 0 <=> \A c \in Todo : c \notin W
         /\ agenda # <<>> => Head(agenda) \in Todo /\ agenda[1] = Head(agenda)
<1> agenda \in Seq(Calls)
  BY DEF TypeInv
<1>1. agenda # <<>> => Head(agenda) \in Todo /\ agenda[1] = Head(agenda)
  BY DEF Todo, Range
<1>2. Todo \subseteq Calls
  BY DEF Todo, Range
<1> QED BY <1>1, <1>2, CountType DEF Does, Todo

\* No proposal in q
LEMMA NoProposal ==
  ASSUME NEW q \in Seq(Calls), \A c \in Range(q) : ~Proposes(c)
  PROVE  ProposesFirst(q)
<1>1. \A i \in DOMAIN q : ~Proposes(q[i])
  BY DEF Range
<1>2. \A i \in DOMAIN q : q[i].do # "plugged"
  BY <1>1 DEF Proposes
<1> QED BY <1>1, <1>2 DEF ProposesFirst

\* Proposals are put before calls that are none.
LEMMA ProposesNext ==
  ASSUME NEW a \in Seq(Calls), a # <<>>, NEW n \in Seq(Calls), ProposesFirst(a), ProposesFirst(n),
         ~Proposes(Head(a))
  PROVE  /\ ProposesFirst(n \o Tail(a))
         /\ \A c \in Range(Tail(a)) : ~Proposes(c)
<1>1. \A i \in 1 .. Len(a) : ~Proposes(a[i])
  BY ContinueSeq DEF ProposesFirst
<1>2. \A c \in Range(Tail(a)) : ~Proposes(c)
  <2>1. Len(Tail(a)) = Len(a) - 1 /\ Len(a) \in Nat /\ \A i \in 1 .. Len(a) - 1 : Tail(a)[i] = a[i + 1]
    OBVIOUS
  <2>2. DOMAIN Tail(a) = 1 .. Len(a) - 1
    OBVIOUS
  <2> QED BY <1>1, <2>1, <2>2 DEF Range
<1> DEFINE q == n \o Tail(a)
<1>3. /\ Len(n) \in Nat /\ Len(a) \in Nat /\ Len(a) >= 1 /\ DOMAIN n = 1 .. Len(n)
      /\ DOMAIN q = 1 .. Len(n) + Len(a) - 1
      /\ \A i \in 1 .. Len(n) : q[i] = n[i]
      /\ \A i \in Len(n) + 1 .. Len(n) + Len(a) - 1 :
           q[i] = a[i - Len(n) + 1] /\ i - Len(n) + 1 \in 2 .. Len(a)
  BY ContinueSeq
<1> HIDE DEF q
<1>4. \A i \in DOMAIN q : Proposes(q[i]) => i \in DOMAIN n /\ q[i] = n[i]
  <2> SUFFICES ASSUME NEW i \in DOMAIN q, Proposes(q[i]), i \notin DOMAIN n PROVE FALSE
    BY <1>3
  <2>1. i \in Len(n) + 1 .. Len(n) + Len(a) - 1
    BY <1>3
  <2>2. q[i] = a[i - Len(n) + 1] /\ i - Len(n) + 1 \in 1 .. Len(a)
    BY <1>3, <2>1
  <2> QED BY <1>1, <2>2
<1>5. \A i \in DOMAIN n : q[i] = n[i] /\ i \in DOMAIN q /\ i \in Nat /\ (i >= 2 => 1 \in DOMAIN n)
  BY <1>3
<1>6. \A i \in DOMAIN n : Proposes(n[i]) => i <= 2 /\ Proposes(n[1])
  BY DEF ProposesFirst
<1>7. \A i \in DOMAIN n : i >= 1
  BY <1>3
<1>8. \A i \in DOMAIN n : 1 \in DOMAIN n
  BY <1>3
<1>9. \A i \in DOMAIN q : Proposes(q[i]) => i <= 2 /\ Proposes(q[1])
  BY <1>4, <1>5, <1>6, <1>8
<1>10. ASSUME NEW i \in DOMAIN q, i = 2, Proposes(q[2])
       PROVE  q[1].arg # q[2].arg /\ q[2].do = "propose"
  <2>1. 2 \in DOMAIN n /\ q[2] = n[2] /\ Proposes(n[2]) /\ 1 \in DOMAIN n /\ q[1] = n[1]
    BY <1>4, <1>5, <1>8, <1>10
  <2> QED BY <2>1 DEF ProposesFirst
<1>11. ASSUME NEW i \in DOMAIN q, i = 1, q[1].do = "plugged"
       PROVE  2 \in DOMAIN q /\ Proposes(q[2])
  <2>1. Proposes(q[1])
    BY <1>11 DEF Proposes
  <2>2. 1 \in DOMAIN n /\ q[1] = n[1]
    BY <1>4, <1>11, <2>1
  <2>3. 2 \in DOMAIN n /\ Proposes(n[2])
    BY <1>11, <2>2 DEF ProposesFirst
  <2> QED BY <1>5, <2>3
<1>12. ProposesFirst(q)
  BY <1>9, <1>10, <1>11 DEF ProposesFirst
<1> QED BY <1>2, <1>12 DEF q

\* The first proposal is made.
LEMMA ProposesRest ==
  ASSUME NEW a \in Seq(Calls), a # <<>>, ProposesFirst(a), Proposes(Head(a))
  PROVE  /\ ProposesFirst(Tail(a)) /\ Tail(a) \in Seq(Calls)
         /\ \A c \in Range(Tail(a)) : Proposes(c) => c.arg # Head(a).arg
         /\ Head(a).do = "plugged" => Tail(a) # <<>> /\ Tail(a)[1].do = "propose"
<1> DEFINE q == Tail(a)
<1>1. /\ Len(a) \in Nat /\ Len(a) >= 1 /\ DOMAIN a = 1 .. Len(a) /\ Head(a) = a[1]
      /\ q \in Seq(Calls) /\ DOMAIN q = 1 .. Len(a) - 1 /\ Len(q) = Len(a) - 1
      /\ \A i \in 1 .. Len(a) - 1 : q[i] = a[i + 1]
  OBVIOUS
<1> HIDE DEF q
<1>2. \A i \in 1 .. Len(a) : Proposes(a[i]) => i <= 2
  BY <1>1 DEF ProposesFirst
<1>3. \A i \in DOMAIN q : Proposes(q[i]) => i = 1
  <2> SUFFICES ASSUME NEW i \in DOMAIN q, Proposes(q[i]) PROVE i = 1
    OBVIOUS
  <2>1. i \in Nat /\ i >= 1 /\ i + 1 \in 1 .. Len(a) /\ q[i] = a[i + 1]
    BY <1>1
  <2>2. i + 1 <= 2
    BY <1>2, <2>1
  <2> QED BY <2>1, <2>2
<1>4. 1 \in DOMAIN q => q[1] = a[2] /\ 2 \in DOMAIN a
  BY <1>1
<1>5. 1 \in DOMAIN q /\ Proposes(q[1]) => q[1].do = "propose" /\ q[1].arg # a[1].arg
  <2> SUFFICES ASSUME 1 \in DOMAIN q, Proposes(q[1]) PROVE q[1].do = "propose" /\ q[1].arg # a[1].arg
    OBVIOUS
  <2>1. 2 \in DOMAIN a /\ Proposes(a[2]) /\ q[1] = a[2]
    BY <1>4
  <2> QED BY <2>1 DEF ProposesFirst
<1>6. ProposesFirst(q)
  <2>1. \A i \in DOMAIN q : Proposes(q[i]) => i <= 2 /\ Proposes(q[1])
    BY <1>3
  <2>2. \A i \in DOMAIN q : i = 2 => ~Proposes(q[2])
    BY <1>3
  <2>3. \A i \in DOMAIN q : i = 1 => q[1].do # "plugged"
    BY <1>5 DEF Proposes
  <2> QED BY <2>1, <2>2, <2>3 DEF ProposesFirst
<1>7. \A c \in Range(q) : Proposes(c) => c.arg # Head(a).arg
  BY <1>1, <1>3, <1>5 DEF Range
<1>8. ASSUME Head(a).do = "plugged" PROVE q # <<>> /\ q[1].do = "propose"
  <2>1. 2 \in DOMAIN a /\ Proposes(a[2])
    BY <1>1, <1>8 DEF ProposesFirst
  <2>2. 1 \in DOMAIN q
    BY <1>1, <2>1
  <2>3. q # <<>>
    BY <1>1, <2>2
  <2> QED BY <1>4, <1>5, <2>1, <2>2, <2>3
<1> QED BY <1>1, <1>6, <1>7, <1>8 DEF q

\* The proposals that dispatch and _active make
LEMMA ProposesCalls ==
  ASSUME NEW s \in Services, NEW t \in Services, s # t
  PROVE  /\ ProposesFirst(<<>>) /\ ProposesFirst(<<Call("propose", s)>>)
         /\ ProposesFirst(<<Call("propose", t), Call("propose", s)>>)
         /\ ProposesFirst(<<Call("plugged", t), Call("propose", s)>>)
  BY DEF ProposesFirst, Proposes, Call

-----------------------------------------------------------------------------
(* Steps that leave the tokens alone *)

\* Calls that are of no account to Paxos and to the proposals of a service
Quiet(c) ==
  \/ c.do \in {"dispatch", "refreshed", "readable", "finished"}
  \/ c.do \in {"finish", "again"} /\ c.arg.kind \in {"retry", "ack"}

SameCore(s) ==
  /\ svc'[s].have_pending = svc[s].have_pending /\ svc'[s].value = svc[s].value
  /\ svc'[s].proposing = svc[s].proposing /\ svc'[s].timer = svc[s].timer

LEMMA QuietCalls ==
  ASSUME NEW c, Quiet(c)
  PROVE  /\ c.do \notin {"role", "restart", "discard", "round", "rest", "propose", "plugged", "active", "elected"}
         /\ ~Proposes(c)
         /\ c.do = "again" => c.arg.kind \in {"retry", "ack"}
         /\ \A s : c \notin WakeCalls(s) /\ c \notin ToldCalls(s)
         /\ c # Call("round", None)
<1>1. /\ c.do \notin {"role", "restart", "discard", "round", "rest", "propose", "plugged", "active", "elected"}
      /\ c.do \in {"finish", "again"} => c.arg.kind \in {"retry", "ack"}
  BY DEF Quiet
<1>2. \A s : c \notin WakeCalls(s) /\ c \notin ToldCalls(s)
  BY <1>1 DEF WakeCalls, ToldCalls, Call, Context
<1> QED BY <1>1, <1>2 DEF Proposes, Call

LEMMA QuietMember ==
  ASSUME Life, TypeInv', ListInv', ~Resetting, NEW n \in Seq(Calls), role' = role,
         px'.state = px.state, px'.value = px.value, px'.pending = px.pending,
         px'.committing = px.committing, Txn(px') = Txn(px), px.txn # None => px'.txn # None,
         \A s \in Services :
           Count(px'.active, {Context("active", s)}) = Count(px.active, {Context("active", s)}),
         \A s \in Services : SameCore(s),
         \/ agenda # <<>> /\ Continue(n) /\ Quiet(Head(agenda))
         \/ LockFree /\ agenda' = n,
         \A c \in Range(n) : Quiet(c) /\ (c.do \in {"finish", "readable"} => px.state # "recovering")
  PROVE  Life' /\ ~Resetting'
<1>0. TypeInv /\ ValueInv /\ Member
  BY DEF Life
<1>1. /\ \A c \in Todo' : c \in Todo \/ (c \in Range(n) /\ Quiet(c))
      /\ \A c \in Todo : c \in Todo' \/ Quiet(c)
  <2>1. CASE agenda # <<>> /\ Continue(n) /\ Quiet(Head(agenda))
    BY <1>0, <2>1, AgendaStep
  <2>2. CASE LockFree /\ agenda' = n
    BY <1>0, <2>2, AgendaFresh
  <2> QED BY <2>1, <2>2
<1>2. ASSUME NEW W, \A c : Quiet(c) => c \notin W
      PROVE  Count(agenda', W) = Count(agenda, W)
  <2>1. Count(n, W) = 0
    BY <1>2, CountType
  <2>2. CASE agenda # <<>> /\ Continue(n) /\ Quiet(Head(agenda))
    <3>1. Head(agenda) \notin W
      BY <1>2, <2>2
    <3> QED BY <1>0, <2>1, <2>2, <3>1, AgendaStep
  <2>3. CASE LockFree /\ agenda' = n
    BY <1>0, <2>1, <2>3, AgendaFresh
  <2> QED BY <2>2, <2>3
<1>3. \A D : Does(D)' <=> \E c \in Todo' : c.do \in D
  BY DEF Does
<1>4. \A D : Does(D) <=> \E c \in Todo : c.do \in D
  BY DEF Does
<1>5. ~Does({"role"})' /\ ~Resetting'
  BY <1>1, <1>3, <1>4, QuietCalls DEF Resetting
<1>6. ValueInv'
  BY <1>0 DEF ValueInv, SameCore
<1>7. CallInv'
  BY <1>0, <1>1, QuietCalls DEF Member, CallInv
<1>8. ProposeInv'
  <2>1. ASSUME NEW c \in Todo', Proposes(c) PROVE MayPropose(c.arg)'
    <3>1. c \in Todo /\ MayPropose(c.arg)
      BY <1>0, <1>1, <2>1, QuietCalls DEF Member, ProposeInv
    <3>2. c.arg \in Services
      BY <1>0, <2>1, <3>1, CallsDone, CallArgs DEF Proposes, ServiceCalls
    <3> QED BY <3>1, <3>2 DEF MayPropose, IsActive, SameCore
  <2>2. ProposesFirst(n)
    BY QuietCalls, NoProposal
  <2>3. ProposesFirst(agenda')
    <3>1. CASE agenda # <<>> /\ Continue(n) /\ Quiet(Head(agenda))
      BY <1>0, <2>2, <3>1, ProposesNext, QuietCalls DEF Continue, TypeInv, Member, ProposeInv
    <3>2. CASE LockFree /\ agenda' = n
      BY <2>2, <3>2
    <3> QED BY <3>1, <3>2
  <2> QED BY <2>1, <2>3 DEF ProposeInv
<1>9. RoundInv'
  <2>1. Count(agenda', {Call("round", None)}) = Count(agenda, {Call("round", None)})
    BY <1>2, QuietCalls
  <2>2. Does({"round"})' <=> Does({"round"})
    BY <1>1, <1>3, <1>4, QuietCalls
  <2>3. Does({"rest"})' <=> Does({"rest"})
    BY <1>1, <1>3, <1>4, QuietCalls
  <2>4. Does({"finish", "readable"})' => px.state # "recovering"
    BY <1>0, <1>1, <1>3, <1>4 DEF Member, RoundInv
  <2> QED BY <1>0, <2>1, <2>2, <2>3, <2>4 DEF Member, RoundInv
<1>10. QueueInv'
  <2>1. Does({"rest"}) => Does({"rest"})'
    BY <1>1, <1>3, <1>4, QuietCalls
  <2>2. ~(agenda # <<>> /\ agenda[1].do = "propose")
    BY <1>0, CallsDone, QuietCalls DEF LockFree
  <2> QED BY <1>0, <2>1, <2>2 DEF Member, QueueInv
<1>11. TokenInv'
  <2>1. \A s \in Services : /\ Count(agenda', WakeCalls(s)) = Count(agenda, WakeCalls(s))
                            /\ Count(agenda', ToldCalls(s)) = Count(agenda, ToldCalls(s))
    BY <1>2, QuietCalls
  <2>2. \A s \in Services : Wakes(s)' = Wakes(s) /\ Tells(s)' = Tells(s)
    BY <2>1 DEF Wakes, Tells, WakeCalls, ToldCalls
  <2> QED BY <1>0, <2>2 DEF Member, TokenInv, SameCore
<1> QED BY <1>5, <1>6, <1>7, <1>8, <1>9, <1>10, <1>11 DEF Life, Member

-----------------------------------------------------------------------------
(* The monitor leaves its quorum *)

\* Paxos::restart, and restart for every service
LEMMA LifeReset ==
  ASSUME Life, TypeInv', NEW then \in Seq(Calls), \A c \in Range(then) : c.do = "role",
         Reset(then), role' = "probing" \/ Call("role", "electing") \in Range(then), UNCHANGED svc
  PROVE  Life' /\ Resetting'
<1>0. TypeInv /\ ListInv /\ ValueInv
  BY DEF Life
<1> DEFINE q == px.committing \o px.pending \o px.active
           a == Finish(q, FALSE)
           b == ForEach("restart")
<1>1. q \in Seq(Contexts)
  BY <1>0 DEF TypeInv, PaxosType
<1>2. a \in Seq(Calls) /\ \A c \in Range(a) : c.do = "again"
  BY <1>1, FinishAgain
<1>3. b \in Seq(Calls) /\ Range(b) = {Call("restart", s) : s \in Services}
  BY CountForEach DEF ServiceCalls
<1>4. agenda' = a \o b \o then
  BY DEF Reset
<1> HIDE DEF a, b, q
<1>5. Todo' = Range(a) \cup Range(b) \cup Range(then)
  BY <1>2, <1>3, <1>4, CountCalls, ZenonT(40) DEF Todo
<1>6. /\ px'.state = "recovering" /\ px'.value = None /\ px'.txn = None
      /\ px'.pending = <<>> /\ px'.committing = <<>> /\ px'.active = <<>> /\ px'.readable = px.readable
  BY <1>0 DEF Reset, TypeInv, PaxosType
<1>7. Leaving'
  <2>1. \A c \in Todo' : c.do \in {"again", "dispatch", "restart", "discard", "role"}
    BY <1>2, <1>3, <1>5 DEF Call
  <2>2. \A s \in Services : Call("restart", s) \in Todo'
    BY <1>3, <1>5
  <2> QED BY <1>6, <2>1, <2>2 DEF Leaving
<1>8. Resetting'
  BY <1>5 DEF Resetting, Does, Call
<1>9. ListInv' /\ ValueInv'
  BY <1>0, <1>6, CountShort DEF ListInv, ValueInv
<1> QED BY <1>7, <1>8, <1>9 DEF Life

\* Whatever runs then
LEMMA LeavingRun ==
  ASSUME Life, Resetting, TypeInv', Run
  PROVE  Life' /\ Resetting'
<1>0. TypeInv /\ ListInv /\ ValueInv /\ Leaving
  BY DEF Life
<1>1. agenda # <<>> /\ Head(agenda) \in Calls
      /\ Head(agenda).do \in {"again", "dispatch", "restart", "discard", "role"}
  <2>1. agenda # <<>>
    BY DEF Run, Dispatch, ProposePending, Active, FinishContext, FinishRound, KickReadable, RoundRest,
           Restart, Discard, ElectionFinished, FinishElection, ChangeRole
  <2> QED BY <1>0, <2>1, CallsDone DEF Leaving
<1>2. svc \in [Services -> ServiceType] /\ px \in PaxosType
  BY <1>0 DEF TypeInv
<1>3. ASSUME NEW n \in Seq(Calls), Continue(n), ListInv', ValueInv', UNCHANGED role,
             \A c \in Range(n) : c.do \in {"again", "dispatch", "discard"},
             Head(agenda).do # "role",
             /\ px'.state = px.state /\ px'.value = px.value /\ px'.txn = px.txn
             /\ px'.pending = px.pending /\ px'.committing = px.committing /\ px'.active = px.active,
             \A s \in Services :
               /\ Call("restart", s) = Head(agenda) =>
                    /\ Call("discard", s) \in Range(n) /\ ~svc'[s].timer
                    /\ \A c \in Range(svc'[s].waiting) : c.kind # "ack"
               /\ Call("discard", s) = Head(agenda) => ~svc'[s].have_pending /\ ~svc'[s].proposing
               /\ svc'[s].have_pending => svc[s].have_pending
               /\ svc'[s].proposing => svc[s].proposing
               /\ svc'[s].timer => svc[s].timer
               /\ \A c \in Range(svc'[s].waiting) : c.kind = "ack" => c \in Range(svc[s].waiting)
      PROVE  Life' /\ Resetting'
  <2>1. Todo = {Head(agenda)} \cup Later /\ Todo' = Range(n) \cup Later
    BY <1>0, <1>1, <1>3, AgendaStep
  <2>2. Resetting'
    BY <1>3, <2>1 DEF Resetting, Does
  <2>3. Leaving'
    <3>1. \A c \in Todo' : c.do \in {"again", "dispatch", "restart", "discard", "role"}
      BY <1>0, <1>3, <2>1 DEF Leaving
    <3>2. ASSUME NEW s \in Services, svc'[s].have_pending \/ svc'[s].proposing
          PROVE  Call("restart", s) \in Todo' \/ Call("discard", s) \in Todo'
      BY <1>0, <1>3, <2>1, <3>2 DEF Leaving
    <3>3. ASSUME NEW s \in Services,
                 svc'[s].timer \/ \E c \in Range(svc'[s].waiting) : c.kind = "ack"
          PROVE  Call("restart", s) \in Todo'
      BY <1>0, <1>3, <2>1, <3>3 DEF Leaving
    <3> QED BY <1>0, <1>3, <3>1, <3>2, <3>3 DEF Leaving
  <2> QED BY <1>3, <2>2, <2>3 DEF Life
<1>4. CASE Dispatch
  <2>0. PICK op \in Ops : op = Head(agenda).arg
    BY <1>1, <1>4, CallArgs DEF Dispatch
  <2> DEFINE c == OpContext("retry", op)
  <2>1. WaitForReadable(op.svc, c) /\ Continue(<<>>) /\ UNCHANGED role /\ Head(agenda).do = "dispatch"
    BY <1>0, <1>4, <2>0 DEF Dispatch, IsReadable, Leaving
  <2>2. op.svc \in Services /\ c \in Contexts /\ c.kind = "retry"
    BY TouchedType, CallTypes DEF OpContext
  <2> HIDE DEF c
  <2>3. /\ \A t \in Services : /\ SameCore(t)
                               /\ \/ svc'[t].waiting = svc[t].waiting
                                  \/ svc'[t].waiting = Append(svc[t].waiting, c)
        /\ px'.state = px.state /\ px'.value = px.value /\ px'.txn = px.txn
        /\ px'.pending = px.pending /\ px'.committing = px.committing
        /\ px'.readable = px.readable \/ px'.readable = Append(px.readable, c)
    BY <1>0, <2>1, <2>2, WaitFields DEF SameCore
  <2>4. px'.active = px.active
    BY <1>2, <2>1 DEF WaitForReadable, PaxosType
  <2>5. \A t \in Services : Range(svc'[t].waiting) \subseteq Range(svc[t].waiting) \cup {c}
    <3>1. \A t \in Services : svc[t].waiting \in Seq(Contexts)
      BY <1>2 DEF ServiceType
    <3>2. \A t \in Services : Range(Append(svc[t].waiting, c)) = Range(svc[t].waiting) \cup {c}
      BY <2>2, <3>1, CountContexts
    <3> QED BY <2>3, <3>2
  <2>6. Range(px'.readable) \subseteq Range(px.readable) \cup {c}
    <3>1. px.readable \in Seq(Contexts)
      BY <1>2 DEF PaxosType
    <3>2. Range(Append(px.readable, c)) = Range(px.readable) \cup {c}
      BY <2>2, <3>1, CountContexts
    <3> QED BY <2>3, <3>2
  <2>7. ListInv'
    BY <1>0, <2>2, <2>3, <2>4, <2>5, <2>6 DEF ListInv
  <2>8. ValueInv'
    BY <1>0, <2>3 DEF ValueInv, SameCore
  <2>9. \A s \in Services : Call("restart", s) # Head(agenda) /\ Call("discard", s) # Head(agenda)
    BY <2>1 DEF Call
  <2>10. <<>> \in Seq(Calls) /\ Range(<<>>) = {}
    BY CountShort
  <2> QED BY <1>3, <2>1, <2>2, <2>3, <2>4, <2>5, <2>7, <2>8, <2>9, <2>10 DEF SameCore
<1>5. CASE FinishContext
  <2>1. PICK c \in Contexts : c = Head(agenda).arg
    BY <1>1, <1>5, CallArgs DEF FinishContext
  <2>2. Head(agenda).do = "again"
    BY <1>1, <1>5 DEF FinishContext
  <2>3. /\ c.kind \in {"active", "committed"} => c.svc \in Services
        /\ c.kind \in {"retry", "ack"} => c.op \in Ops
        /\ c.kind \in {"active", "committed", "retry", "ack"}
    BY DEF Contexts, ServiceContexts, OpContexts
  <2> DEFINE n == IF c.kind \in {"active", "committed"} THEN <<>> ELSE <<Call("dispatch", c.op)>>
  <2>4. n \in Seq(Calls) /\ \A d \in Range(n) : d.do = "dispatch"
    <3>1. CASE c.kind \in {"active", "committed"}
      BY <3>1, CountShort
    <3>2. CASE c.kind \in {"retry", "ack"}
      <4>1. Call("dispatch", c.op) \in Calls
        BY <2>3, <3>2, CallTypes
      <4>2. n = <<Call("dispatch", c.op)>>
        BY <3>2
      <4> QED BY <4>1, <4>2, CountShort DEF Call
    <3> QED BY <2>3, <3>1, <3>2
  <2>5. Continue(n)
    BY <1>5, <2>1, <2>2, <2>3 DEF FinishContext
  <2>6. svc' = (IF c.kind = "committed" THEN [svc EXCEPT ![c.svc].proposing = FALSE] ELSE svc)
        /\ UNCHANGED <<role, px>>
    BY <1>5, <2>1 DEF FinishContext
  <2> HIDE DEF n
  <2>7. \A t \in Services :
          /\ svc'[t].have_pending = svc[t].have_pending /\ svc'[t].value = svc[t].value
          /\ svc'[t].timer = svc[t].timer /\ svc'[t].waiting = svc[t].waiting
          /\ svc'[t].proposing => svc[t].proposing
    BY <1>2, <2>3, <2>6 DEF ServiceType
  <2>8. ListInv' /\ ValueInv'
    BY <1>0, <2>6, <2>7 DEF ListInv, ValueInv
  <2>9. \A s \in Services : Call("restart", s) # Head(agenda) /\ Call("discard", s) # Head(agenda)
    BY <2>2 DEF Call
  <2> QED BY <1>3, <2>2, <2>4, <2>5, <2>6, <2>7, <2>8, <2>9
<1>6. CASE Restart
  <2>1. PICK s \in Services : s = Head(agenda).arg
    BY <1>1, <1>6, CallArgs DEF Restart, ServiceCalls
  <2> DEFINE a == Finish(svc[s].waiting, FALSE)
             n == a \o <<Call("discard", s)>>
  <2>2. Head(agenda).do = "restart" /\ Head(agenda) = Call("restart", s)
    BY <1>1, <1>6, <2>1, CallArgs DEF Restart
  <2>3. Continue(n) /\ svc' = [svc EXCEPT ![s] = Restarted(@)] /\ UNCHANGED <<role, px>>
    BY <1>6, <2>1 DEF Restart
  <2>4. a \in Seq(Calls) /\ \A c \in Range(a) : c.do = "again"
    <3>1. svc[s].waiting \in Seq(Contexts)
      BY <1>2 DEF ServiceType
    <3> QED BY <3>1, FinishAgain
  <2>5. <<Call("discard", s)>> \in Seq(Calls) /\ Range(<<Call("discard", s)>>) = {Call("discard", s)}
    <3>1. Call("discard", s) \in Calls
      BY CallTypes DEF ServiceCalls
    <3> QED BY <3>1, CountShort
  <2> HIDE DEF a
  <2>6. n \in Seq(Calls) /\ Range(n) = Range(a) \cup {Call("discard", s)}
    BY <2>4, <2>5, CountCalls
  <2> HIDE DEF n
  <2>7. /\ \A t \in Services : t # s => svc'[t] = svc[t]
        /\ svc'[s].have_pending = svc[s].have_pending /\ svc'[s].value = svc[s].value
        /\ svc'[s].proposing = svc[s].proposing /\ ~svc'[s].timer /\ svc'[s].waiting = <<>>
    BY <1>2, <2>3 DEF Restarted, ServiceType
  <2>8. ListInv' /\ ValueInv'
    BY <1>0, <2>3, <2>7, CountShort DEF ListInv, ValueInv
  <2>9. \A t \in Services : (Call("restart", t) = Head(agenda) => t = s) /\ Call("discard", t) # Head(agenda)
    BY <2>2 DEF Call
  <2>10. \A c \in Range(n) : c.do \in {"again", "dispatch", "discard"}
    BY <2>4, <2>6 DEF Call
  <2>11. \A t \in Services :
           /\ svc'[t].have_pending => svc[t].have_pending
           /\ svc'[t].proposing => svc[t].proposing
           /\ svc'[t].timer => svc[t].timer
           /\ \A c \in Range(svc'[t].waiting) : c.kind = "ack" => c \in Range(svc[t].waiting)
    BY <2>7, CountShort
  <2>12. Call("discard", s) \in Range(n) /\ ~svc'[s].timer /\ Range(svc'[s].waiting) = {}
    BY <2>6, <2>7, CountShort
  <2> QED BY <1>3, <2>2, <2>3, <2>6, <2>8, <2>9, <2>10, <2>11, <2>12
<1>7. CASE Discard
  <2>1. PICK s \in Services : s = Head(agenda).arg
    BY <1>1, <1>7, CallArgs DEF Discard, ServiceCalls
  <2>2. Head(agenda).do = "discard" /\ Head(agenda) = Call("discard", s)
    BY <1>1, <1>7, <2>1, CallArgs DEF Discard
  <2>3. /\ svc' = [svc EXCEPT ![s].have_pending = FALSE, ![s].value = {}, ![s].proposing = FALSE]
        /\ Continue(<<>>) /\ UNCHANGED <<role, px>>
    BY <1>7, <2>1 DEF Discard
  <2>4. /\ \A t \in Services : t # s => svc'[t] = svc[t]
        /\ ~svc'[s].have_pending /\ svc'[s].value = {} /\ ~svc'[s].proposing
        /\ svc'[s].timer = svc[s].timer /\ svc'[s].waiting = svc[s].waiting
    BY <1>2, <2>3 DEF ServiceType
  <2>5. ListInv' /\ ValueInv'
    BY <1>0, <2>3, <2>4 DEF ListInv, ValueInv
  <2>6. \A t \in Services : (Call("discard", t) = Head(agenda) => t = s) /\ Call("restart", t) # Head(agenda)
    BY <2>2 DEF Call
  <2>7. <<>> \in Seq(Calls) /\ Range(<<>>) = {}
    BY CountShort
  <2> QED BY <1>3, <2>2, <2>3, <2>4, <2>5, <2>6, <2>7
<1>8. CASE ChangeRole
  <2>1. role' = "electing" /\ Continue(<<>>) /\ UNCHANGED <<px, svc>> /\ Head(agenda).do = "role"
    BY <1>1, <1>8, CallArgs DEF ChangeRole
  <2>2. Todo = {Head(agenda)} \cup Later /\ Todo' = Later
    <3>1. <<>> \in Seq(Calls) /\ Range(<<>>) = {}
      BY CountShort
    <3> QED BY <1>0, <1>1, <2>1, <3>1, AgendaStep
  <2>3. Resetting'
    BY <2>1 DEF Resetting
  <2>4. Leaving'
    BY <1>0, <2>1, <2>2 DEF Leaving, Call
  <2> QED BY <1>0, <2>1, <2>3, <2>4 DEF Life, ListInv, ValueInv
<1> QED BY <1>1, <1>4, <1>5, <1>6, <1>7, <1>8 DEF Run, ProposePending, Active, FinishRound,
         KickReadable, RoundRest, ElectionFinished, FinishElection

-----------------------------------------------------------------------------
(* Calls in a quorum *)

LEMMA MemberFacts ==
  ASSUME Life, ~Resetting
  PROVE  /\ TypeInv /\ ListInv /\ ValueInv /\ CallInv /\ ProposeInv /\ RoundInv /\ QueueInv /\ TokenInv
         /\ role \in {"leader", "peon"} /\ \A c \in Todo : c.do # "role"
         /\ svc \in [Services -> ServiceType] /\ px \in PaxosType /\ agenda \in Seq(Calls)
         /\ \A s \in Services : /\ Wakes(s) \in Nat /\ Tells(s) \in Nat
                                /\ Count(px.active, {Context("active", s)}) \in Nat
                                /\ Count(px.pending, {Context("committed", s)}) \in Nat
                                /\ Count(px.committing, {Context("committed", s)}) \in Nat
                                /\ Count(agenda, WakeCalls(s)) \in Nat /\ Count(agenda, ToldCalls(s)) \in Nat
<1>1. /\ TypeInv /\ ListInv /\ ValueInv /\ CallInv /\ ProposeInv /\ RoundInv /\ QueueInv /\ TokenInv
      /\ role \in {"leader", "peon"} /\ \A c \in Todo : c.do # "role"
  BY DEF Life, Member, Resetting, Does, TypeInv
<1>2. svc \in [Services -> ServiceType] /\ px \in PaxosType /\ agenda \in Seq(Calls)
  BY <1>1 DEF TypeInv
<1>3. px.active \in Seq(Contexts) /\ px.pending \in Seq(Contexts) /\ px.committing \in Seq(Contexts)
  BY <1>2 DEF PaxosType
<1>4. \A W : Count(px.active, W) \in Nat /\ Count(px.pending, W) \in Nat /\ Count(px.committing, W) \in Nat
  BY <1>3, CountContexts
<1>5. \A W : Count(agenda, W) \in Nat
  BY <1>2, CountType
<1>6. ASSUME NEW s \in Services
      PROVE  /\ Count(px.active, {Context("active", s)}) \in Nat
             /\ Count(px.pending, {Context("committed", s)}) \in Nat
             /\ Count(px.committing, {Context("committed", s)}) \in Nat
             /\ Count(agenda, WakeCalls(s)) \in Nat /\ Count(agenda, ToldCalls(s)) \in Nat
  BY <1>4, <1>5
<1>7. ASSUME NEW s \in Services PROVE Wakes(s) \in Nat /\ Tells(s) \in Nat
  BY <1>6 DEF Wakes, Tells
<1> QED BY <1>1, <1>2, <1>6, <1>7

\* A retry is put into a list.
LEMMA WaitQuiet ==
  ASSUME TypeInv, ListInv, NEW s \in Services, NEW c \in Contexts, c.kind = "retry",
         WaitForActive(s, c) \/ WaitForReadable(s, c)
  PROVE  /\ ListInv' /\ \A t \in Services : SameCore(t)
         /\ px'.state = px.state /\ px'.value = px.value /\ px'.txn = px.txn
         /\ px'.pending = px.pending /\ px'.committing = px.committing
         /\ \A t \in Services :
              Count(px'.active, {Context("active", t)}) = Count(px.active, {Context("active", t)})
<1>1. svc \in [Services -> ServiceType] /\ px \in PaxosType
  BY DEF TypeInv
<1>2. px.active \in Seq(Contexts) /\ px.readable \in Seq(Contexts)
      /\ \A t \in Services : svc[t].waiting \in Seq(Contexts)
  BY <1>1 DEF PaxosType, ServiceType
<1>3. /\ \A t \in Services : /\ SameCore(t)
                             /\ \/ svc'[t].waiting = svc[t].waiting
                                \/ svc'[t].waiting = Append(svc[t].waiting, c)
      /\ px'.state = px.state /\ px'.value = px.value /\ px'.txn = px.txn
      /\ px'.pending = px.pending /\ px'.committing = px.committing
      /\ px'.readable = px.readable \/ px'.readable = Append(px.readable, c)
      /\ px'.active = px.active \/ px'.active = Append(px.active, c)
  BY WaitFields DEF SameCore
<1>4. \A q \in Seq(Contexts) : Range(Append(q, c)) = Range(q) \cup {c}
  BY CountContexts
<1>5. /\ \A t \in Services : Range(svc'[t].waiting) \subseteq Range(svc[t].waiting) \cup {c}
      /\ Range(px'.readable) \subseteq Range(px.readable) \cup {c}
      /\ Range(px'.active) \subseteq Range(px.active) \cup {c}
  BY <1>2, <1>3, <1>4
<1>6. ListInv'
  BY <1>3, <1>5 DEF ListInv
<1>7. ASSUME NEW t \in Services
      PROVE  Count(px'.active, {Context("active", t)}) = Count(px.active, {Context("active", t)})
  <2>1. c \notin {Context("active", t)}
    BY DEF Context
  <2>2. Count(Append(px.active, c), {Context("active", t)}) = Count(px.active, {Context("active", t)})
    BY <1>2, <2>1, CountContexts
  <2> QED BY <1>3, <2>2
<1> QED BY <1>3, <1>6, <1>7

LEMMA ConcatShort ==
  ASSUME NEW x, NEW y
  PROVE  <<x>> \o <<y>> = <<x, y>> /\ <<x>> \o <<>> = <<x>>
<1> DEFINE S == {x, y}
           a == <<x>> \o <<y>>
           b == <<x, y>>
           c == <<x>> \o <<>>
           d == <<x>>
<1>1. <<x>> \in Seq(S) /\ <<y>> \in Seq(S) /\ Len(<<x>>) = 1 /\ Len(<<y>>) = 1
  OBVIOUS
<1>2. a \in Seq(S) /\ Len(a) = 2 /\ a[1] = x /\ a[2] = y
  BY <1>1
<1>3. b \in Seq(S) /\ Len(b) = 2 /\ b[1] = x /\ b[2] = y
  OBVIOUS
<1>4. c \in Seq(S) /\ Len(c) = 1 /\ c[1] = x
  BY <1>1
<1>5. d \in Seq(S) /\ Len(d) = 1 /\ d[1] = x
  OBVIOUS
<1> HIDE DEF S, a, b, c, d
<1>6. a = b /\ c = d
  BY <1>2, <1>3, <1>4, <1>5
<1> QED BY <1>6 DEF a, b, c, d

\* The calls of prepare_update are proposals of the services it changes, the other one's first.
LEMMA PrepareCalls ==
  ASSUME NEW op \in Ops, NEW now \in BOOLEAN
  PROVE  /\ Prepare(op, now).calls \in Seq(Calls)
         /\ \A c \in Range(Prepare(op, now).calls) : Proposes(c) /\ c.arg \in Touched(op)
         /\ ProposesFirst(Prepare(op, now).calls)
         /\ op.kind \in {"cross", "batch"} =>
              /\ Prepare(op, now).calls # <<>> /\ Proposes(Prepare(op, now).calls[1])
              /\ Prepare(op, now).calls[1].arg = op.other
<1> DEFINE n == Prepare(op, now).calls
           own == Call("propose", op.svc)
           first == Call("propose", op.other)
           held == Call("plugged", op.other)
<1>1. /\ op.kind \in {"plain", "cross", "batch"} /\ op.svc \in Touched(op)
      /\ (op.kind # "plain" => op.other \in Services /\ op.other # op.svc /\ op.other \in Touched(op))
  BY TouchedType DEF Touched
<1>2. n \in Seq(Calls)
  BY PrepareType
<1>3. \/ op.kind = "plain" /\ n \in {<<>>, <<own>>}
      \/ op.kind # "plain" /\ n \in {<<first>>, <<first, own>>, <<held, own>>}
  <2>1. CASE op.kind = "plain"
    BY <2>1 DEF Prepare
  <2>2. CASE op.kind = "cross"
    <3> HIDE DEF first, own
    <3>1. n = <<first>> \o (IF now THEN <<own>> ELSE <<>>)
      BY <2>2 DEF Prepare, first, own
    <3>2. <<first>> \o <<own>> = <<first, own>> /\ <<first>> \o <<>> = <<first>>
      BY ConcatShort
    <3>3. n = <<first, own>> \/ n = <<first>>
      BY <3>1, <3>2
    <3> QED BY <2>2, <3>3
  <2>3. CASE op.kind = "batch"
    BY <2>3 DEF Prepare, BatchCalls
  <2> QED BY <1>1, <2>1, <2>2, <2>3
<1>4. /\ Proposes(own) /\ Proposes(first) /\ Proposes(held)
      /\ own.arg = op.svc /\ first.arg = op.other /\ held.arg = op.other
      /\ own.do = "propose" /\ first.do = "propose" /\ held.do = "plugged"
  BY DEF Proposes, Call
<1> HIDE DEF n, own, first, held
<1>5. CASE op.kind = "plain" /\ n = <<>>
  <2>1. Range(n) = {}
    BY <1>5, CountShort
  <2>2. ProposesFirst(n)
    BY <1>2, <2>1, NoProposal
  <2> QED BY <1>2, <1>5, <2>1, <2>2 DEF n
<1>6. CASE op.kind = "plain" /\ n = <<own>>
  <2>1. Range(n) = {own}
    BY <1>6, CountShort
  <2>2. ProposesFirst(n)
    BY <1>4, <1>6 DEF ProposesFirst
  <2> QED BY <1>1, <1>2, <1>4, <1>6, <2>1, <2>2 DEF n
<1>7. CASE op.kind # "plain" /\ n = <<first>>
  <2>1. Range(n) = {first} /\ n[1] = first
    BY <1>7, CountShort
  <2>2. ProposesFirst(n)
    BY <1>4, <1>7 DEF ProposesFirst
  <2> QED BY <1>1, <1>2, <1>4, <1>7, <2>1, <2>2 DEF n
<1>8. CASE op.kind # "plain" /\ n = <<first, own>>
  <2>1. Range(n) = {first, own} /\ n[1] = first
    BY <1>8, CountTwo
  <2>2. ProposesFirst(n)
    BY <1>1, <1>4, <1>8 DEF ProposesFirst
  <2> QED BY <1>1, <1>2, <1>4, <1>8, <2>1, <2>2 DEF n
<1>9. CASE op.kind # "plain" /\ n = <<held, own>>
  <2>1. Range(n) = {held, own} /\ n[1] = held
    BY <1>9, CountTwo
  <2>2. ProposesFirst(n)
    BY <1>1, <1>4, <1>9 DEF ProposesFirst
  <2> QED BY <1>1, <1>2, <1>4, <1>9, <2>1, <2>2 DEF n
<1> QED BY <1>3, <1>5, <1>6, <1>7, <1>8, <1>9

LEMMA MemberDispatch ==
  ASSUME Life, ~Resetting, TypeInv', Dispatch
  PROVE  Life' /\ ~Resetting'
<1>0. /\ TypeInv /\ ListInv /\ ValueInv /\ CallInv /\ ProposeInv /\ RoundInv /\ QueueInv /\ TokenInv
      /\ svc \in [Services -> ServiceType] /\ px \in PaxosType /\ agenda \in Seq(Calls)
  BY MemberFacts
<1>1. agenda # <<>> /\ Head(agenda).do = "dispatch" /\ Quiet(Head(agenda)) /\ role' = role
  BY DEF Dispatch, Quiet
<1>2. PICK op \in Ops : op = Head(agenda).arg
  BY <1>0, <1>1, HeadType, CallArgs
<1> DEFINE retry == OpContext("retry", op)
           ack == OpContext("ack", op)
<1>3. /\ op.svc \in Services /\ Touched(op) \subseteq Services /\ op.svc \in Touched(op)
      /\ retry \in Contexts /\ retry.kind = "retry" /\ ack \in Contexts /\ ack.kind = "ack"
  BY TouchedType, CallTypes DEF OpContext
<1> HIDE DEF retry, ack
<1>4. <<>> \in Seq(Calls) /\ Range(<<>>) = {}
  BY CountShort
<1>5. ASSUME NEW t \in Services, WaitForActive(t, retry) \/ WaitForReadable(t, retry), Continue(<<>>)
      PROVE  Life' /\ ~Resetting'
  <2>1. /\ ListInv' /\ \A s \in Services : SameCore(s)
        /\ px'.state = px.state /\ px'.value = px.value /\ px'.txn = px.txn
        /\ px'.pending = px.pending /\ px'.committing = px.committing
        /\ \A s \in Services :
             Count(px'.active, {Context("active", s)}) = Count(px.active, {Context("active", s)})
    BY <1>0, <1>3, <1>5, WaitQuiet
  <2>2. Txn(px') = Txn(px)
    BY <2>1 DEF Txn
  <2> QED BY <1>1, <1>4, <1>5, <2>1, <2>2, QuietMember
<1>6. CASE UNCHANGED <<px, svc>> /\ Continue(<<>>)
  <2>1. ListInv' /\ \A s \in Services : SameCore(s)
    BY <1>0, <1>6 DEF ListInv, SameCore
  <2> QED BY <1>1, <1>4, <1>6, <2>1, QuietMember
<1>7. ASSUME NEW now \in BOOLEAN, IsReadable(op.svc), role = "leader",
             \A t \in Touched(op) : IsWriteable(t),
             svc' = [t \in Services |->
               IF t \notin Touched(op) THEN svc[t]
               ELSE [svc[t] EXCEPT
                      !.value = @ \cup {Change(op, t)},
                      !.timer = @ \/ (t = op.svc /\ Prepare(op, now).timer),
                      !.waiting = IF t = op.svc THEN Append(@, OpContext("ack", op)) ELSE @]],
             Continue(Prepare(op, now).calls), UNCHANGED px
      PROVE  Life' /\ ~Resetting'
  <2> DEFINE n == Prepare(op, now).calls
  <2>1. n \in Seq(Calls)
    BY PrepareType
  <2>2. /\ \A c \in Range(n) : Proposes(c) /\ c.arg \in Touched(op)
        /\ ProposesFirst(n)
    BY PrepareCalls
  <2>3. Continue(n)
    BY <1>7
  <2> HIDE DEF n
  <2>4. /\ Todo = {Head(agenda)} \cup Later /\ Todo' = Range(n) \cup Later
        /\ \A W : Head(agenda) \notin W => Count(agenda', W) = Count(n, W) + Count(agenda, W)
    BY <1>0, <1>1, <2>1, <2>3, AgendaStep
  <2>5. \A t \in Services :
          /\ svc'[t].have_pending = svc[t].have_pending /\ svc'[t].proposing = svc[t].proposing
          /\ svc'[t].value = IF t \in Touched(op) THEN svc[t].value \cup {Change(op, t)} ELSE svc[t].value
          /\ t \notin Touched(op) => svc'[t].timer = svc[t].timer
    BY <1>0, <1>7 DEF ServiceType
  <2>0. role = "leader" /\ px' = px
    BY <1>7
  <2>6. \A t \in Touched(op) :
          t \in Services /\ svc[t].have_pending /\ ~svc[t].proposing /\ px.state \in Works
    BY <1>3, <1>7 DEF IsWriteable, IsActive, Works
  <2>7. ListInv'
    <3>1. \A t \in Services : svc[t].waiting \in Seq(Contexts)
      BY <1>0 DEF ServiceType
    <3>2. \A t \in Services : Range(Append(svc[t].waiting, ack)) = Range(svc[t].waiting) \cup {ack}
      BY <1>3, <3>1, CountContexts
    <3>3. \A t \in Services : svc'[t].waiting = svc[t].waiting \/ svc'[t].waiting = Append(svc[t].waiting, ack)
      BY <1>0, <1>7 DEF ServiceType, ack
    <3>4. \A t \in Services : Range(svc'[t].waiting) \subseteq Range(svc[t].waiting) \cup {ack}
      BY <3>2, <3>3
    <3> QED BY <1>0, <1>3, <2>0, <3>4 DEF ListInv
  <2>8. ValueInv'
    <3>1. \A t : Change(op, t).svc = t
      BY DEF Change
    <3>2. ASSUME NEW t \in Services
          PROVE  /\ \A c \in svc'[t].value : c.svc = t
                 /\ svc'[t].value # {} => svc'[t].have_pending
                 /\ svc'[t].proposing => ~svc'[t].have_pending
      <4>1. /\ \A c \in svc[t].value : c.svc = t
            /\ svc[t].value # {} => svc[t].have_pending
            /\ svc[t].proposing => ~svc[t].have_pending
        BY <1>0 DEF ValueInv
      <4>2. CASE t \in Touched(op)
        <5>1. /\ svc'[t].value = svc[t].value \cup {Change(op, t)} /\ Change(op, t).svc = t
              /\ svc'[t].have_pending = svc[t].have_pending /\ svc'[t].proposing = svc[t].proposing
          BY <2>5, <3>1, <4>2
        <5>2. svc[t].have_pending /\ ~svc[t].proposing
          BY <2>6, <4>2
        <5> QED BY <4>1, <5>1, <5>2
      <4>3. CASE t \notin Touched(op)
        BY <2>5, <4>1, <4>3
      <4> QED BY <4>2, <4>3
    <3> QED BY <3>2 DEF ValueInv
  <2>9. \A c \in Range(n) : c.do \in {"propose", "plugged"}
    BY <2>2 DEF Proposes
  <2>10. ~Resetting' /\ CallInv'
    BY <1>0, <1>1, <2>4, <2>9, MemberFacts DEF Resetting, Does, CallInv
  <2>11. ProposeInv'
    <3>1. ProposesFirst(agenda') /\ \A c \in Later : ~Proposes(c)
      <4>1. ~Proposes(Head(agenda))
        BY <1>1 DEF Proposes
      <4> QED BY <1>0, <1>1, <2>1, <2>2, <2>3, <4>1, ProposesNext DEF Continue, Later, ProposeInv
    <3>2. \A t \in Touched(op) : MayPropose(t)'
      BY <1>1, <2>0, <2>5, <2>6 DEF MayPropose, IsActive, Works
    <3>3. \A c \in Todo' : Proposes(c) => c.arg \in Touched(op)
      BY <2>2, <2>4, <3>1
    <3>4. \A c \in Todo' : Proposes(c) => MayPropose(c.arg)'
      BY <3>2, <3>3
    <3> QED BY <3>1, <3>4 DEF ProposeInv
  <2>12. \A D : D \cap {"propose", "plugged", "dispatch"} = {} => (Does(D)' <=> Does(D))
    BY <1>1, <2>4, <2>9 DEF Does
  <2>13. Does({"round"})' = Does({"round"}) /\ Does({"rest"})' = Does({"rest"}) /\ Does({"finish", "readable"})' = Does({"finish", "readable"})
    BY <1>1, <2>4, <2>9 DEF Does
  <2>14. ASSUME NEW W, \A c \in W : c.do \notin {"propose", "plugged", "dispatch"}
         PROVE  Count(agenda', W) = Count(agenda, W)
    <3>1. Count(n, W) = 0
      BY <2>1, <2>9, <2>14, CountType
    <3>2. Head(agenda) \notin W /\ Count(agenda, W) \in Nat
      BY <1>0, <1>1, <2>14, CountType
    <3> QED BY <2>4, <3>1, <3>2
  <2>15. RoundInv'
    <3>1. Count(agenda', {Call("round", None)}) = Count(agenda, {Call("round", None)})
      BY <2>14 DEF Call
    <3> QED BY <1>0, <1>1, <2>0, <2>13, <3>1 DEF RoundInv
  <2>16. QueueInv'
    <3>1. ~(agenda # <<>> /\ agenda[1].do = "propose")
      BY <1>0, <1>1, HeadType
    <3> QED BY <1>0, <2>0, <2>13, <3>1 DEF QueueInv, Txn
  <2>17. TokenInv'
    <3>1. \A s \in Services : /\ Count(agenda', WakeCalls(s)) = Count(agenda, WakeCalls(s))
                              /\ Count(agenda', ToldCalls(s)) = Count(agenda, ToldCalls(s))
      <4> TAKE s \in Services
      <4>1. \A c \in WakeCalls(s) \cup ToldCalls(s) : c.do \notin {"propose", "plugged", "dispatch"}
        BY DEF WakeCalls, ToldCalls, Call
      <4> QED BY <2>14, <4>1
    <3>2. \A s \in Services : Wakes(s)' = Wakes(s) /\ Tells(s)' = Tells(s)
      BY <2>0, <3>1 DEF Wakes, Tells, WakeCalls, ToldCalls
    <3>3. \A s \in Services : svc'[s].timer => svc[s].timer \/ svc[s].have_pending
      BY <2>5, <2>6
    <3> QED BY <1>0, <1>1, <2>0, <2>5, <3>2, <3>3 DEF TokenInv
  <2> QED BY <2>7, <2>8, <2>10, <2>11, <2>15, <2>16, <2>17 DEF Life, Member
<1> QED BY <1>2, <1>3, <1>5, <1>6, <1>7 DEF Dispatch, retry

\* The effect of propose_pending on the service s, on Paxos and on what is accepted:
\* q is the list of those that wait for the transaction x.
ProposalMade(s, q, x) ==
  /\ s \in Services /\ agenda # <<>> /\ MayPropose(s) /\ role' = role /\ log' = log /\ acked' = acked
  /\ Continue(<<>>) /\ Head(agenda).do \in {"propose", "plugged"}
  /\ q \in Seq(Contexts) /\ x \in Transactions /\ x # None
  /\ \A t \in Services : t # s => svc'[t] = svc[t]
  /\ ~svc'[s].have_pending /\ svc'[s].value = {} /\ svc'[s].proposing /\ ~svc'[s].timer
  /\ svc'[s].waiting = svc[s].waiting
  /\ px'.active = px.active /\ px'.readable = px.readable
  /\ \/ /\ Head(agenda).do = "plugged" \/ px.state # "active"
        /\ px'.state = px.state /\ px'.value = px.value /\ px'.txn = x
        /\ px'.pending = q /\ px'.committing = px.committing
        /\ uncommitted' = uncommitted
     \/ /\ Head(agenda).do = "propose" /\ px.state = "active"
        /\ px'.state = "updating" /\ px'.value = x /\ px'.txn = None
        /\ px'.pending = px.committing /\ px'.committing = q
        /\ uncommitted' \in {x, uncommitted} /\ (px.value = None => uncommitted' = x)

LEMMA ProposeFields ==
  ASSUME TypeInv, ProposePending, NEW s, s = Head(agenda).arg,
         NEW q, q = Append(px.pending, Context("committed", s)),
         NEW x, x = Txn(px) \cup svc[s].value
  PROVE  ProposalMade(s, q, x)
<1> DEFINE p == [px EXCEPT !.txn = x, !.pending = q]
<1>1. agenda # <<>> /\ s \in Services /\ Head(agenda).do \in {"propose", "plugged"}
  BY HeadType, CallArgs DEF ProposePending, ServiceCalls
<1>2. /\ px \in PaxosType /\ svc \in [Services -> ServiceType] /\ svc[s] \in ServiceType
  BY <1>1 DEF TypeInv
<1>3. q \in Seq(Contexts)
  BY <1>1, <1>2, CallTypes DEF PaxosType
<1>4. x \in Transactions /\ x # None
  BY <1>2, TxnType DEF ServiceType
<1>5. /\ px' = (IF Head(agenda).do = "plugged" THEN p ELSE Triggered(p)) /\ Accepts(px')
      /\ MayPropose(s) /\ role' = role /\ log' = log /\ acked' = acked /\ Continue(<<>>) /\ Encode(s)
  BY DEF ProposePending
<1>6. /\ \A t \in Services : t # s => svc'[t] = svc[t]
      /\ ~svc'[s].have_pending /\ svc'[s].value = {} /\ svc'[s].proposing /\ ~svc'[s].timer
      /\ svc'[s].waiting = svc[s].waiting
  <2>1. svc' = [svc EXCEPT ![s].have_pending = FALSE, ![s].value = {}, ![s].proposing = TRUE,
                           ![s].timer = FALSE]
    BY <1>5 DEF Encode
  <2> QED BY <1>1, <1>2, <2>1 DEF ServiceType
<1>7. /\ p.state = px.state /\ p.value = px.value /\ p.txn = x /\ p.pending = q
      /\ p.committing = px.committing /\ p.active = px.active /\ p.readable = px.readable
      /\ p \in PaxosType
  BY <1>2, <1>3, <1>4 DEF PaxosType
<1> HIDE DEF p
<1>8. CASE Head(agenda).do = "plugged" \/ px.state # "active"
  <2>1. px' = p
    BY <1>5, <1>7, <1>8 DEF Triggered
  <2>2. uncommitted' = uncommitted
    BY <1>5, <1>7, <2>1 DEF Accepts
  <2> QED BY <1>1, <1>3, <1>4, <1>5, <1>6, <1>7, <1>8, <2>1, <2>2 DEF ProposalMade
<1>9. CASE Head(agenda).do = "propose" /\ px.state = "active"
  <2>1. px' = Proposed(p)
    BY <1>5, <1>7, <1>9 DEF Triggered
  <2>2. /\ px'.state = "updating" /\ px'.value = x /\ px'.txn = None /\ px'.committing = q
        /\ px'.pending = px.committing /\ px'.active = px.active /\ px'.readable = px.readable
    BY <1>7, <2>1 DEF Proposed, PaxosType
  <2>3. uncommitted' \in {x, uncommitted} /\ (px.value = None => uncommitted' = x)
    BY <1>4, <1>5, <2>2 DEF Accepts
  <2> QED BY <1>1, <1>3, <1>4, <1>5, <1>6, <1>9, <2>2, <2>3 DEF ProposalMade
<1> QED BY <1>1, <1>8, <1>9

LEMMA MemberProposePending ==
  ASSUME Life, ~Resetting, TypeInv', ProposePending
  PROVE  Life' /\ ~Resetting'
<1>0. /\ TypeInv /\ ListInv /\ ValueInv /\ CallInv /\ ProposeInv /\ RoundInv /\ QueueInv /\ TokenInv
      /\ svc \in [Services -> ServiceType] /\ px \in PaxosType /\ agenda \in Seq(Calls)
      /\ role \in {"leader", "peon"} /\ \A c \in Todo : c.do # "role"
  BY MemberFacts
<1>1. PICK s, q, x : /\ s = Head(agenda).arg
                     /\ q = Append(px.pending, Context("committed", s))
                     /\ x = Txn(px) \cup svc[s].value
  OBVIOUS
<1>12. ProposalMade(s, q, x)
  BY <1>0, <1>1, ProposeFields
<1>2. /\ s \in Services /\ agenda # <<>> /\ MayPropose(s) /\ role' = role
      /\ Continue(<<>>) /\ Head(agenda).do \in {"propose", "plugged"}
      /\ q \in Seq(Contexts) /\ x # None
      /\ \A t \in Services : t # s => svc'[t] = svc[t]
      /\ ~svc'[s].have_pending /\ svc'[s].value = {} /\ svc'[s].proposing /\ ~svc'[s].timer
      /\ svc'[s].waiting = svc[s].waiting
      /\ px'.active = px.active /\ px'.readable = px.readable
  BY <1>12 DEF ProposalMade
<1>3. \/ /\ Head(agenda).do = "plugged" \/ px.state # "active"
         /\ px'.state = px.state /\ px'.value = px.value /\ px'.txn = x
         /\ px'.pending = q /\ px'.committing = px.committing
      \/ /\ Head(agenda).do = "propose" /\ px.state = "active"
         /\ px'.state = "updating" /\ px'.value = x /\ px'.txn = None
         /\ px'.pending = px.committing /\ px'.committing = q
  BY <1>12 DEF ProposalMade
<1>4. role = "leader" /\ px.state \in Works /\ svc[s].have_pending /\ ~svc[s].proposing
      /\ px'.state \in Works
  BY <1>2, <1>3 DEF MayPropose, IsActive, Works
<1>5. px.pending \in Seq(Contexts) /\ Context("committed", s) \in Contexts
  BY <1>0, <1>2, CallTypes DEF PaxosType
<1>6. /\ Range(q) = Range(px.pending) \cup {Context("committed", s)} /\ q # <<>>
      /\ \A W : Count(q, W) = Count(px.pending, W) + (IF Context("committed", s) \in W THEN 1 ELSE 0)
  BY <1>1, <1>5, CountContexts, SMTT(30)
<1>7. agenda' = Tail(agenda)
  BY <1>0, <1>2, AgendaPop
<1>8. /\ Todo = {Head(agenda)} \cup Later /\ Todo' = Later
      /\ \A W : Head(agenda) \notin W => Count(agenda', W) = Count(agenda, W)
  BY <1>0, <1>2, AgendaPop
<1>9. ListInv'
  <2>1. Range(px'.pending) \cup Range(px'.committing) =
          Range(px.pending) \cup Range(px.committing) \cup {Context("committed", s)}
    BY <1>3, <1>6
  <2>2. Context("committed", s).kind = "committed"
    BY DEF Context
  <2>3. \A t \in Services : svc'[t].waiting = svc[t].waiting
    BY <1>2
  <2> QED BY <1>0, <1>2, <2>1, <2>2, <2>3 DEF ListInv
<1>10. ValueInv'
  BY <1>0, <1>2 DEF ValueInv
<1>11. ~Resetting' /\ CallInv'
  BY <1>0, <1>2, <1>8 DEF Resetting, Does, CallInv
<1>13. /\ ProposesFirst(agenda') /\ \A c \in Later : Proposes(c) => c.arg # s
       /\ Head(agenda).do = "plugged" => agenda' # <<>> /\ agenda'[1].do = "propose"
  <2>1. ProposesFirst(agenda) /\ Proposes(Head(agenda))
    BY <1>0, <1>2 DEF ProposeInv, Proposes
  <2> QED BY <1>0, <1>1, <1>2, <1>7, <2>1, ProposesRest DEF Later
<1>14. ProposeInv'
  <2>1. ASSUME NEW c \in Todo', Proposes(c) PROVE MayPropose(c.arg)'
    <3>1. c \in Todo /\ c.arg # s /\ MayPropose(c.arg)
      BY <1>0, <1>8, <1>13, <2>1 DEF ProposeInv
    <3>2. c.arg \in Services
      BY <1>0, <2>1, <3>1, CallsDone, CallArgs DEF Proposes, ServiceCalls
    <3>3. svc'[c.arg] = svc[c.arg]
      BY <1>2, <3>1, <3>2
    <3> QED BY <1>2, <1>4, <3>1, <3>3 DEF MayPropose, IsActive, Works
  <2> QED BY <1>13, <2>1 DEF ProposeInv
<1>15. /\ Does({"round"})' = Does({"round"}) /\ Does({"rest"})' = Does({"rest"})
       /\ Does({"finish", "readable"})' = Does({"finish", "readable"})
  BY <1>2, <1>8 DEF Does
<1>16. RoundInv'
  <2>1. Count(agenda', {Call("round", None)}) = Count(agenda, {Call("round", None)})
    <3>1. Head(agenda) \notin {Call("round", None)}
      BY <1>2 DEF Call
    <3> QED BY <1>8, <3>1
  <2>2. ~Does({"round"})
    BY <1>0, <1>4 DEF RoundInv, Works
  <2> QED BY <1>0, <1>2, <1>3, <1>4, <1>15, <2>1, <2>2 DEF RoundInv, Works, Proposing
<1>17. QueueInv'
  <2>1. CASE /\ Head(agenda).do = "plugged" \/ px.state # "active"
             /\ px'.state = px.state /\ px'.txn = x
             /\ px'.pending = q /\ px'.committing = px.committing
    <3>1. px'.txn # None
      BY <1>2, <2>1
    <3> QED BY <1>0, <1>4, <1>13, <2>1, <3>1 DEF QueueInv, Works
  <2>2. CASE px'.pending = px.committing /\ px.state = "active" /\ px'.state = "updating"
    BY <1>0, <2>2 DEF QueueInv
  <2> QED BY <1>3, <2>1, <2>2
<1>18. TokenInv'
  <2>1. \A t \in Services : /\ Count(agenda', WakeCalls(t)) = Count(agenda, WakeCalls(t))
                            /\ Count(agenda', ToldCalls(t)) = Count(agenda, ToldCalls(t))
    <3> TAKE t \in Services
    <3>1. Head(agenda) \notin WakeCalls(t) /\ Head(agenda) \notin ToldCalls(t)
      BY <1>2 DEF WakeCalls, ToldCalls, Call
    <3> QED BY <1>8, <3>1
  <2>2. \A t \in Services : Wakes(t)' = Wakes(t)
    BY <1>2, <2>1 DEF Wakes, WakeCalls
  <2>3. ASSUME NEW t \in Services PROVE Tells(t)' = Tells(t) + (IF t = s THEN 1 ELSE 0)
    <3> DEFINE W == {Context("committed", t)}
    <3>1. Context("committed", s) \in W <=> t = s
      BY DEF Context
    <3> HIDE DEF W
    <3>2. Count(q, W) = Count(px.pending, W) + (IF t = s THEN 1 ELSE 0)
      BY <1>6, <3>1
    <3>3. \/ Count(px'.pending, W) = Count(q, W) /\ Count(px'.committing, W) = Count(px.committing, W)
          \/ Count(px'.pending, W) = Count(px.committing, W) /\ Count(px'.committing, W) = Count(q, W)
      BY <1>3
    <3>4. /\ Tells(t) = Count(agenda, ToldCalls(t)) + Count(px.committing, W) + Count(px.pending, W)
          /\ Tells(t)' = Count(agenda', ToldCalls(t)) + Count(px'.committing, W) + Count(px'.pending, W)
      BY DEF Tells, ToldCalls, W
    <3>5. Count(px.committing, W) \in Nat /\ Count(px.pending, W) \in Nat /\ Count(agenda, ToldCalls(t)) \in Nat
      BY MemberFacts DEF W
    <3> QED BY <2>1, <3>2, <3>3, <3>4, <3>5
  <2>4. Wakes(s) = 0 /\ Tells(s) = 0
    <3>1. Wakes(s) \in Nat /\ Tells(s) \in Nat
      BY <1>2, MemberFacts
    <3>2. Wakes(s) + Tells(s) + (IF svc[s].have_pending THEN 1 ELSE 0) <= 1
      BY <1>0, <1>2 DEF TokenInv
    <3> QED BY <1>4, <3>1, <3>2
  <2>5. ASSUME NEW t \in Services
        PROVE  /\ Wakes(t)' + Tells(t)' + (IF svc'[t].have_pending THEN 1 ELSE 0) <= 1
               /\ svc'[t].proposing <=> Tells(t)' = 1
               /\ svc'[t].timer => svc'[t].have_pending
    <3>1. CASE t = s
      BY <1>2, <2>2, <2>3, <2>4, <3>1
    <3>2. CASE t # s
      <4>1. svc'[t] = svc[t] /\ Wakes(t)' = Wakes(t) /\ Tells(t)' = Tells(t)
        <5>1. Tells(t) \in Nat
          BY MemberFacts
        <5> QED BY <1>2, <2>2, <2>3, <3>2, <5>1
      <4> QED BY <1>0, <4>1 DEF TokenInv
    <3> QED BY <3>1, <3>2
  <2> QED BY <1>2, <1>4, <2>5 DEF TokenInv
<1> QED BY <1>9, <1>10, <1>11, <1>14, <1>16, <1>17, <1>18 DEF Life, Member

\* A call that concerns a service and not the rounds of Paxos
LEMMA ServiceStep ==
  ASSUME Life, ~Resetting, TypeInv', ListInv', ValueInv', TokenInv',
         NEW n \in Seq(Calls), agenda # <<>>, Continue(n), role' = role,
         px'.state = px.state, px'.value = px.value, px'.txn = px.txn,
         px'.pending = px.pending, px'.committing = px.committing,
         Head(agenda).do \notin {"propose", "plugged", "round", "rest"},
         ProposesFirst(n), \A c \in Range(n) : Proposes(c) => MayPropose(c.arg)',
         \A c \in Range(n) : /\ c.do \notin {"restart", "discard", "role", "round", "rest"}
                             /\ c.do = "again" => c.arg.kind \in {"retry", "ack"}
                             /\ c.do \in {"finish", "readable"} => px.state # "recovering"
  PROVE  Life' /\ ~Resetting'
<1>0. /\ TypeInv /\ ListInv /\ ValueInv /\ CallInv /\ ProposeInv /\ RoundInv /\ QueueInv /\ TokenInv
      /\ svc \in [Services -> ServiceType] /\ px \in PaxosType /\ agenda \in Seq(Calls)
      /\ role \in {"leader", "peon"} /\ \A c \in Todo : c.do # "role"
  BY MemberFacts
<1>1. /\ Todo = {Head(agenda)} \cup Later /\ Todo' = Range(n) \cup Later
      /\ \A W : Head(agenda) \notin W => Count(agenda', W) = Count(n, W) + Count(agenda, W)
  BY <1>0, AgendaStep
<1>2. ~Resetting' /\ CallInv'
  BY <1>0, <1>1 DEF Resetting, Does, CallInv
<1>3. ProposeInv'
  <2>1. ProposesFirst(agenda') /\ \A c \in Later : ~Proposes(c)
    <3>1. ~Proposes(Head(agenda)) /\ ProposesFirst(agenda)
      BY <1>0 DEF Proposes, ProposeInv
    <3> QED BY <1>0, <3>1, ProposesNext DEF Continue, Later
  <2> QED BY <1>1, <2>1 DEF ProposeInv
<1>4. /\ Does({"round"})' = Does({"round"}) /\ Does({"rest"})' = Does({"rest"})
      /\ Does({"finish", "readable"})' => Does({"finish", "readable"}) \/ px.state # "recovering"
  BY <1>1 DEF Does
<1>5. RoundInv'
  <2>1. Count(agenda', {Call("round", None)}) = Count(agenda, {Call("round", None)})
    <3>1. Count(agenda, {Call("round", None)}) \in Nat
      BY <1>0, CountType
    <3>4. Head(agenda) \notin {Call("round", None)}
      BY DEF Call
    <3>2. \A c \in Range(n) : c \notin {Call("round", None)}
      BY DEF Call
    <3>3. Count(n, {Call("round", None)}) = 0
      BY <3>2, CountType
    <3> QED BY <1>1, <3>1, <3>3, <3>4
  <2> QED BY <1>0, <1>4, <2>1 DEF RoundInv
<1>6. QueueInv'
  <2>1. ~(agenda # <<>> /\ agenda[1].do = "propose")
    BY <1>0, HeadType
  <2> QED BY <1>0, <1>4, <2>1 DEF QueueInv, Txn
<1> QED BY <1>2, <1>3, <1>5, <1>6 DEF Life, Member

\* The calls of a token of s
LEMMA TokenCalls ==
  /\ \A s : /\ Call("elected", s) \in WakeCalls(s) /\ Call("active", s) \in WakeCalls(s)
            /\ Call("finish", Context("active", s)) \in WakeCalls(s)
            /\ Call("finish", Context("committed", s)) \in ToldCalls(s)
  /\ \A s, t : /\ Call("elected", s) \in WakeCalls(t) => s = t
               /\ Call("active", s) \in WakeCalls(t) => s = t
               /\ Call("finish", Context("active", s)) \in WakeCalls(t) => s = t
               /\ Call("finish", Context("committed", s)) \in ToldCalls(t) => s = t
               /\ Call("active", s) \notin ToldCalls(t) /\ Call("elected", s) \notin ToldCalls(t)
               /\ Call("finish", Context("active", s)) \notin ToldCalls(t)
               /\ Call("finish", Context("committed", s)) \notin WakeCalls(t)
               /\ Context("active", s) = Context("active", t) => s = t
               /\ Context("committed", s) = Context("committed", t) => s = t
  /\ \A c, t : /\ c.do \in {"finish", "again"} /\ c.arg.kind \in {"retry", "ack"}
                    => c \notin WakeCalls(t) /\ c \notin ToldCalls(t)
               /\ c.do \notin {"elected", "active", "finish"} => c \notin WakeCalls(t) /\ c \notin ToldCalls(t)
<1>1. \A s : /\ Call("elected", s) \in WakeCalls(s) /\ Call("active", s) \in WakeCalls(s)
             /\ Call("finish", Context("active", s)) \in WakeCalls(s)
             /\ Call("finish", Context("committed", s)) \in ToldCalls(s)
  BY DEF WakeCalls, ToldCalls
<1>2. \A s, t : /\ Call("elected", s) \in WakeCalls(t) => s = t
                /\ Call("active", s) \in WakeCalls(t) => s = t
  BY DEF WakeCalls, Call
<1>3. \A s, t : /\ Call("finish", Context("active", s)) \in WakeCalls(t) => s = t
                /\ Call("finish", Context("committed", s)) \in ToldCalls(t) => s = t
  BY DEF WakeCalls, ToldCalls, Call, Context
<1>4. \A s, t : /\ Call("active", s) \notin ToldCalls(t) /\ Call("elected", s) \notin ToldCalls(t)
                /\ Call("finish", Context("active", s)) \notin ToldCalls(t)
                /\ Call("finish", Context("committed", s)) \notin WakeCalls(t)
  BY DEF WakeCalls, ToldCalls, Call, Context
<1>5. \A s, t : /\ Context("active", s) = Context("active", t) => s = t
                /\ Context("committed", s) = Context("committed", t) => s = t
  BY DEF Context
<1>6. \A c, t : /\ c.do \in {"finish", "again"} /\ c.arg.kind \in {"retry", "ack"}
                     => c \notin WakeCalls(t) /\ c \notin ToldCalls(t)
                /\ c.do \notin {"elected", "active", "finish"} => c \notin WakeCalls(t) /\ c \notin ToldCalls(t)
  BY DEF WakeCalls, ToldCalls, Call, Context
<1> QED BY <1>1, <1>2, <1>3, <1>4, <1>5, <1>6

\* The service whose token is at the head of the agenda has no other one.
LEMMA HeadToken ==
  ASSUME Life, ~Resetting, agenda # <<>>, NEW s \in Services
  PROVE  /\ Head(agenda) \in WakeCalls(s) =>
              /\ Wakes(s) = 1 /\ Tells(s) = 0 /\ ~svc[s].have_pending /\ ~svc[s].proposing
              /\ Count(agenda, WakeCalls(s)) = 1 /\ Count(px.active, {Context("active", s)}) = 0
         /\ Head(agenda) \in ToldCalls(s) =>
              /\ Wakes(s) = 0 /\ Tells(s) = 1 /\ ~svc[s].have_pending /\ svc[s].proposing
              /\ Count(agenda, ToldCalls(s)) = 1
<1>1. /\ Count(px.active, {Context("active", s)}) \in Nat
      /\ Count(px.pending, {Context("committed", s)}) \in Nat
      /\ Count(px.committing, {Context("committed", s)}) \in Nat
      /\ Count(agenda, WakeCalls(s)) \in Nat /\ Count(agenda, ToldCalls(s)) \in Nat
  BY MemberFacts
<1>2. /\ Head(agenda) \in WakeCalls(s) => Count(agenda, WakeCalls(s)) # 0
      /\ Head(agenda) \in ToldCalls(s) => Count(agenda, ToldCalls(s)) # 0
  <2>1. TypeInv
    BY DEF Life
  <2>2. Head(agenda) \in Todo
    BY <2>1, CallsDone
  <2>3. \A W : Count(agenda, W) = 0 <=> \A c \in Todo : c \notin W
    BY <2>1, CallsDone
  <2> QED BY <2>2, <2>3
<1>3. /\ Wakes(s) + Tells(s) + (IF svc[s].have_pending THEN 1 ELSE 0) <= 1
      /\ svc[s].proposing <=> Tells(s) = 1
  BY MemberFacts DEF TokenInv
<1>4. /\ Wakes(s) = Count(agenda, WakeCalls(s)) + Count(px.active, {Context("active", s)})
      /\ Tells(s) = Count(agenda, ToldCalls(s)) + Count(px.committing, {Context("committed", s)})
                    + Count(px.pending, {Context("committed", s)})
  BY DEF Wakes, Tells
<1> QED BY <1>1, <1>2, <1>3, <1>4

\* How the tokens change with the agenda and the lists
LEMMA TokenCounts ==
  ASSUME Life, ~Resetting, NEW n \in Seq(Calls), agenda # <<>>, Continue(n), NEW t \in Services,
         px'.pending = px.pending, px'.committing = px.committing
  PROVE  /\ Wakes(t)' = Count(n, WakeCalls(t)) + Count(agenda, WakeCalls(t))
                          - (IF Head(agenda) \in WakeCalls(t) THEN 1 ELSE 0)
                          + Count(px'.active, {Context("active", t)})
         /\ Tells(t)' = Count(n, ToldCalls(t)) + Tells(t)
                          - (IF Head(agenda) \in ToldCalls(t) THEN 1 ELSE 0)
         /\ Wakes(t) = Count(agenda, WakeCalls(t)) + Count(px.active, {Context("active", t)})
         /\ Wakes(t) \in Nat /\ Tells(t) \in Nat
         /\ Count(agenda, WakeCalls(t)) \in Nat /\ Count(px.active, {Context("active", t)}) \in Nat
         /\ Count(n, WakeCalls(t)) \in Nat /\ Count(n, ToldCalls(t)) \in Nat
<1>1. /\ TypeInv /\ Wakes(t) \in Nat /\ Tells(t) \in Nat
      /\ Count(px.active, {Context("active", t)}) \in Nat
      /\ Count(px.pending, {Context("committed", t)}) \in Nat
      /\ Count(px.committing, {Context("committed", t)}) \in Nat
      /\ Count(agenda, WakeCalls(t)) \in Nat /\ Count(agenda, ToldCalls(t)) \in Nat
  BY MemberFacts
<1>2. \A W : /\ Count(agenda', W) = Count(n, W) + Count(agenda, W) - (IF Head(agenda) \in W THEN 1 ELSE 0)
             /\ Count(n, W) \in Nat
  BY <1>1, AgendaStep
<1>3. /\ Wakes(t)' = Count(agenda', WakeCalls(t)) + Count(px'.active, {Context("active", t)})
      /\ Tells(t)' = Count(agenda', ToldCalls(t)) + Count(px.committing, {Context("committed", t)})
                     + Count(px.pending, {Context("committed", t)})
  BY DEF Wakes, Tells, WakeCalls, ToldCalls
<1>4. /\ Wakes(t) = Count(agenda, WakeCalls(t)) + Count(px.active, {Context("active", t)})
      /\ Tells(t) = Count(agenda, ToldCalls(t)) + Count(px.committing, {Context("committed", t)})
                    + Count(px.pending, {Context("committed", t)})
  BY DEF Wakes, Tells
<1>5. /\ Count(agenda', WakeCalls(t)) = Count(n, WakeCalls(t)) + Count(agenda, WakeCalls(t))
                          - (IF Head(agenda) \in WakeCalls(t) THEN 1 ELSE 0)
      /\ Count(agenda', ToldCalls(t)) = Count(n, ToldCalls(t)) + Count(agenda, ToldCalls(t))
                          - (IF Head(agenda) \in ToldCalls(t) THEN 1 ELSE 0)
      /\ Count(n, WakeCalls(t)) \in Nat /\ Count(n, ToldCalls(t)) \in Nat
  BY <1>2
<1>6. Wakes(t)' = Count(n, WakeCalls(t)) + Count(agenda, WakeCalls(t))
                    - (IF Head(agenda) \in WakeCalls(t) THEN 1 ELSE 0)
                    + Count(px'.active, {Context("active", t)})
  BY <1>3, <1>5
<1>7. Tells(t)' = Count(n, ToldCalls(t)) + Tells(t) - (IF Head(agenda) \in ToldCalls(t) THEN 1 ELSE 0)
  <2> DEFINE c1 == Count(n, ToldCalls(t))
             c2 == Count(agenda, ToldCalls(t))
             c3 == Count(px.committing, {Context("committed", t)})
             c4 == Count(px.pending, {Context("committed", t)})
             d == IF Head(agenda) \in ToldCalls(t) THEN 1 ELSE 0
  <2>1. c1 \in Nat /\ c2 \in Nat /\ c3 \in Nat /\ c4 \in Nat
    BY <1>1, <1>5
  <2>2. d \in Nat
    OBVIOUS
  <2>3. Tells(t)' = (c1 + c2 - d) + c3 + c4 /\ Tells(t) = c2 + c3 + c4
    BY <1>3, <1>4, <1>5
  <2>4. Tells(t)' = c1 + Tells(t) - d
    <3> HIDE DEF c1, c2, c3, c4, d
    <3> QED BY <2>1, <2>2, <2>3
  <2> QED BY <2>4
<1> QED BY <1>1, <1>4, <1>5, <1>6, <1>7

LEMMA NoTokens ==
  ASSUME NEW n \in Seq(Calls),
         \A c \in Range(n) : \/ c.do \notin {"elected", "active", "finish"}
                             \/ c.do \in {"finish", "again"} /\ c.arg.kind \in {"retry", "ack"}
  PROVE  \A t : Count(n, WakeCalls(t)) = 0 /\ Count(n, ToldCalls(t)) = 0
<1> TAKE t
<1>1. \A c \in Range(n) : c \notin WakeCalls(t) /\ c \notin ToldCalls(t)
  BY TokenCalls
<1> QED BY <1>1, CountType

LEMMA MemberActive ==
  ASSUME Life, ~Resetting, TypeInv', Active
  PROVE  Life' /\ ~Resetting'
<1>0. /\ TypeInv /\ ListInv /\ ValueInv /\ CallInv /\ ProposeInv /\ RoundInv /\ QueueInv /\ TokenInv
      /\ svc \in [Services -> ServiceType] /\ px \in PaxosType /\ agenda \in Seq(Calls)
  BY MemberFacts
<1>1. agenda # <<>> /\ Head(agenda).do = "active" /\ role' = role
  BY DEF Active
<1>2. PICK s \in Services : s = Head(agenda).arg
  BY <1>0, <1>1, HeadType, CallArgs DEF ServiceCalls
<1>3. Head(agenda) = Call("active", s)
  BY <1>0, <1>1, <1>2, HeadType, CallArgs
<1>4. /\ Head(agenda) \in WakeCalls(s) /\ \A t : Head(agenda) \notin ToldCalls(t)
      /\ \A t : t # s => Head(agenda) \notin WakeCalls(t)
  BY <1>3, TokenCalls
<1>5. /\ Wakes(s) = 1 /\ Tells(s) = 0 /\ ~svc[s].have_pending /\ ~svc[s].proposing
      /\ Count(agenda, WakeCalls(s)) = 1 /\ Count(px.active, {Context("active", s)}) = 0
  BY <1>1, <1>4, HeadToken
<1>6. \A t \in Services :
        /\ Wakes(t) + Tells(t) + (IF svc[t].have_pending THEN 1 ELSE 0) <= 1
        /\ svc[t].proposing <=> Tells(t) = 1
        /\ svc[t].have_pending \/ svc[t].proposing => role = "leader" /\ px.state \in Works \cup {"refresh"}
        /\ svc[t].timer => svc[t].have_pending
  BY <1>0 DEF TokenInv
<1>7. \A t \in Services : svc[t].waiting \in Seq(Contexts)
  BY <1>0 DEF ServiceType
<1>8. CASE /\ ~svc[s].proposing /\ ~IsActive(s)
           /\ WaitForActive(s, Context("active", s)) /\ Continue(<<>>)
  <2> DEFINE c == Context("active", s)
  <2>1. px' = [px EXCEPT !.active = Append(@, c)] /\ svc' = svc
    BY <1>8 DEF WaitForActive
  <2>2. c \in Contexts /\ c.kind = "active" /\ px.active \in Seq(Contexts)
    BY <1>0, CallTypes DEF Context, PaxosType
  <2>3. \A t : c \in {Context("active", t)} <=> t = s
    BY TokenCalls
  <2> HIDE DEF c
  <2>4. /\ px'.state = px.state /\ px'.value = px.value /\ px'.txn = px.txn
        /\ px'.pending = px.pending /\ px'.committing = px.committing /\ px'.readable = px.readable
        /\ px'.active = Append(px.active, c)
    BY <1>0, <2>1 DEF PaxosType
  <2>5. Range(px'.active) = Range(px.active) \cup {c}
        /\ \A W : Count(px'.active, W) = Count(px.active, W) + (IF c \in W THEN 1 ELSE 0)
    BY <2>2, <2>4, CountContexts
  <2>6. ListInv' /\ ValueInv'
    BY <1>0, <2>1, <2>2, <2>4, <2>5 DEF ListInv, ValueInv
  <2>7. <<>> \in Seq(Calls) /\ Range(<<>>) = {} /\ \A W : Count(<<>>, W) = 0
    BY CountShort
  <2>8. \A t \in Services : Wakes(t)' = Wakes(t) /\ Tells(t)' = Tells(t)
    <3> TAKE t \in Services
    <3>1. /\ Wakes(t)' = Count(<<>>, WakeCalls(t)) + Count(agenda, WakeCalls(t))
                           - (IF Head(agenda) \in WakeCalls(t) THEN 1 ELSE 0)
                           + Count(px'.active, {Context("active", t)})
          /\ Tells(t)' = Count(<<>>, ToldCalls(t)) + Tells(t)
                           - (IF Head(agenda) \in ToldCalls(t) THEN 1 ELSE 0)
          /\ Wakes(t) = Count(agenda, WakeCalls(t)) + Count(px.active, {Context("active", t)})
          /\ Wakes(t) \in Nat /\ Tells(t) \in Nat
          /\ Count(agenda, WakeCalls(t)) \in Nat /\ Count(px.active, {Context("active", t)}) \in Nat
      BY <1>1, <1>8, <2>4, <2>7, TokenCounts
    <3>2. Count(px'.active, {Context("active", t)})
            = Count(px.active, {Context("active", t)}) + (IF t = s THEN 1 ELSE 0)
      BY <2>3, <2>5
    <3>3. Count(<<>>, WakeCalls(t)) = 0 /\ Count(<<>>, ToldCalls(t)) = 0
      BY <2>7
    <3> QED BY <1>4, <3>1, <3>2, <3>3
  <2>9. TokenInv'
    BY <1>1, <1>6, <2>1, <2>4, <2>8 DEF TokenInv
  <2>10. ProposesFirst(<<>>)
    BY <2>7, NoProposal
  <2> QED BY <1>1, <1>8, <2>4, <2>6, <2>7, <2>9, <2>10, ServiceStep
<1>9. ASSUME NEW n \in Seq(Calls), Continue(n), px' = px, ListInv',
             \A t \in Services : t # s => SameCore(t),
             svc'[s].proposing = svc[s].proposing, svc'[s].timer = svc[s].timer,
             svc'[s].have_pending => role = "leader" /\ px.state \in Works,
             \A t : Count(n, WakeCalls(t)) = 0 /\ Count(n, ToldCalls(t)) = 0,
             svc'[s].value = svc[s].value
               \/ (svc'[s].have_pending /\ svc'[s].value = svc[s].value \cup {Initial(s)})
      PROVE  TokenInv' /\ ValueInv'
  <2>1. ASSUME NEW t \in Services
        PROVE  Wakes(t)' = (IF t = s THEN 0 ELSE Wakes(t)) /\ Tells(t)' = Tells(t)
    <3>1. /\ Wakes(t)' = Count(n, WakeCalls(t)) + Count(agenda, WakeCalls(t))
                           - (IF Head(agenda) \in WakeCalls(t) THEN 1 ELSE 0)
                           + Count(px'.active, {Context("active", t)})
          /\ Tells(t)' = Count(n, ToldCalls(t)) + Tells(t)
                           - (IF Head(agenda) \in ToldCalls(t) THEN 1 ELSE 0)
          /\ Wakes(t) = Count(agenda, WakeCalls(t)) + Count(px.active, {Context("active", t)})
          /\ Wakes(t) \in Nat /\ Tells(t) \in Nat
          /\ Count(agenda, WakeCalls(t)) \in Nat /\ Count(px.active, {Context("active", t)}) \in Nat
      BY <1>1, <1>9, TokenCounts
    <3>2. Count(n, WakeCalls(t)) = 0 /\ Count(n, ToldCalls(t)) = 0
      BY <1>9
    <3> QED BY <1>4, <1>5, <1>9, <3>1, <3>2
  <2>2. ~svc[s].timer
    BY <1>5, <1>6
  <2>3. ASSUME NEW t \in Services
        PROVE  /\ Wakes(t)' + Tells(t)' + (IF svc'[t].have_pending THEN 1 ELSE 0) <= 1
               /\ svc'[t].proposing <=> Tells(t)' = 1
               /\ svc'[t].have_pending \/ svc'[t].proposing =>
                    role' = "leader" /\ px'.state \in Works \cup {"refresh"}
               /\ svc'[t].timer => svc'[t].have_pending
    <3>1. CASE t = s
      BY <1>1, <1>5, <1>9, <2>1, <2>2, <3>1
    <3>2. CASE t # s
      BY <1>1, <1>6, <1>9, <2>1, <3>2 DEF SameCore
    <3> QED BY <3>1, <3>2
  <2>4. TokenInv'
    BY <2>3 DEF TokenInv
  <2>5. ValueInv'
    <3>1. Initial(s).svc = s
      BY DEF Initial
    <3>2. ASSUME NEW t \in Services
          PROVE  /\ \A c \in svc'[t].value : c.svc = t
                 /\ svc'[t].value # {} => svc'[t].have_pending
                 /\ svc'[t].proposing => ~svc'[t].have_pending
      <4>1. /\ \A c \in svc[t].value : c.svc = t
            /\ svc[t].value # {} => svc[t].have_pending
            /\ svc[t].proposing => ~svc[t].have_pending
        BY <1>0 DEF ValueInv
      <4>2. CASE t = s
        BY <1>5, <1>9, <3>1, <4>1, <4>2
      <4>3. CASE t # s
        BY <1>9, <4>1, <4>3 DEF SameCore
      <4> QED BY <4>2, <4>3
    <3> QED BY <3>2 DEF ValueInv
  <2> QED BY <2>4, <2>5
<1>10. CASE /\ IsActive(s) /\ role = "leader" /\ ~Committed(s)
            /\ svc' = [svc EXCEPT ![s].have_pending = TRUE, ![s].value = @ \cup {Initial(s)}]
            /\ Continue(<<Call("propose", s)>>) /\ UNCHANGED px
  <2> DEFINE c == Call("propose", s)
             n == <<c>>
  <2>1. c \in Calls /\ c.do = "propose" /\ c.arg = s
    BY CallTypes DEF ServiceCalls, Call
  <2>2. ProposesFirst(n)
    BY DEF ProposesFirst, Proposes, Call
  <2> HIDE DEF c
  <2>3. n \in Seq(Calls) /\ Range(n) = {c}
    BY <2>1, CountShort
  <2>4. \A t : Count(n, WakeCalls(t)) = 0 /\ Count(n, ToldCalls(t)) = 0
    BY <2>1, <2>3, NoTokens
  <2>5. /\ \A t \in Services : (t # s => SameCore(t)) /\ svc'[t].waiting = svc[t].waiting
        /\ svc'[s].have_pending /\ svc'[s].value = svc[s].value \cup {Initial(s)}
        /\ svc'[s].proposing = svc[s].proposing /\ svc'[s].timer = svc[s].timer
    BY <1>0, <1>10 DEF ServiceType, SameCore
  <2>6. ListInv'
    BY <1>0, <1>10, <2>5 DEF ListInv
  <2>7. role = "leader" /\ px.state \in Works /\ Continue(n) /\ px' = px
    BY <1>10 DEF IsActive, Works, c
  <2>8. TokenInv' /\ ValueInv'
    BY <1>9, <2>3, <2>4, <2>5, <2>6, <2>7
  <2>9. MayPropose(s)'
    BY <1>1, <1>5, <2>5, <2>7 DEF MayPropose, IsActive, Works
  <2> HIDE DEF n
  <2> QED BY <1>1, <2>1, <2>2, <2>3, <2>6, <2>7, <2>8, <2>9, ServiceStep
<1>11. CASE /\ IsActive(s) /\ (role = "leader" => Committed(s))
            /\ svc' = [svc EXCEPT ![s].have_pending = @ \/ role = "leader", ![s].waiting = <<>>]
            /\ Continue(Finish(svc[s].waiting, TRUE)) /\ UNCHANGED px
  <2> DEFINE n == Finish(svc[s].waiting, TRUE)
  <2>1. n \in Seq(Calls) /\ \A c \in Range(n) : c.do = "finish" /\ c.arg \in Range(svc[s].waiting)
    BY <1>7, FinishOk
  <2>2. Continue(n) /\ px.state \in Works /\ px' = px
    BY <1>11 DEF IsActive, Works
  <2> HIDE DEF n
  <2>3. \A c \in Range(n) : c.do = "finish" /\ c.arg.kind \in {"retry", "ack"}
    BY <1>0, <2>1 DEF ListInv
  <2>4. \A t : Count(n, WakeCalls(t)) = 0 /\ Count(n, ToldCalls(t)) = 0
    BY <2>1, <2>3, NoTokens
  <2>5. /\ \A t \in Services : t # s => SameCore(t) /\ svc'[t].waiting = svc[t].waiting
        /\ svc'[s].waiting = <<>> /\ svc'[s].value = svc[s].value
        /\ svc'[s].have_pending => svc[s].have_pending \/ role = "leader"
        /\ svc'[s].proposing = svc[s].proposing /\ svc'[s].timer = svc[s].timer
    BY <1>0, <1>11 DEF ServiceType, SameCore
  <2>6. ListInv'
    BY <1>0, <2>2, <2>5, CountShort DEF ListInv
  <2>7. TokenInv' /\ ValueInv'
    BY <1>5, <1>9, <2>1, <2>2, <2>4, <2>5, <2>6
  <2>8. ProposesFirst(n) /\ \A c \in Range(n) : ~Proposes(c)
    BY <2>1, <2>3, NoProposal DEF Proposes
  <2>9. px.state # "recovering"
    BY <2>2 DEF Works
  <2> QED BY <1>1, <2>1, <2>2, <2>3, <2>6, <2>7, <2>8, <2>9, ServiceStep
<1> QED BY <1>2, <1>5, <1>8, <1>10, <1>11 DEF Active

LEMMA MemberFinishContext ==
  ASSUME Life, ~Resetting, TypeInv', FinishContext
  PROVE  Life' /\ ~Resetting'
<1>0. /\ TypeInv /\ ListInv /\ ValueInv /\ CallInv /\ ProposeInv /\ RoundInv /\ QueueInv /\ TokenInv
      /\ svc \in [Services -> ServiceType] /\ px \in PaxosType /\ agenda \in Seq(Calls)
  BY MemberFacts
<1>1. agenda # <<>> /\ Head(agenda).do \in {"finish", "again"} /\ role' = role /\ px' = px
  BY DEF FinishContext
<1>2. PICK c \in Contexts : c = Head(agenda).arg
  BY <1>0, <1>1, HeadType, CallArgs
<1>3. Head(agenda) = Call(Head(agenda).do, c) /\ Head(agenda) \in Todo
  BY <1>0, <1>1, <1>2, HeadType, CallArgs, CallsDone
<1>4. c \in ServiceContexts \/ c \in OpContexts
  BY DEF Contexts
<1>5. CASE c \in OpContexts
  <2>1. c.op \in Ops /\ c.kind \in {"retry", "ack"}
    BY <1>5 DEF OpContexts
  <2>2. svc' = svc /\ (Continue(<<>>) \/ Continue(<<Call("dispatch", c.op)>>))
    BY <1>1, <1>2, <2>1 DEF FinishContext
  <2>3. Quiet(Head(agenda))
    BY <1>1, <1>2, <2>1 DEF Quiet
  <2> DEFINE d == Call("dispatch", c.op)
  <2>4. d \in Calls /\ d.do = "dispatch"
    BY <2>1, CallTypes DEF Call
  <2> HIDE DEF d
  <2>5. /\ <<>> \in Seq(Calls) /\ Range(<<>>) = {}
        /\ <<d>> \in Seq(Calls) /\ Range(<<d>>) = {d}
    BY <2>4, CountShort
  <2>6. PICK n \in {<<>>, <<d>>} : Continue(n)
    BY <2>2 DEF d
  <2>7. n \in Seq(Calls) /\ \A x \in Range(n) : x.do = "dispatch"
    BY <2>4, <2>5
  <2>8. ListInv' /\ \A s \in Services : SameCore(s)
    BY <1>0, <1>1, <2>2 DEF ListInv, SameCore
  <2>9. \A x \in Range(n) : Quiet(x) /\ x.do \notin {"finish", "readable"}
    BY <2>7 DEF Quiet
  <2> QED BY <1>1, <2>3, <2>6, <2>7, <2>8, <2>9, QuietMember
<1>6. CASE c \in ServiceContexts
  <2>1. PICK s \in Services : s = c.svc
    BY <1>6 DEF ServiceContexts
  <2>2. c.kind \in {"active", "committed"} /\ c = Context(c.kind, s)
    BY <1>6, <2>1 DEF ServiceContexts, Context
  <2>3. Head(agenda).do = "finish"
    BY <1>0, <1>1, <1>2, <1>3, <2>2 DEF CallInv
  <2> DEFINE d == Call("active", s)
             n == <<d>>
  <2>4. d \in Calls /\ d.do = "active"
    BY CallTypes DEF ServiceCalls, Call
  <2>5. Continue(n)
    BY <1>1, <1>2, <2>1, <2>2, <2>3 DEF FinishContext
  <2>6. svc' = IF c.kind = "committed" THEN [svc EXCEPT ![s].proposing = FALSE] ELSE svc
    BY <1>2, <2>1 DEF FinishContext
  <2>7. \A t : /\ d \in WakeCalls(t) <=> t = s
               /\ d \notin ToldCalls(t)
    BY TokenCalls
  <2> HIDE DEF d
  <2>8. n \in Seq(Calls) /\ Range(n) = {d}
        /\ \A t : Count(n, WakeCalls(t)) = (IF t = s THEN 1 ELSE 0) /\ Count(n, ToldCalls(t)) = 0
    BY <2>4, <2>7, CountShort
  <2> HIDE DEF n
  <2>9. /\ \A t \in Services : /\ svc'[t].have_pending = svc[t].have_pending
                               /\ svc'[t].value = svc[t].value /\ svc'[t].timer = svc[t].timer
                               /\ svc'[t].waiting = svc[t].waiting
        /\ \A t \in Services : t # s => svc'[t].proposing = svc[t].proposing
        /\ svc'[s].proposing = IF c.kind = "committed" THEN FALSE ELSE svc[s].proposing
    BY <1>0, <2>6 DEF ServiceType
  <2>10. ListInv'
    BY <1>0, <1>1, <2>9 DEF ListInv
  <2>11. ValueInv'
    <3>1. \A t \in Services : svc'[t].proposing => svc[t].proposing
      BY <2>9
    <3> QED BY <1>0, <2>9, <3>1 DEF ValueInv
  <2>12. ASSUME NEW t \in Services
         PROVE  /\ Wakes(t)' = (IF t = s THEN 1 ELSE 0) + Count(agenda, WakeCalls(t))
                                 - (IF Head(agenda) \in WakeCalls(t) THEN 1 ELSE 0)
                                 + Count(px.active, {Context("active", t)})
                /\ Tells(t)' = Tells(t) - (IF Head(agenda) \in ToldCalls(t) THEN 1 ELSE 0)
                /\ Wakes(t) = Count(agenda, WakeCalls(t)) + Count(px.active, {Context("active", t)})
                /\ Wakes(t) \in Nat /\ Tells(t) \in Nat
                /\ Count(agenda, WakeCalls(t)) \in Nat /\ Count(px.active, {Context("active", t)}) \in Nat
    <3>1. /\ Wakes(t)' = Count(n, WakeCalls(t)) + Count(agenda, WakeCalls(t))
                           - (IF Head(agenda) \in WakeCalls(t) THEN 1 ELSE 0)
                           + Count(px'.active, {Context("active", t)})
          /\ Tells(t)' = Count(n, ToldCalls(t)) + Tells(t)
                           - (IF Head(agenda) \in ToldCalls(t) THEN 1 ELSE 0)
          /\ Wakes(t) = Count(agenda, WakeCalls(t)) + Count(px.active, {Context("active", t)})
          /\ Wakes(t) \in Nat /\ Tells(t) \in Nat
          /\ Count(agenda, WakeCalls(t)) \in Nat /\ Count(px.active, {Context("active", t)}) \in Nat
      BY <1>1, <2>5, <2>8, TokenCounts
    <3>2. Count(n, WakeCalls(t)) = (IF t = s THEN 1 ELSE 0) /\ Count(n, ToldCalls(t)) = 0
      BY <2>8
    <3> QED BY <1>1, <3>1, <3>2
  <2>13. TokenInv'
    <3>1. \A t \in Services :
            /\ Wakes(t) + Tells(t) + (IF svc[t].have_pending THEN 1 ELSE 0) <= 1
            /\ svc[t].proposing <=> Tells(t) = 1
            /\ svc[t].have_pending \/ svc[t].proposing => role = "leader" /\ px.state \in Works \cup {"refresh"}
            /\ svc[t].timer => svc[t].have_pending
      BY <1>0 DEF TokenInv
    <3>2. CASE c.kind = "active"
      <4>1. Head(agenda) = Call("finish", Context("active", s))
        BY <1>3, <2>2, <2>3, <3>2
      <4>2. \A t : Head(agenda) \notin ToldCalls(t) /\ (Head(agenda) \in WakeCalls(t) <=> t = s)
        BY <4>1, TokenCalls
      <4>3. \A t \in Services : Wakes(t)' = Wakes(t) /\ Tells(t)' = Tells(t)
        <5> TAKE t \in Services
        <5>1. Head(agenda) \notin ToldCalls(t) /\ (Head(agenda) \in WakeCalls(t) <=> t = s)
          BY <4>2
        <5>2. /\ Wakes(t)' = (IF t = s THEN 1 ELSE 0) + Count(agenda, WakeCalls(t))
                          - (IF Head(agenda) \in WakeCalls(t) THEN 1 ELSE 0)
                          + Count(px.active, {Context("active", t)})
              /\ Tells(t)' = Tells(t) - (IF Head(agenda) \in ToldCalls(t) THEN 1 ELSE 0)
              /\ Wakes(t) = Count(agenda, WakeCalls(t)) + Count(px.active, {Context("active", t)})
              /\ Wakes(t) \in Nat /\ Tells(t) \in Nat
              /\ Count(agenda, WakeCalls(t)) \in Nat /\ Count(px.active, {Context("active", t)}) \in Nat
          BY <2>12
        <5> QED BY <5>1, <5>2
      <4>4. \A t \in Services : svc'[t].proposing = svc[t].proposing
        BY <2>9, <3>2
      <4> QED BY <1>1, <2>9, <3>1, <4>3, <4>4 DEF TokenInv
    <3>3. CASE c.kind = "committed"
      <4>1. Head(agenda) = Call("finish", Context("committed", s))
        BY <1>3, <2>2, <2>3, <3>3
      <4>2. \A t : Head(agenda) \notin WakeCalls(t) /\ (Head(agenda) \in ToldCalls(t) <=> t = s)
        BY <4>1, TokenCalls
      <4>3. Wakes(s) = 0 /\ Tells(s) = 1 /\ ~svc[s].have_pending
        BY <1>1, <4>2, HeadToken
      <4>4. Wakes(s)' = 1 /\ Tells(s)' = 0
        <5>1. Head(agenda) \notin WakeCalls(s) /\ Head(agenda) \in ToldCalls(s)
          BY <4>2
        <5>2. /\ Wakes(s)' = (IF s = s THEN 1 ELSE 0) + Count(agenda, WakeCalls(s))
                          - (IF Head(agenda) \in WakeCalls(s) THEN 1 ELSE 0)
                          + Count(px.active, {Context("active", s)})
              /\ Tells(s)' = Tells(s) - (IF Head(agenda) \in ToldCalls(s) THEN 1 ELSE 0)
              /\ Wakes(s) = Count(agenda, WakeCalls(s)) + Count(px.active, {Context("active", s)})
              /\ Wakes(s) \in Nat /\ Tells(s) \in Nat
              /\ Count(agenda, WakeCalls(s)) \in Nat /\ Count(px.active, {Context("active", s)}) \in Nat
          BY <2>12
        <5> QED BY <4>3, <5>1, <5>2
      <4>5. ASSUME NEW t \in Services, t # s PROVE Wakes(t)' = Wakes(t) /\ Tells(t)' = Tells(t)
        <5>1. Head(agenda) \notin WakeCalls(t) /\ Head(agenda) \notin ToldCalls(t)
          BY <4>2, <4>5
        <5>2. /\ Wakes(t)' = (IF t = s THEN 1 ELSE 0) + Count(agenda, WakeCalls(t))
                          - (IF Head(agenda) \in WakeCalls(t) THEN 1 ELSE 0)
                          + Count(px.active, {Context("active", t)})
              /\ Tells(t)' = Tells(t) - (IF Head(agenda) \in ToldCalls(t) THEN 1 ELSE 0)
              /\ Wakes(t) = Count(agenda, WakeCalls(t)) + Count(px.active, {Context("active", t)})
              /\ Wakes(t) \in Nat /\ Tells(t) \in Nat
              /\ Count(agenda, WakeCalls(t)) \in Nat /\ Count(px.active, {Context("active", t)}) \in Nat
          BY <2>12
        <5> QED BY <4>5, <5>1, <5>2
      <4>6. ~svc'[s].proposing /\ ~svc'[s].have_pending /\ ~svc'[s].timer
        BY <2>9, <3>1, <3>3, <4>3
      <4>7. ASSUME NEW t \in Services
            PROVE  /\ Wakes(t)' + Tells(t)' + (IF svc'[t].have_pending THEN 1 ELSE 0) <= 1
                   /\ svc'[t].proposing <=> Tells(t)' = 1
                   /\ svc'[t].have_pending \/ svc'[t].proposing =>
                        role' = "leader" /\ px'.state \in Works \cup {"refresh"}
                   /\ svc'[t].timer => svc'[t].have_pending
        <5>1. CASE t = s
          BY <4>4, <4>6, <5>1
        <5>2. CASE t # s
          BY <1>1, <2>9, <3>1, <4>5, <5>2
        <5> QED BY <5>1, <5>2
      <4> QED BY <4>7 DEF TokenInv
    <3> QED BY <2>2, <3>2, <3>3
  <2>14. ProposesFirst(n) /\ ~Proposes(d)
    BY <2>4, <2>8, NoProposal DEF Proposes
  <2> QED BY <1>1, <2>3, <2>4, <2>5, <2>8, <2>10, <2>11, <2>13, <2>14, ServiceStep
<1> QED BY <1>4, <1>5, <1>6

LEMMA MemberElectionFinished ==
  ASSUME Life, ~Resetting, TypeInv', ElectionFinished
  PROVE  Life' /\ ~Resetting'
<1>0. /\ TypeInv /\ ListInv /\ ValueInv /\ CallInv /\ ProposeInv /\ RoundInv /\ QueueInv /\ TokenInv
      /\ svc \in [Services -> ServiceType] /\ px \in PaxosType /\ agenda \in Seq(Calls)
  BY MemberFacts
<1>1. agenda # <<>> /\ Head(agenda).do \in {"elected", "refreshed"} /\ role' = role /\ px' = px
  BY DEF ElectionFinished
<1>2. PICK s \in Services : s = Head(agenda).arg
  BY <1>0, <1>1, HeadType, CallArgs DEF ServiceCalls
<1>3. Head(agenda) = Call(Head(agenda).do, s)
  BY <1>0, <1>1, <1>2, HeadType, CallArgs
<1> DEFINE a == Finish(svc[s].waiting, FALSE)
           d == Call("active", s)
<1>4. a \in Seq(Calls) /\ \A c \in Range(a) : c.do = "again" /\ c.arg.kind \in {"retry", "ack"}
  <2>1. svc[s].waiting \in Seq(Contexts)
    BY <1>0 DEF ServiceType
  <2>2. a \in Seq(Calls) /\ \A c \in Range(a) : c.do = "again" /\ c.arg \in Range(svc[s].waiting)
    BY <2>1, FinishAgain
  <2> QED BY <1>0, <2>2 DEF ListInv
<1>5. svc' = [svc EXCEPT ![s].waiting = <<>>]
      /\ Continue(a \o (IF Head(agenda).do = "elected" THEN <<d>> ELSE <<>>))
  BY <1>2 DEF ElectionFinished
<1>6. d \in Calls /\ d.do = "active" /\ \A t : (d \in WakeCalls(t) <=> t = s) /\ d \notin ToldCalls(t)
  BY CallTypes, TokenCalls DEF ServiceCalls, Call
<1> HIDE DEF a, d
<1>7. \A t \in Services : SameCore(t) /\ (svc'[t].waiting = svc[t].waiting \/ svc'[t].waiting = <<>>)
  BY <1>0, <1>5 DEF ServiceType, SameCore
<1>8. ListInv' /\ ValueInv'
  BY <1>0, <1>1, <1>7, CountShort DEF ListInv, ValueInv, SameCore
<1>9. CASE Head(agenda).do = "refreshed"
  <2>1. Continue(a)
    <3>1. a \o <<>> = a
      BY <1>4
    <3> QED BY <1>5, <1>9, <3>1
  <2>2. Quiet(Head(agenda)) /\ \A c \in Range(a) : Quiet(c) /\ c.do \notin {"finish", "readable"}
    BY <1>4, <1>9 DEF Quiet
  <2> QED BY <1>1, <1>4, <1>7, <1>8, <2>1, <2>2, QuietMember
<1>10. CASE Head(agenda).do = "elected"
  <2> DEFINE n == a \o <<d>>
  <2>1. Continue(n)
    BY <1>5, <1>10
  <2>2. <<d>> \in Seq(Calls) /\ Range(<<d>>) = {d}
        /\ \A t : Count(<<d>>, WakeCalls(t)) = (IF t = s THEN 1 ELSE 0) /\ Count(<<d>>, ToldCalls(t)) = 0
    BY <1>6, CountShort
  <2>3. \A t : Count(a, WakeCalls(t)) = 0 /\ Count(a, ToldCalls(t)) = 0
    BY <1>4, NoTokens
  <2>4. /\ n \in Seq(Calls) /\ Range(n) = Range(a) \cup {d}
        /\ \A W : Count(n, W) = Count(a, W) + Count(<<d>>, W)
    BY <1>4, <2>2, CountCalls
  <2> HIDE DEF n
  <2>5. ASSUME NEW t \in Services PROVE Wakes(t)' = Wakes(t) /\ Tells(t)' = Tells(t)
    <3>1. /\ Wakes(t)' = Count(n, WakeCalls(t)) + Count(agenda, WakeCalls(t))
                           - (IF Head(agenda) \in WakeCalls(t) THEN 1 ELSE 0)
                           + Count(px'.active, {Context("active", t)})
          /\ Tells(t)' = Count(n, ToldCalls(t)) + Tells(t)
                           - (IF Head(agenda) \in ToldCalls(t) THEN 1 ELSE 0)
          /\ Wakes(t) = Count(agenda, WakeCalls(t)) + Count(px.active, {Context("active", t)})
          /\ Wakes(t) \in Nat /\ Tells(t) \in Nat
          /\ Count(agenda, WakeCalls(t)) \in Nat /\ Count(px.active, {Context("active", t)}) \in Nat
      BY <1>1, <2>1, <2>4, TokenCounts
    <3>2. Count(n, WakeCalls(t)) = (IF t = s THEN 1 ELSE 0) /\ Count(n, ToldCalls(t)) = 0
      <4>1. /\ Count(n, WakeCalls(t)) = 0 + (IF t = s THEN 1 ELSE 0)
            /\ Count(n, ToldCalls(t)) = 0 + 0
        BY <2>2, <2>3, <2>4
      <4> QED BY <4>1
    <3>3. Head(agenda) \notin ToldCalls(t) /\ (Head(agenda) \in WakeCalls(t) <=> t = s)
      <4>1. Head(agenda) = Call("elected", s)
        BY <1>3, <1>10
      <4> QED BY <4>1, TokenCalls
    <3> QED BY <1>1, <3>1, <3>2, <3>3
  <2>6. TokenInv'
    BY <1>0, <1>1, <1>7, <2>5 DEF TokenInv, SameCore
  <2>7. \A c \in Range(n) : c.do \in {"again", "active"} /\ (c.do = "again" => c.arg.kind \in {"retry", "ack"})
    BY <1>4, <1>6, <2>4
  <2>8. ProposesFirst(n) /\ \A c \in Range(n) : ~Proposes(c)
    BY <2>4, <2>7, NoProposal DEF Proposes
  <2> QED BY <1>1, <1>8, <1>10, <2>1, <2>4, <2>6, <2>7, <2>8, ServiceStep
<1> QED BY <1>1, <1>9, <1>10

LEMMA MemberFinishElection ==
  ASSUME Life, ~Resetting, TypeInv', FinishElection
  PROVE  Life' /\ ~Resetting'
<1>0. TypeInv /\ ListInv /\ px \in PaxosType
  BY MemberFacts
<1>1. agenda # <<>> /\ Head(agenda).do = "finished" /\ role' = role /\ svc' = svc
  BY DEF FinishElection
<1> DEFINE a == [i \in 1 .. Cardinality(routed) |-> Call("dispatch", SetToSeq(routed)[i])]
<1>2. a \in Seq(Calls) /\ \A c \in Range(a) : c.do = "dispatch"
  <2>1. /\ a \in Seq(Calls) /\ Cardinality(routed) \in Nat
    BY <1>0, RoutedSeq DEF TypeInv
  <2> QED BY <2>1 DEF Range, Call
<1>3. px' = (IF role = "leader" THEN [px EXCEPT !.txn = Txn(px)] ELSE px)
      /\ Continue(IF role = "leader" THEN a ELSE <<>>)
  BY DEF FinishElection
<1> HIDE DEF a
<1>4. /\ px'.state = px.state /\ px'.value = px.value /\ px'.pending = px.pending
      /\ px'.committing = px.committing /\ px'.active = px.active /\ px'.readable = px.readable
      /\ px'.txn = px.txn \/ px'.txn = Txn(px)
  BY <1>0, <1>3 DEF PaxosType
<1>5. Txn(px') = Txn(px) /\ (px.txn # None => px'.txn # None)
  BY <1>4 DEF Txn
<1>6. PICK n \in Seq(Calls) : Continue(n) /\ \A c \in Range(n) : c.do = "dispatch"
  <2>1. <<>> \in Seq(Calls) /\ Range(<<>>) = {}
    BY CountShort
  <2> QED BY <1>2, <1>3, <2>1
<1>7. ListInv' /\ \A s \in Services : SameCore(s)
  BY <1>0, <1>1, <1>4 DEF ListInv, SameCore
<1>8. Quiet(Head(agenda)) /\ \A c \in Range(n) : Quiet(c) /\ c.do \notin {"finish", "readable"}
  BY <1>1, <1>6 DEF Quiet
<1> QED BY <1>1, <1>4, <1>5, <1>6, <1>7, <1>8, QuietMember

LEMMA MemberKickReadable ==
  ASSUME Life, ~Resetting, TypeInv', KickReadable
  PROVE  Life' /\ ~Resetting'
<1>0. TypeInv /\ ListInv /\ px \in PaxosType
  BY MemberFacts
<1>1. agenda # <<>> /\ Head(agenda).do = "readable" /\ role' = role /\ svc' = svc
  BY DEF KickReadable
<1>8. px.state # "recovering"
  <2>1. Head(agenda) \in Todo /\ RoundInv
    BY <1>0, <1>1, CallsDone, MemberFacts
  <2> QED BY <1>1, <2>1 DEF RoundInv, Does
<1> DEFINE n == Finish(px.readable, TRUE)
<1>2. n \in Seq(Calls) /\ \A c \in Range(n) : c.do = "finish" /\ c.arg \in Range(px.readable)
  BY <1>0, FinishOk DEF PaxosType
<1>3. Continue(n) /\ px' = [px EXCEPT !.readable = <<>>]
  BY DEF KickReadable
<1> HIDE DEF n
<1>4. /\ px'.state = px.state /\ px'.value = px.value /\ px'.pending = px.pending
      /\ px'.committing = px.committing /\ px'.active = px.active /\ px'.readable = <<>>
      /\ px'.txn = px.txn
  BY <1>0, <1>3 DEF PaxosType
<1>5. Txn(px') = Txn(px)
  BY <1>4 DEF Txn
<1>6. ListInv' /\ \A s \in Services : SameCore(s)
  BY <1>0, <1>1, <1>4, CountShort DEF ListInv, SameCore
<1>7. Quiet(Head(agenda)) /\ \A c \in Range(n) : Quiet(c)
  BY <1>0, <1>1, <1>2 DEF Quiet, ListInv
<1> QED BY <1>1, <1>2, <1>3, <1>4, <1>5, <1>6, <1>7, <1>8, QuietMember

-----------------------------------------------------------------------------
(* Rounds of Paxos *)

LEMMA RoundCall ==
  ASSUME NEW c \in Calls, c.do = "round"
  PROVE  c = Call("round", None)
  BY DEF Calls, Call, ServiceCalls, PlainCalls

LEMMA MemberFinishRound ==
  ASSUME Life, ~Resetting, TypeInv', FinishRound
  PROVE  Life' /\ ~Resetting'
<1>0. /\ TypeInv /\ ListInv /\ ValueInv /\ CallInv /\ ProposeInv /\ RoundInv /\ QueueInv /\ TokenInv
      /\ svc \in [Services -> ServiceType] /\ px \in PaxosType /\ agenda \in Seq(Calls)
      /\ role \in {"leader", "peon"} /\ \A c \in Todo : c.do # "role"
  BY MemberFacts
<1>1. agenda # <<>> /\ Head(agenda).do = "round" /\ role' = role /\ svc' = svc
  BY DEF FinishRound
<1>2. Head(agenda) = Call("round", None) /\ Head(agenda) \in Todo
  BY <1>0, <1>1, HeadType, RoundCall, CallsDone
<1>3. role = "leader" /\ px.state \in {"recovering", "refresh"} /\ px.value = None /\ px.committing = <<>>
  <2>1. role = "leader" /\ px.state \in {"recovering", "refresh"}
    BY <1>0, <1>1, <1>2 DEF RoundInv, Does
  <2> QED BY <1>0, <2>1 DEF RoundInv, QueueInv, Proposing
<1> DEFINE a == Finish(px.active, TRUE)
           b == <<Call("readable", None), Call("rest", None)>>
           n == a \o b
<1>4. px' = [px EXCEPT !.state = "active", !.active = <<>>] /\ Continue(n)
  BY DEF FinishRound
<1>5. /\ px'.state = "active" /\ px'.value = None /\ px'.txn = px.txn /\ px'.pending = px.pending
      /\ px'.committing = <<>> /\ px'.active = <<>> /\ px'.readable = px.readable
  BY <1>0, <1>3, <1>4 DEF PaxosType
<1>6. /\ a \in Seq(Calls) /\ \A c \in Range(a) : c.do = "finish" /\ c.arg \in Range(px.active)
      /\ \A s : /\ Count(a, WakeCalls(s)) = Count(px.active, {Context("active", s)})
                /\ Count(a, ToldCalls(s)) = Count(px.active, {Context("committed", s)})
      /\ Count(a, {Call("round", None)}) = 0
  BY <1>0, FinishOk DEF PaxosType
<1>7. /\ b \in Seq(Calls) /\ Range(b) = {Call("readable", None), Call("rest", None)}
      /\ \A s : Count(b, WakeCalls(s)) = 0 /\ Count(b, ToldCalls(s)) = 0
      /\ Count(b, {Call("round", None)}) = 0
  <2>1. Call("readable", None) \in Calls /\ Call("rest", None) \in Calls
    BY CallTypes DEF PlainCalls
  <2>2. b \in Seq(Calls)
    BY <2>1
  <2>3. Range(b) = {Call("readable", None), Call("rest", None)}
    BY CountTwo
  <2>4. \A c \in Range(b) : c.do \notin {"elected", "active", "finish"} /\ c \notin {Call("round", None)}
    BY <2>3 DEF Call
  <2> QED BY <2>2, <2>3, <2>4, NoTokens, CountType
<1> HIDE DEF a, b
<1>8. /\ n \in Seq(Calls) /\ Range(n) = Range(a) \cup Range(b)
      /\ \A W : Count(n, W) = Count(a, W) + Count(b, W)
  BY <1>6, <1>7, CountCalls
<1> HIDE DEF n
<1>9. /\ Todo = {Head(agenda)} \cup Later /\ Todo' = Range(n) \cup Later
      /\ \A W : Count(agenda', W) = Count(n, W) + Count(agenda, W) - (IF Head(agenda) \in W THEN 1 ELSE 0)
      /\ \A W : Count(agenda', W) \in Nat /\ Count(agenda, W) \in Nat /\ Todo \subseteq Calls
      /\ \A W : Head(agenda) \in W => Count(agenda, W) >= 1
  BY <1>0, <1>1, <1>4, <1>8, AgendaStep
<1>10. \A c \in Range(n) : /\ c.do \in {"finish", "readable", "rest"}
                           /\ c.do = "finish" => c.arg \in Range(px.active)
  BY <1>6, <1>7, <1>8 DEF Call
<1>11. ~Resetting' /\ CallInv'
  BY <1>0, <1>1, <1>9, <1>10 DEF Resetting, Does, CallInv
<1>12. ListInv' /\ ValueInv'
  BY <1>0, <1>1, <1>5, CountShort DEF ListInv, ValueInv
<1>13. ProposeInv'
  <2>1. ProposesFirst(n) /\ ~Proposes(Head(agenda)) /\ \A c \in Range(n) : ~Proposes(c)
    BY <1>1, <1>8, <1>10, NoProposal DEF Proposes
  <2>2. ProposesFirst(agenda') /\ \A c \in Later : ~Proposes(c)
    BY <1>0, <1>1, <1>4, <1>8, <2>1, ProposesNext DEF Continue, Later, ProposeInv
  <2> QED BY <1>9, <2>1, <2>2 DEF ProposeInv
<1>14. Count(agenda', {Call("round", None)}) = 0
  <2>1. Count(n, {Call("round", None)}) = 0
    <3>1. Count(n, {Call("round", None)}) = 0 + 0
      BY <1>6, <1>7, <1>8
    <3> QED BY <3>1
  <2>2. Head(agenda) \in {Call("round", None)} /\ Count(agenda, {Call("round", None)}) <= 1
    BY <1>0, <1>2 DEF RoundInv
  <2>3. Count(agenda', {Call("round", None)}) =
          Count(n, {Call("round", None)}) + Count(agenda, {Call("round", None)}) - 1
    BY <1>9, <2>2
  <2>4. Count(agenda', {Call("round", None)}) \in Nat /\ Count(agenda, {Call("round", None)}) \in Nat
    BY <1>9
  <2> QED BY <2>1, <2>2, <2>3, <2>4
<1>15. ~Does({"round"})'
  <2>1. \A c \in Todo' : c # Call("round", None) /\ c \in Calls
    <3>1. agenda' \in Seq(Calls) /\ Todo' = Range(agenda')
      BY DEF TypeInv, Todo
    <3>2. \A c \in Range(agenda') : c \notin {Call("round", None)}
      BY <1>14, <3>1, CountType
    <3>3. \A c \in Range(agenda') : c \in Calls
      BY <3>1 DEF Range
    <3> QED BY <3>1, <3>2, <3>3
  <2> QED BY <2>1, RoundCall DEF Does
<1>16. RoundInv'
  BY <1>1, <1>3, <1>5, <1>14, <1>15 DEF RoundInv, Does
<1>17. QueueInv'
  <2>1. Does({"rest"})'
    <3>1. Call("rest", None) \in Todo'
      BY <1>7, <1>8, <1>9
    <3> QED BY <3>1 DEF Does, Call
  <2>2. px.pending # <<>> => px.txn # None
    BY <1>0 DEF QueueInv
  <2> QED BY <1>5, <2>1, <2>2 DEF QueueInv
<1>18. TokenInv'
  <2>1. ASSUME NEW t \in Services PROVE Wakes(t)' = Wakes(t) /\ Tells(t)' = Tells(t)
    <3>1. /\ Head(agenda) \notin WakeCalls(t) /\ Head(agenda) \notin ToldCalls(t)
      BY <1>1, TokenCalls
    <3>2. Count(px.active, {Context("committed", t)}) = 0
      <4>1. \A c \in Range(px.active) : c \notin {Context("committed", t)}
        BY <1>0 DEF ListInv, Context
      <4> QED BY <1>0, <4>1, CountType DEF PaxosType
    <3>3. /\ Count(n, WakeCalls(t)) = Count(px.active, {Context("active", t)}) + 0
          /\ Count(n, ToldCalls(t)) = 0 + 0
      BY <1>6, <1>7, <1>8, <3>2
    <3>4. /\ Count(agenda', WakeCalls(t)) = Count(n, WakeCalls(t)) + Count(agenda, WakeCalls(t)) - 0
          /\ Count(agenda', ToldCalls(t)) = Count(n, ToldCalls(t)) + Count(agenda, ToldCalls(t)) - 0
      BY <1>9, <3>1
    <3>5. /\ Wakes(t)' = Count(agenda', WakeCalls(t)) + Count(px'.active, {Context("active", t)})
          /\ Tells(t)' = Count(agenda', ToldCalls(t)) + Count(px'.committing, {Context("committed", t)})
                         + Count(px'.pending, {Context("committed", t)})
      BY DEF Wakes, Tells, WakeCalls, ToldCalls
    <3>6. /\ Wakes(t) = Count(agenda, WakeCalls(t)) + Count(px.active, {Context("active", t)})
          /\ Tells(t) = Count(agenda, ToldCalls(t)) + Count(px.committing, {Context("committed", t)})
                        + Count(px.pending, {Context("committed", t)})
      BY DEF Wakes, Tells
    <3>7. /\ Count(px'.active, {Context("active", t)}) = 0
          /\ Count(px'.committing, {Context("committed", t)}) = Count(px.committing, {Context("committed", t)})
          /\ Count(px'.pending, {Context("committed", t)}) = Count(px.pending, {Context("committed", t)})
      BY <1>3, <1>5, CountShort
    <3>8. /\ Count(px.active, {Context("active", t)}) \in Nat
          /\ Count(agenda, WakeCalls(t)) \in Nat /\ Count(agenda, ToldCalls(t)) \in Nat
          /\ Count(px.committing, {Context("committed", t)}) \in Nat
          /\ Count(px.pending, {Context("committed", t)}) \in Nat
      BY MemberFacts
    <3> QED BY <3>3, <3>4, <3>5, <3>6, <3>7, <3>8
  <2> QED BY <1>0, <1>1, <1>3, <1>5, <2>1 DEF TokenInv, Works
<1> QED BY <1>11, <1>12, <1>13, <1>16, <1>17, <1>18 DEF Life, Member

LEMMA MemberRoundRest ==
  ASSUME Life, ~Resetting, TypeInv', RoundRest
  PROVE  Life' /\ ~Resetting'
<1>0. /\ TypeInv /\ ListInv /\ ValueInv /\ CallInv /\ ProposeInv /\ RoundInv /\ QueueInv /\ TokenInv
      /\ svc \in [Services -> ServiceType] /\ px \in PaxosType /\ agenda \in Seq(Calls)
      /\ role \in {"leader", "peon"} /\ \A c \in Todo : c.do # "role"
  BY MemberFacts
<1>1. agenda # <<>> /\ Head(agenda).do = "rest" /\ role' = role /\ svc' = svc /\ Continue(<<>>)
  BY DEF RoundRest
<1>2. role = "leader" /\ px.state \in {"active", "updating"}
  <2>1. Head(agenda) \in Todo
    BY <1>0, <1>1, CallsDone
  <2> QED BY <1>0, <1>1, <2>1 DEF RoundInv, Does
<1>3. \/ px' = px /\ ~(px.state = "active" /\ px.txn # None)
      \/ px' = Proposed(px) /\ px.state = "active" /\ px.txn # None
  BY DEF RoundRest
<1>4. px' = Proposed(px) => /\ px'.state = "updating" /\ px'.value = px.txn /\ px'.txn = None
                            /\ px'.committing = px.pending /\ px'.pending = px.committing
                            /\ px'.active = px.active /\ px'.readable = px.readable
  BY <1>0 DEF Proposed, PaxosType
<1>5. \/ /\ px'.state = px.state /\ px'.value = px.value /\ px'.txn = px.txn /\ px'.committing = px.committing
         /\ px'.pending = px.pending /\ px'.active = px.active /\ px'.readable = px.readable
         /\ ~(px.state = "active" /\ px.txn # None)
      \/ /\ px'.state = "updating" /\ px'.value = px.txn /\ px'.txn = None
         /\ px'.committing = px.pending /\ px'.pending = px.committing /\ px.state = "active"
         /\ px'.active = px.active /\ px'.readable = px.readable
  BY <1>3, <1>4
<1>6. /\ Todo = {Head(agenda)} \cup Later /\ Todo' = Later
      /\ \A W : Head(agenda) \notin W => Count(agenda', W) = Count(agenda, W)
  BY <1>0, <1>1, AgendaPop
<1>7. ~Resetting' /\ CallInv'
  BY <1>0, <1>1, <1>6 DEF Resetting, Does, CallInv
<1>8. ListInv' /\ ValueInv'
  BY <1>0, <1>1, <1>5 DEF ListInv, ValueInv
<1>9. ProposeInv'
  <2>1. ~Proposes(Head(agenda)) /\ ProposesFirst(<<>>) /\ <<>> \in Seq(Calls)
    BY <1>1 DEF Proposes, ProposesFirst
  <2>2. ProposesFirst(agenda') /\ \A c \in Later : ~Proposes(c)
    BY <1>0, <1>1, <2>1, ProposesNext DEF Continue, Later, ProposeInv
  <2> QED BY <1>6, <2>2 DEF ProposeInv
<1>10. ~Does({"round"})' /\ (Does({"rest"})' => Does({"rest"}))
  BY <1>0, <1>2, <1>6 DEF RoundInv, Does
<1>11. RoundInv'
  <2>1. Count(agenda', {Call("round", None)}) = Count(agenda, {Call("round", None)})
    <3>1. Head(agenda) \notin {Call("round", None)}
      BY <1>1 DEF Call
    <3> QED BY <1>6, <3>1
  <2> QED BY <1>0, <1>1, <1>2, <1>5, <1>10, <2>1 DEF RoundInv, Proposing
<1>12. QueueInv'
  <2>1. px.state = "active" => px.committing = <<>>
    BY <1>0 DEF QueueInv
  <2>2. px.pending # <<>> => px.txn # None
    BY <1>0 DEF QueueInv
  <2> QED BY <1>2, <1>5, <2>1, <2>2 DEF QueueInv
<1>13. TokenInv'
  <2>1. ASSUME NEW t \in Services PROVE Wakes(t)' = Wakes(t) /\ Tells(t)' = Tells(t)
    <3>1. /\ Head(agenda) \notin WakeCalls(t) /\ Head(agenda) \notin ToldCalls(t)
      BY <1>1, TokenCalls
    <3>2. /\ Count(agenda', WakeCalls(t)) = Count(agenda, WakeCalls(t))
          /\ Count(agenda', ToldCalls(t)) = Count(agenda, ToldCalls(t))
      BY <1>6, <3>1
    <3>3. Wakes(t)' = Wakes(t)
      BY <1>5, <3>2 DEF Wakes, WakeCalls
    <3>5. /\ Tells(t)' = Count(agenda', ToldCalls(t)) + Count(px'.committing, {Context("committed", t)})
                         + Count(px'.pending, {Context("committed", t)})
      BY DEF Tells, ToldCalls
    <3>6. /\ Tells(t) = Count(agenda, ToldCalls(t)) + Count(px.committing, {Context("committed", t)})
                        + Count(px.pending, {Context("committed", t)})
      BY DEF Tells
    <3>7. /\ Count(agenda, ToldCalls(t)) \in Nat
          /\ Count(px.committing, {Context("committed", t)}) \in Nat
          /\ Count(px.pending, {Context("committed", t)}) \in Nat
      BY MemberFacts
    <3>8. \/ /\ Count(px'.committing, {Context("committed", t)}) = Count(px.committing, {Context("committed", t)})
             /\ Count(px'.pending, {Context("committed", t)}) = Count(px.pending, {Context("committed", t)})
          \/ /\ Count(px'.committing, {Context("committed", t)}) = Count(px.pending, {Context("committed", t)})
             /\ Count(px'.pending, {Context("committed", t)}) = Count(px.committing, {Context("committed", t)})
      BY <1>5
    <3> QED BY <3>2, <3>3, <3>5, <3>6, <3>7, <3>8
  <2> QED BY <1>0, <1>1, <1>2, <1>5, <2>1 DEF TokenInv, Works
<1> QED BY <1>7, <1>8, <1>9, <1>11, <1>12, <1>13 DEF Life, Member

\* Whatever runs in a quorum
LEMMA MemberRun ==
  ASSUME Life, ~Resetting, TypeInv', Run
  PROVE  Life' /\ ~Resetting'
<1>1. ~Restart /\ ~Discard /\ ~ChangeRole
  <2>1. agenda # <<>> => Head(agenda) \in Todo
    BY MemberFacts, CallsDone
  <2> QED BY <2>1, MemberFacts DEF CallInv, Restart, Discard, ChangeRole
<1> QED BY <1>1, MemberDispatch, MemberProposePending, MemberActive, MemberFinishContext, MemberFinishRound,
           MemberKickReadable, MemberRoundRest, MemberElectionFinished, MemberFinishElection DEF Run

-----------------------------------------------------------------------------
(* What takes the lock *)

LEMMA LifeSame ==
  ASSUME Life, TypeInv', UNCHANGED <<role, px, svc, agenda>>
  PROVE  Life' /\ (Resetting' <=> Resetting)
<1>1. /\ ListInv' = ListInv /\ ValueInv' = ValueInv /\ Resetting' = Resetting /\ Leaving' = Leaving
      /\ CallInv' = CallInv
  BY DEF ListInv, ValueInv, Resetting, Leaving, CallInv, Does, Todo
<1>2. /\ ProposeInv' = ProposeInv /\ RoundInv' = RoundInv /\ QueueInv' = QueueInv
  BY DEF ProposeInv, MayPropose, IsActive, RoundInv, QueueInv, Does, Todo, Txn
<1>3. TokenInv' = TokenInv
  <2>1. \A s \in Services : Wakes(s)' = Wakes(s) /\ Tells(s)' = Tells(s)
    BY DEF Wakes, Tells, WakeCalls, ToldCalls
  <2> QED BY <2>1 DEF TokenInv
<1> QED BY <1>1, <1>2, <1>3 DEF Life, Member

LEMMA FreshTokens ==
  ASSUME TypeInv, LockFree, NEW n \in Seq(Calls), agenda' = n, NEW t \in Services
  PROVE  /\ Wakes(t)' = Count(n, WakeCalls(t)) + Count(px'.active, {Context("active", t)})
         /\ Tells(t)' = Count(n, ToldCalls(t)) + Count(px'.committing, {Context("committed", t)})
                        + Count(px'.pending, {Context("committed", t)})
         /\ Wakes(t) = Count(px.active, {Context("active", t)})
         /\ Tells(t) = Count(px.committing, {Context("committed", t)}) + Count(px.pending, {Context("committed", t)})
         /\ Count(px.active, {Context("active", t)}) \in Nat
         /\ Count(px.committing, {Context("committed", t)}) \in Nat
         /\ Count(px.pending, {Context("committed", t)}) \in Nat
<1>1. /\ Wakes(t)' = Count(n, WakeCalls(t)) + Count(px'.active, {Context("active", t)})
      /\ Tells(t)' = Count(n, ToldCalls(t)) + Count(px'.committing, {Context("committed", t)})
                     + Count(px'.pending, {Context("committed", t)})
      /\ Wakes(t) = Count(agenda, WakeCalls(t)) + Count(px.active, {Context("active", t)})
      /\ Tells(t) = Count(agenda, ToldCalls(t)) + Count(px.committing, {Context("committed", t)})
                    + Count(px.pending, {Context("committed", t)})
  BY DEF Wakes, Tells, WakeCalls, ToldCalls
<1>2. Count(agenda, WakeCalls(t)) = 0 /\ Count(agenda, ToldCalls(t)) = 0
  BY AgendaFresh
<1>3. /\ Count(px.active, {Context("active", t)}) \in Nat
      /\ Count(px.committing, {Context("committed", t)}) \in Nat
      /\ Count(px.pending, {Context("committed", t)}) \in Nat
  BY CountContexts DEF TypeInv, PaxosType
<1> QED BY <1>1, <1>2, <1>3

\* The facts that a monitor in a quorum has to establish when the lock is taken
LEMMA FreshMember ==
  ASSUME TypeInv, LockFree, NEW n \in Seq(Calls), agenda' = n, TypeInv', ListInv', ValueInv',
         role' \in {"leader", "peon"},
         \A c \in Range(n) : /\ c.do \notin {"restart", "discard", "role"}
                             /\ c.do = "again" => c.arg.kind \in {"retry", "ack"},
         ProposesFirst(n), \A c \in Range(n) : Proposes(c) => MayPropose(c.arg)',
         RoundInv', QueueInv', TokenInv'
  PROVE  Life' /\ ~Resetting'
<1>1. Todo' = Range(n)
  BY AgendaFresh
<1>2. ~Resetting' /\ CallInv' /\ ProposeInv'
  BY <1>1 DEF Resetting, Does, CallInv, ProposeInv
<1> QED BY <1>2 DEF Life, Member

\* The lock is free, and the monitor is in a quorum.
LEMMA FreeMember ==
  ASSUME Life, LockFree, role \in {"leader", "peon"} \/ px.state # "recovering"
  PROVE  /\ ~Resetting /\ role \in {"leader", "peon"} /\ Todo = {} /\ \A D : ~Does(D)
         /\ TypeInv /\ ListInv /\ ValueInv /\ RoundInv /\ QueueInv /\ TokenInv
         /\ svc \in [Services -> ServiceType] /\ px \in PaxosType
         /\ px.state \in {"recovering", "active", "updating_previous", "writing_previous"} =>
              px.pending = <<>> /\ (px.state # "active" => px.txn = None \/ px.txn = {})
         /\ px.committing # <<>> => px.state \in {"updating", "writing"}
         /\ px.state # "refresh"
<1>1. TypeInv /\ Todo = {} /\ \A D : ~Does(D)
  BY CountShort DEF Life, LockFree, Todo, Does
<1>2. ~Resetting
  BY <1>1 DEF Resetting, Life, Leaving
<1>3. /\ TypeInv /\ ListInv /\ ValueInv /\ RoundInv /\ QueueInv /\ TokenInv
      /\ svc \in [Services -> ServiceType] /\ px \in PaxosType /\ role \in {"leader", "peon"}
  BY <1>2, MemberFacts
<1>4. /\ px.state # "refresh"
      /\ px.state \in {"recovering", "active", "updating_previous", "writing_previous"} => px.pending = <<>>
      /\ px.committing # <<>> => px.state \in {"updating", "writing"}
  BY <1>1, <1>3 DEF RoundInv, QueueInv, LockFree
<1>5. px.state \in {"recovering", "updating_previous", "writing_previous"} => px.txn = None \/ px.txn = {}
  BY <1>3 DEF QueueInv, Txn
<1> QED BY <1>1, <1>2, <1>3, <1>4, <1>5

LEMMA LifeElect ==
  ASSUME Life, TypeInv', Timeout \/ StartElection \/ EndProbing \/ Flushed
  PROVE  Life' /\ (Resetting' \/ UNCHANGED <<role, px, svc, agenda>>)
<1>0. <<>> \in Seq(Calls) /\ Range(<<>>) = {}
  BY CountShort
<1>1. CASE Timeout
  <2>1. Reset(<<>>) /\ role' = "probing" /\ UNCHANGED svc
    BY <1>1 DEF Timeout, Bootstrap
  <2> QED BY <1>0, <2>1, LifeReset
<1> DEFINE c == Call("role", "electing")
           then == <<c>>
<1>2. then \in Seq(Calls) /\ Range(then) = {c} /\ c.do = "role"
  <2>1. c \in Calls /\ c.do = "role"
    BY CallTypes DEF Call
  <2> HIDE DEF c
  <2> QED BY <2>1, CountShort
<1>3. CASE Reset(then) /\ UNCHANGED svc
  <2> HIDE DEF then
  <2> QED BY <1>2, <1>3, LifeReset
<1>4. CASE Elect
  <2>1. CASE px.state \in {"writing", "writing_previous"}
    BY <1>4, <2>1, LifeSame DEF Elect
  <2>2. CASE px.state \notin {"writing", "writing_previous"}
    BY <1>3, <1>4, <2>2 DEF Elect
  <2> QED BY <2>1, <2>2
<1>5. CASE Flushed
  <2>1. flushing = "electing"
    BY <1>5 DEF Flushed, Life, TypeInv
  <2> QED BY <1>3, <1>5, <2>1 DEF Flushed
<1> QED BY <1>1, <1>4, <1>5 DEF StartElection, EndProbing

LEMMA LifeRequest ==
  ASSUME Life, TypeInv', NEW op \in Ops, Request(op)
  PROVE  Life' /\ (Resetting' <=> Resetting)
<1> DEFINE d == Call("dispatch", op)
<1>1. d \in Calls /\ d.do = "dispatch"
  BY CallTypes DEF Call
<1>2. LockFree /\ agenda' = <<d>> /\ UNCHANGED <<role, px, svc>>
  BY DEF Request, DispatchFree
<1> HIDE DEF d
<1>3. <<d>> \in Seq(Calls) /\ Range(<<d>>) = {d}
  BY <1>1, CountShort
<1>4. TypeInv /\ ListInv /\ ValueInv
  BY DEF Life
<1>5. Todo = {} /\ Todo' = {d}
  BY <1>2, <1>3, <1>4, AgendaFresh
<1>6. CASE Resetting
  <2>1. Resetting' /\ Leaving
    BY <1>2, <1>5, <1>6 DEF Resetting, Does, Life
  <2>2. Leaving'
    BY <1>1, <1>2, <1>5, <2>1 DEF Leaving
  <2>3. ListInv' /\ ValueInv'
    BY <1>2, <1>4 DEF ListInv, ValueInv
  <2> QED BY <1>6, <2>1, <2>2, <2>3 DEF Life
<1>7. CASE ~Resetting
  <2>1. ListInv' /\ \A s \in Services : SameCore(s)
    BY <1>2, <1>4 DEF ListInv, SameCore
  <2>2. Quiet(d) /\ d.do \notin {"finish", "readable"}
    BY <1>1 DEF Quiet
  <2> QED BY <1>2, <1>3, <1>7, <2>1, <2>2, QuietMember
<1> QED BY <1>6, <1>7

LEMMA LifeLearnCommit ==
  ASSUME Life, TypeInv', LearnCommit
  PROVE  Life' /\ ~Resetting'
<1> DEFINE n == ForEach("refreshed")
<1>1. n \in Seq(Calls) /\ \A c \in Range(n) : c.do = "refreshed"
  <2>1. n \in Seq(Calls) /\ Range(n) = {Call("refreshed", s) : s \in Services}
    BY CountForEach DEF ServiceCalls
  <2> QED BY <2>1 DEF Call
<1>2. LockFree /\ agenda' = n /\ UNCHANGED <<role, px, svc>> /\ role = "peon"
  BY DEF LearnCommit, DispatchFree
<1> HIDE DEF n
<1>3. ~Resetting /\ ListInv
  BY <1>2, FreeMember
<1>4. ListInv' /\ \A s \in Services : SameCore(s)
  BY <1>2, <1>3 DEF ListInv, SameCore
<1>5. \A c \in Range(n) : Quiet(c) /\ c.do \notin {"finish", "readable"}
  BY <1>1 DEF Quiet
<1> QED BY <1>1, <1>2, <1>3, <1>4, <1>5, QuietMember

LEMMA LifeProposalTimer ==
  ASSUME Life, TypeInv', NEW s \in Services, ProposalTimer(s)
  PROVE  Life' /\ ~Resetting'
<1>1. LockFree /\ svc[s].timer /\ svc' = [svc EXCEPT ![s].timer = FALSE]
      /\ agenda' = <<Call("propose", s)>> /\ role' = role /\ px' = px
  BY DEF ProposalTimer
<1>2. ~Resetting
  <2>1. Todo = {}
    BY <1>1, CountShort DEF LockFree, Todo
  <2> QED BY <1>1, <2>1 DEF Life, Leaving
<1>3. role \in {"leader", "peon"}
  BY <1>2, MemberFacts
<1>4. /\ Todo = {} /\ (\A D : ~Does(D)) /\ px.state # "refresh" /\ TypeInv /\ ListInv /\ ValueInv
      /\ RoundInv /\ QueueInv /\ TokenInv /\ svc \in [Services -> ServiceType] /\ px \in PaxosType
      /\ px.state \in {"recovering", "active", "updating_previous", "writing_previous"} => px.pending = <<>>
  BY <1>1, <1>3, FreeMember
<1>5. svc[s].have_pending /\ ~svc[s].proposing /\ role = "leader" /\ px.state \in Works
  BY <1>1, <1>4 DEF TokenInv, ValueInv
<1>6. /\ \A t \in Services : /\ svc'[t].have_pending = svc[t].have_pending /\ svc'[t].value = svc[t].value
                             /\ svc'[t].proposing = svc[t].proposing /\ svc'[t].waiting = svc[t].waiting
                             /\ svc'[t].timer => svc[t].timer
  BY <1>1, <1>4 DEF ServiceType
<1> DEFINE d == Call("propose", s)
           n == <<d>>
<1>7. d \in Calls /\ d.do = "propose" /\ d.arg = s
  BY CallTypes DEF Call, ServiceCalls
<1> HIDE DEF d
<1>8. n \in Seq(Calls) /\ Range(n) = {d} /\ agenda' = n
  BY <1>1, <1>7, CountShort DEF d
<1>9. Todo' = {d}
  BY <1>1, <1>4, <1>8, AgendaFresh
<1>10. ListInv' /\ ValueInv'
  BY <1>1, <1>4, <1>6 DEF ListInv, ValueInv
<1>11. ProposesFirst(n)
  BY <1>7 DEF ProposesFirst, Proposes
<1>12. MayPropose(d.arg)'
  BY <1>1, <1>5, <1>6, <1>7 DEF MayPropose, IsActive, Works
<1>13. Count(n, {Call("round", None)}) = 0 /\ \A t : Count(n, WakeCalls(t)) = 0 /\ Count(n, ToldCalls(t)) = 0
  <2>1. d \notin {Call("round", None)} /\ \A t : d \notin WakeCalls(t) /\ d \notin ToldCalls(t)
    BY <1>7, TokenCalls DEF Call
  <2> QED BY <2>1, CountShort
<1> HIDE DEF n
<1>14. RoundInv'
  <2>1. Count(agenda', {Call("round", None)}) <= 1
    BY <1>8, <1>13
  <2> QED BY <1>1, <1>4, <1>5, <1>7, <1>9, <2>1 DEF RoundInv, Works, Does
<1>15. QueueInv'
  BY <1>1, <1>4, <1>5 DEF QueueInv, Works
<1>16. TokenInv'
  <2>1. ASSUME NEW t \in Services PROVE Wakes(t)' = Wakes(t) /\ Tells(t)' = Tells(t)
    <3>1. Count(n, WakeCalls(t)) = 0 /\ Count(n, ToldCalls(t)) = 0
      BY <1>13
    <3>2. /\ Wakes(t)' = Count(n, WakeCalls(t)) + Count(px'.active, {Context("active", t)})
          /\ Tells(t)' = Count(n, ToldCalls(t)) + Count(px'.committing, {Context("committed", t)})
                         + Count(px'.pending, {Context("committed", t)})
          /\ Wakes(t) = Count(px.active, {Context("active", t)})
          /\ Tells(t) = Count(px.committing, {Context("committed", t)}) + Count(px.pending, {Context("committed", t)})
          /\ Count(px.active, {Context("active", t)}) \in Nat
          /\ Count(px.committing, {Context("committed", t)}) \in Nat
          /\ Count(px.pending, {Context("committed", t)}) \in Nat
      BY <1>1, <1>4, <1>8, FreshTokens
    <3>3. px' = px
      BY <1>1
    <3> QED BY <3>1, <3>2, <3>3
  <2> QED BY <1>1, <1>4, <1>6, <2>1 DEF TokenInv
<1> QED BY <1>1, <1>3, <1>4, <1>7, <1>8, <1>10, <1>11, <1>12, <1>14, <1>15, <1>16, FreshMember

LEMMA LifeMaybeTrim ==
  ASSUME Life, TypeInv', NEW s \in Services, MaybeTrim(s)
  PROVE  Life' /\ ~Resetting'
<1> DEFINE x == Txn(px) \cup {Trimmed(s)}
           p == [px EXCEPT !.txn = x]
<1>1. LockFree /\ IsWriteable(s) /\ px' = Triggered(p) /\ UNCHANGED <<role, svc, agenda>>
  BY DEF MaybeTrim
<1>2. px.state \in Works /\ svc[s].have_pending
  BY <1>1 DEF IsWriteable, IsActive, Works
<1>3. /\ Todo = {} /\ (\A D : ~Does(D)) /\ TypeInv /\ ListInv /\ ValueInv /\ role \in {"leader", "peon"}
      /\ RoundInv /\ QueueInv /\ TokenInv /\ svc \in [Services -> ServiceType] /\ px \in PaxosType
      /\ px.state = "active" => px.pending = <<>>
      /\ px.committing # <<>> => px.state \in {"updating", "writing"}
  BY <1>1, <1>2, FreeMember DEF Works
<1>4. role = "leader"
  BY <1>2, <1>3 DEF TokenInv
<1>5. x # None /\ x \in Transactions
  <2>1. {Trimmed(s)} \in Transactions
    BY ChangeTypes DEF Transactions
  <2> QED BY <1>3, <2>1, TxnType
<1>6. /\ p.state = px.state /\ p.value = px.value /\ p.txn = x /\ p.pending = px.pending
      /\ p.committing = px.committing /\ p.active = px.active /\ p.readable = px.readable
      /\ p \in PaxosType
  BY <1>3, <1>5 DEF PaxosType
<1> HIDE DEF p, x
<1>7. \/ /\ px.state = "active" /\ px'.state = "updating" /\ px'.value = x /\ px'.txn = None
         /\ px'.pending = px.committing /\ px'.committing = px.pending
         /\ px'.active = px.active /\ px'.readable = px.readable
      \/ /\ px.state # "active" /\ px'.state = px.state /\ px'.value = px.value /\ px'.txn = x
         /\ px'.pending = px.pending /\ px'.committing = px.committing
         /\ px'.active = px.active /\ px'.readable = px.readable
  BY <1>1, <1>6 DEF Triggered, Proposed, PaxosType
<1>8. <<>> \in Seq(Calls) /\ Range(<<>>) = {} /\ agenda' = <<>> /\ ProposesFirst(<<>>)
  BY <1>1, CountShort DEF LockFree, ProposesFirst
<1>9. ListInv' /\ ValueInv'
  BY <1>1, <1>3, <1>7 DEF ListInv, ValueInv
<1>10. RoundInv'
  <2>1. (\A D : ~Does(D)') /\ Count(agenda', {Call("round", None)}) <= 1
    BY <1>8, CountShort DEF Does, Todo
  <2> QED BY <1>1, <1>2, <1>3, <1>4, <1>7, <2>1 DEF RoundInv, Works, Proposing
<1>11. QueueInv'
  BY <1>2, <1>3, <1>5, <1>7 DEF QueueInv, Works
<1>12. TokenInv'
  <2>1. ASSUME NEW t \in Services PROVE Wakes(t)' = Wakes(t) /\ Tells(t)' = Tells(t)
    <3>1. Count(<<>>, WakeCalls(t)) = 0 /\ Count(<<>>, ToldCalls(t)) = 0
      BY CountShort
    <3>2. /\ Wakes(t)' = Count(<<>>, WakeCalls(t)) + Count(px'.active, {Context("active", t)})
          /\ Tells(t)' = Count(<<>>, ToldCalls(t)) + Count(px'.committing, {Context("committed", t)})
                         + Count(px'.pending, {Context("committed", t)})
          /\ Wakes(t) = Count(px.active, {Context("active", t)})
          /\ Tells(t) = Count(px.committing, {Context("committed", t)}) + Count(px.pending, {Context("committed", t)})
          /\ Count(px.active, {Context("active", t)}) \in Nat
          /\ Count(px.committing, {Context("committed", t)}) \in Nat
          /\ Count(px.pending, {Context("committed", t)}) \in Nat
      BY <1>1, <1>3, <1>8, FreshTokens
    <3> QED BY <1>7, <3>1, <3>2
  <2>2. px'.state \in Works
    BY <1>2, <1>7 DEF Works
  <2> QED BY <1>1, <1>3, <1>4, <2>1, <2>2 DEF TokenInv
<1> QED BY <1>1, <1>3, <1>8, <1>9, <1>10, <1>11, <1>12, FreshMember

LEMMA LifeElected ==
  ASSUME Life, TypeInv', WinElection \/ LoseElection
  PROVE  Life' /\ ~Resetting'
<1> DEFINE a == ForEach("elected")
           d == Call("finished", None)
           n == a \o <<d>>
<1>1. /\ LockFree /\ role = "electing" /\ role' \in {"leader", "peon"} /\ agenda' = n /\ UNCHANGED <<px, svc>>
  BY DEF WinElection, LoseElection, DispatchFree
<1>2. Todo = {} /\ Resetting /\ TypeInv /\ ListInv /\ ValueInv /\ Leaving
  BY <1>1, CountShort DEF LockFree, Todo, Resetting, Life
<1>3. /\ a \in Seq(Calls) /\ Range(a) = {Call("elected", s) : s \in Services}
      /\ \A W : \A s \in Services : W \cap Range(a) = {Call("elected", s)} => Count(a, W) = 1
  BY CountForEach DEF ServiceCalls
<1>4. d \in Calls /\ d.do = "finished"
  BY CallTypes DEF Call, PlainCalls
<1> HIDE DEF a, d
<1>5. <<d>> \in Seq(Calls) /\ Range(<<d>>) = {d} /\ \A W : Count(<<d>>, W) = IF d \in W THEN 1 ELSE 0
  BY <1>4, CountShort
<1>6. /\ n \in Seq(Calls) /\ Range(n) = Range(a) \cup {d}
      /\ \A W : Count(n, W) = Count(a, W) + Count(<<d>>, W)
  BY <1>3, <1>5, CountCalls
<1> HIDE DEF n
<1>7. \A c \in Range(n) : c.do \in {"elected", "finished"}
  BY <1>3, <1>4, <1>6 DEF Call
<1>8. ListInv' /\ ValueInv'
  BY <1>1, <1>2 DEF ListInv, ValueInv
<1>9. ProposesFirst(n) /\ \A c \in Range(n) : ~Proposes(c)
  BY <1>6, <1>7, NoProposal DEF Proposes
<1>10. /\ px'.state = "recovering" /\ px'.value = None /\ px'.txn = None
       /\ px'.pending = <<>> /\ px'.committing = <<>> /\ px'.active = <<>>
  BY <1>1, <1>2 DEF Leaving
<1>11. \A s \in Services : ~svc'[s].have_pending /\ ~svc'[s].proposing /\ ~svc'[s].timer
  BY <1>1, <1>2 DEF Leaving
<1>12. RoundInv'
  <2>1. Todo' = Range(n)
    BY <1>1, <1>2, <1>6, AgendaFresh
  <2>2. Count(n, {Call("round", None)}) = 0
    <3>1. \A c \in Range(n) : c \notin {Call("round", None)}
      BY <1>7 DEF Call
    <3> QED BY <1>6, <3>1, CountType
  <2> QED BY <1>1, <1>7, <1>10, <2>1, <2>2 DEF RoundInv, Does
<1>13. QueueInv'
  BY <1>10 DEF QueueInv, Txn
<1>14. TokenInv'
  <2>1. ASSUME NEW t \in Services PROVE Wakes(t)' = 1 /\ Tells(t)' = 0
    <3>1. Count(a, WakeCalls(t)) = 1
      <4>1. WakeCalls(t) \cap Range(a) = {Call("elected", t)}
        BY <1>3, TokenCalls
      <4> QED BY <1>3, <4>1
    <3>2. Count(n, ToldCalls(t)) = 0
      <4>1. \A c \in Range(n) : c \notin ToldCalls(t)
        BY <1>7 DEF ToldCalls, Call
      <4> QED BY <1>6, <4>1, CountType
    <3>3. Count(<<d>>, WakeCalls(t)) = 0
      <4>1. d \notin WakeCalls(t)
        BY <1>4, TokenCalls
      <4> QED BY <1>5, <4>1
    <3>4. Count(n, WakeCalls(t)) = 1 + 0
      BY <1>6, <3>1, <3>3
    <3>5. /\ Wakes(t)' = Count(n, WakeCalls(t)) + Count(px'.active, {Context("active", t)})
          /\ Tells(t)' = Count(n, ToldCalls(t)) + Count(px'.committing, {Context("committed", t)})
                         + Count(px'.pending, {Context("committed", t)})
      BY <1>1, <1>2, <1>6, FreshTokens
    <3>6. /\ Count(px'.active, {Context("active", t)}) = 0
          /\ Count(px'.committing, {Context("committed", t)}) = 0
          /\ Count(px'.pending, {Context("committed", t)}) = 0
      BY <1>10, CountShort
    <3> QED BY <3>2, <3>4, <3>5, <3>6
  <2> QED BY <1>11, <2>1 DEF TokenInv
<1> QED BY <1>1, <1>2, <1>6, <1>7, <1>8, <1>9, <1>12, <1>13, <1>14, FreshMember

LEMMA LifeCollectDone ==
  ASSUME Life, TypeInv', CollectDone
  PROVE  Life' /\ ~Resetting'
<1>1. LockFree /\ role = "leader" /\ px.state = "recovering" /\ role' = role /\ svc' = svc
  BY DEF CollectDone, DispatchFree
<1>2. /\ Todo = {} /\ TypeInv /\ ListInv /\ ValueInv /\ RoundInv /\ QueueInv /\ TokenInv /\ px \in PaxosType
      /\ px.pending = <<>> /\ px.committing = <<>> /\ ~Resetting
  BY <1>1, FreeMember
<1>3. Txn(px) = {} /\ \A s \in Services : ~svc[s].have_pending /\ ~svc[s].proposing
  BY <1>1, <1>2 DEF QueueInv, TokenInv, Works
<1>4. PICK n \in {<<>>, <<Call("round", None)>>} :
        /\ agenda' = n
        /\ \/ /\ n = <<>> /\ uncommitted # None
              /\ px' = [px EXCEPT !.state = "updating_previous", !.value = uncommitted]
           \/ n = <<Call("round", None)>> /\ px' = px
  BY <1>1 DEF CollectDone, LockFree
<1>5. /\ n \in Seq(Calls) /\ Range(n) \subseteq {Call("round", None)}
      /\ \A t : Count(n, WakeCalls(t)) = 0 /\ Count(n, ToldCalls(t)) = 0
      /\ Count(n, {Call("round", None)}) <= 1 /\ (n = <<>> => Range(n) = {})
  <2> DEFINE d == Call("round", None)
  <2>1. d \in Calls /\ \A t : d \notin WakeCalls(t) /\ d \notin ToldCalls(t)
    BY CallTypes, TokenCalls DEF Call, PlainCalls
  <2>2. n \in {<<>>, <<d>>}
    OBVIOUS
  <2> HIDE DEF d
  <2>3. /\ n \in Seq(Calls) /\ Range(n) \subseteq {d}
        /\ \A t : Count(n, WakeCalls(t)) = 0 /\ Count(n, ToldCalls(t)) = 0
        /\ Count(n, {d}) <= 1 /\ (n = <<>> => Range(n) = {})
    <3>1. CASE n = <<>>
      BY <3>1, CountShort
    <3>2. CASE n = <<d>>
      <4>1. n \in Seq(Calls) /\ Range(n) = {d} /\ n # <<>>
        BY <2>1, <3>2, CountShort
      <4>2. \A W : Count(n, W) = IF d \in W THEN 1 ELSE 0
        BY <3>2, CountShort
      <4> QED BY <2>1, <4>1, <4>2
    <3> QED BY <2>2, <3>1, <3>2
  <2> QED BY <2>3 DEF d
<1>6. /\ px'.txn = px.txn /\ px'.pending = px.pending /\ px'.committing = px.committing
      /\ px'.active = px.active /\ px'.readable = px.readable
      /\ \/ n = <<>> /\ px'.state = "updating_previous"
         \/ px'.state = "recovering" /\ px'.value = px.value
  BY <1>1, <1>2, <1>4 DEF PaxosType
<1> HIDE <1>4
<1>14. agenda' = n
  BY <1>4
<1>7. Todo' = Range(n)
  BY <1>1, <1>2, <1>5, <1>14, AgendaFresh
<1>8. ListInv' /\ ValueInv'
  BY <1>1, <1>2, <1>6 DEF ListInv, ValueInv
<1>9. \A c \in Range(n) : c.do = "round"
  BY <1>5 DEF Call
<1>10. ProposesFirst(n) /\ \A c \in Range(n) : ~Proposes(c)
  BY <1>5, <1>9, NoProposal DEF Proposes
<1>11. RoundInv'
  BY <1>1, <1>2, <1>5, <1>6, <1>7, <1>9, <1>14 DEF RoundInv, Does, Proposing
<1>12. QueueInv'
  BY <1>2, <1>3, <1>6 DEF QueueInv, Txn
<1>13. TokenInv'
  <2>1. ASSUME NEW t \in Services PROVE Wakes(t)' = Wakes(t) /\ Tells(t)' = Tells(t)
    <3>1. Count(n, WakeCalls(t)) = 0 /\ Count(n, ToldCalls(t)) = 0
      BY <1>5
    <3>2. /\ Wakes(t)' = Count(n, WakeCalls(t)) + Count(px'.active, {Context("active", t)})
          /\ Tells(t)' = Count(n, ToldCalls(t)) + Count(px'.committing, {Context("committed", t)})
                         + Count(px'.pending, {Context("committed", t)})
          /\ Wakes(t) = Count(px.active, {Context("active", t)})
          /\ Tells(t) = Count(px.committing, {Context("committed", t)}) + Count(px.pending, {Context("committed", t)})
          /\ Count(px.active, {Context("active", t)}) \in Nat
          /\ Count(px.committing, {Context("committed", t)}) \in Nat
          /\ Count(px.pending, {Context("committed", t)}) \in Nat
      BY <1>1, <1>2, <1>5, <1>14, FreshTokens
    <3> QED BY <1>6, <3>1, <3>2
  <2> QED BY <1>1, <1>2, <1>3, <2>1 DEF TokenInv
<1> QED BY <1>1, <1>2, <1>5, <1>8, <1>9, <1>10, <1>11, <1>12, <1>13, <1>14, FreshMember

LEMMA LifeCommitStart ==
  ASSUME Life, TypeInv', CommitStart
  PROVE  Life' /\ ~Resetting'
<1>1. /\ LockFree /\ role = "leader" /\ px.state \in {"updating", "updating_previous"}
      /\ UNCHANGED <<role, svc, agenda>>
      /\ px' = [px EXCEPT !.state = IF @ = "updating" THEN "writing" ELSE "writing_previous"]
  BY DEF CommitStart, DispatchFree
<1>2. /\ TypeInv /\ ListInv /\ ValueInv /\ RoundInv /\ QueueInv /\ TokenInv /\ px \in PaxosType
      /\ px.state = "updating_previous" => px.pending = <<>>
      /\ px.committing # <<>> => px.state \in {"updating", "writing"}
  BY <1>1, FreeMember
<1>3. /\ px'.value = px.value /\ px'.txn = px.txn /\ px'.pending = px.pending
      /\ px'.committing = px.committing /\ px'.active = px.active /\ px'.readable = px.readable
      /\ \/ px.state = "updating" /\ px'.state = "writing"
         \/ px.state = "updating_previous" /\ px'.state = "writing_previous"
  BY <1>1, <1>2 DEF PaxosType
<1>4. <<>> \in Seq(Calls) /\ Range(<<>>) = {} /\ agenda' = <<>> /\ ProposesFirst(<<>>)
  BY <1>1, CountShort DEF LockFree, ProposesFirst
<1>5. ListInv' /\ ValueInv'
  BY <1>1, <1>2, <1>3 DEF ListInv, ValueInv
<1>6. RoundInv'
  <2>1. (\A D : ~Does(D)') /\ Count(agenda', {Call("round", None)}) <= 1
    BY <1>4, CountShort DEF Does, Todo
  <2> QED BY <1>1, <1>3, <2>1 DEF RoundInv, Proposing
<1>7. QueueInv'
  BY <1>2, <1>3 DEF QueueInv, Txn
<1>8. TokenInv'
  <2>1. \A t \in Services : Wakes(t)' = Wakes(t) /\ Tells(t)' = Tells(t)
    BY <1>1, <1>3 DEF Wakes, Tells, WakeCalls, ToldCalls
  <2> QED BY <1>1, <1>2, <1>3, <2>1 DEF TokenInv, Works
<1> QED BY <1>1, <1>2, <1>4, <1>5, <1>6, <1>7, <1>8, FreshMember

LEMMA LifeCommitFinish ==
  ASSUME Life, TypeInv', CommitFinish
  PROVE  Life' /\ (role' = role => ~Resetting')
<1>1. LockFree /\ px.state \in {"writing", "writing_previous"} /\ svc' = svc
  BY DEF CommitFinish
<1>2. /\ TypeInv /\ ListInv /\ ValueInv /\ RoundInv /\ QueueInv /\ TokenInv /\ px \in PaxosType
      /\ px.state = "writing_previous" => px.pending = <<>>
  BY <1>1, FreeMember
<1>3. CASE Bootstrap
  <2>1. <<>> \in Seq(Calls) /\ Range(<<>>) = {}
    BY CountShort
  <2>2. Life'
    BY <1>1, <1>3, <2>1, LifeReset DEF Bootstrap
  <2>3. role' # role
    BY <1>1, <1>2, <1>3 DEF Bootstrap, RoundInv
  <2> QED BY <2>2, <2>3
<1> DEFINE a == Finish(px.committing, TRUE)
           d == Call("round", None)
           n == a \o <<d>>
<1>4. CASE /\ px' = [px EXCEPT !.state = "refresh", !.value = None, !.committing = <<>>]
           /\ agenda' = n /\ UNCHANGED role
  <2>1. role = "leader"
    BY <1>1, <1>2 DEF RoundInv
  <2>2. /\ px'.state = "refresh" /\ px'.value = None /\ px'.committing = <<>> /\ px'.txn = px.txn
        /\ px'.pending = px.pending /\ px'.active = px.active /\ px'.readable = px.readable
    BY <1>2, <1>4 DEF PaxosType
  <2>3. agenda' = n /\ role' = "leader"
    BY <1>4, <2>1
  <2> HIDE <1>4
  <2>4. /\ a \in Seq(Calls) /\ \A c \in Range(a) : c.do = "finish" /\ c.arg \in Range(px.committing)
        /\ \A s : /\ Count(a, WakeCalls(s)) = Count(px.committing, {Context("active", s)})
                  /\ Count(a, ToldCalls(s)) = Count(px.committing, {Context("committed", s)})
        /\ Count(a, {Call("round", None)}) = 0
    BY <1>2, FinishOk DEF PaxosType
  <2>5. d \in Calls /\ d.do = "round"
    BY CallTypes DEF Call, PlainCalls
  <2>6. Count(a, {d}) = 0
    BY <2>4
  <2> HIDE DEF a, d
  <2>7. <<d>> \in Seq(Calls) /\ Range(<<d>>) = {d} /\ Count(<<d>>, {d}) = 1
        /\ \A t : Count(<<d>>, WakeCalls(t)) = 0 /\ Count(<<d>>, ToldCalls(t)) = 0
    <3>1. \A t : d \notin WakeCalls(t) /\ d \notin ToldCalls(t)
      BY <2>5, TokenCalls
    <3> QED BY <2>5, <3>1, CountShort
  <2>8. /\ n \in Seq(Calls) /\ Range(n) = Range(a) \cup {d}
        /\ \A W : Count(n, W) = Count(a, W) + Count(<<d>>, W)
    BY <2>4, <2>7, CountCalls
  <2> HIDE DEF n
  <2>9. \A c \in Range(n) : c.do \in {"finish", "round"}
    BY <2>4, <2>5, <2>8
  <2>10. Todo' = Range(n)
    BY <1>1, <1>2, <2>3, <2>8, AgendaFresh
  <2>11. ListInv' /\ ValueInv'
    BY <1>1, <1>2, <2>2, CountShort DEF ListInv, ValueInv
  <2>12. ProposesFirst(n) /\ \A c \in Range(n) : ~Proposes(c)
    BY <2>8, <2>9, NoProposal DEF Proposes
  <2>13. RoundInv'
    <3>1. Count(agenda', {Call("round", None)}) <= 1
      <4>1. Count(n, {d}) = 0 + 1
        BY <2>6, <2>7, <2>8
      <4> QED BY <2>3, <4>1 DEF d
    <3>2. Does({"round"})' /\ ~Does({"rest"})'
      BY <2>5, <2>8, <2>9, <2>10 DEF Does
    <3> QED BY <2>2, <2>3, <3>1, <3>2 DEF RoundInv
  <2>14. QueueInv'
    BY <1>2, <2>2 DEF QueueInv
  <2>15. TokenInv'
    <3>1. ASSUME NEW t \in Services PROVE Wakes(t)' = Wakes(t) /\ Tells(t)' = Tells(t)
      <4>1. Count(px.committing, {Context("active", t)}) = 0
        <5>1. \A c \in Range(px.committing) : c \notin {Context("active", t)}
          BY <1>2 DEF ListInv, Context
        <5> QED BY <1>2, <5>1, CountType DEF PaxosType
      <4>2. /\ Count(n, WakeCalls(t)) = 0 + 0
            /\ Count(n, ToldCalls(t)) = Count(px.committing, {Context("committed", t)}) + 0
        BY <2>4, <2>7, <2>8, <4>1
      <4>3. /\ Wakes(t)' = Count(n, WakeCalls(t)) + Count(px'.active, {Context("active", t)})
            /\ Tells(t)' = Count(n, ToldCalls(t)) + Count(px'.committing, {Context("committed", t)})
                           + Count(px'.pending, {Context("committed", t)})
            /\ Wakes(t) = Count(px.active, {Context("active", t)})
            /\ Tells(t) = Count(px.committing, {Context("committed", t)}) + Count(px.pending, {Context("committed", t)})
            /\ Count(px.active, {Context("active", t)}) \in Nat
            /\ Count(px.committing, {Context("committed", t)}) \in Nat
            /\ Count(px.pending, {Context("committed", t)}) \in Nat
        BY <1>1, <1>2, <2>3, <2>8, FreshTokens
      <4>4. Count(px'.committing, {Context("committed", t)}) = 0
        BY <2>2, CountShort
      <4> QED BY <2>2, <4>2, <4>3, <4>4
    <3> QED BY <1>1, <1>2, <2>2, <2>3, <3>1 DEF TokenInv
  <2> QED BY <1>1, <1>2, <2>3, <2>8, <2>9, <2>11, <2>12, <2>13, <2>14, <2>15, FreshMember
<1> QED BY <1>3, <1>4 DEF CommitFinish

LEMMA LifeLease ==
  ASSUME Life, TypeInv', Lease
  PROVE  Life' /\ ~Resetting'
<1> DEFINE a == Finish(px.active, TRUE)
           d == Call("readable", None)
           n == a \o <<d>>
<1>1. /\ LockFree /\ role = "peon" /\ px' = [px EXCEPT !.state = "active", !.active = <<>>]
      /\ agenda' = n /\ UNCHANGED <<role, svc>>
  BY DEF Lease, DispatchFree
<1>2. /\ TypeInv /\ ListInv /\ ValueInv /\ RoundInv /\ QueueInv /\ TokenInv /\ px \in PaxosType
      /\ px.state \in {"recovering", "active"} => px.pending = <<>>
      /\ px.committing # <<>> => px.state \in {"updating", "writing"}
  BY <1>1, FreeMember
<1>3. px.state \in {"recovering", "active"} /\ px.pending = <<>> /\ px.committing = <<>> /\ px.value = None
  BY <1>1, <1>2 DEF RoundInv, Proposing
<1>4. /\ px'.state = "active" /\ px'.value = None /\ px'.committing = <<>> /\ px'.txn = px.txn
      /\ px'.pending = <<>> /\ px'.active = <<>> /\ px'.readable = px.readable
  BY <1>1, <1>2, <1>3 DEF PaxosType
<1>5. \A s \in Services : ~svc[s].have_pending /\ ~svc[s].proposing /\ ~svc[s].timer
  BY <1>1, <1>2 DEF TokenInv
<1>6. /\ a \in Seq(Calls) /\ \A c \in Range(a) : c.do = "finish" /\ c.arg \in Range(px.active)
      /\ \A s : /\ Count(a, WakeCalls(s)) = Count(px.active, {Context("active", s)})
                /\ Count(a, ToldCalls(s)) = Count(px.active, {Context("committed", s)})
  BY <1>2, FinishOk DEF PaxosType
<1>7. d \in Calls /\ d.do = "readable"
  BY CallTypes DEF Call, PlainCalls
<1> HIDE DEF a, d
<1>8. <<d>> \in Seq(Calls) /\ Range(<<d>>) = {d}
      /\ \A t : Count(<<d>>, WakeCalls(t)) = 0 /\ Count(<<d>>, ToldCalls(t)) = 0
  <2>1. \A t : d \notin WakeCalls(t) /\ d \notin ToldCalls(t)
    BY <1>7, TokenCalls
  <2> QED BY <1>7, <2>1, CountShort
<1>9. /\ n \in Seq(Calls) /\ Range(n) = Range(a) \cup {d}
      /\ \A W : Count(n, W) = Count(a, W) + Count(<<d>>, W)
  BY <1>6, <1>8, CountCalls
<1> HIDE DEF n
<1>10. \A c \in Range(n) : c.do \in {"finish", "readable"}
  BY <1>6, <1>7, <1>9
<1>11. Todo' = Range(n)
  BY <1>1, <1>2, <1>9, AgendaFresh
<1>12. ListInv' /\ ValueInv'
  BY <1>1, <1>2, <1>4, CountShort DEF ListInv, ValueInv
<1>13. ProposesFirst(n) /\ \A c \in Range(n) : ~Proposes(c)
  BY <1>9, <1>10, NoProposal DEF Proposes
<1>14. RoundInv'
  <2>1. Count(agenda', {Call("round", None)}) = 0
    <3>1. \A c \in Range(n) : c \notin {Call("round", None)}
      BY <1>10 DEF Call
    <3> QED BY <1>1, <1>9, <3>1, CountType
  <2> QED BY <1>1, <1>4, <1>10, <1>11, <2>1 DEF RoundInv, Does
<1>15. QueueInv'
  BY <1>4 DEF QueueInv
<1>16. TokenInv'
  <2>1. ASSUME NEW t \in Services PROVE Wakes(t)' = Wakes(t) /\ Tells(t)' = Tells(t)
    <3>1. Count(px.active, {Context("committed", t)}) = 0
      <4>1. \A c \in Range(px.active) : c \notin {Context("committed", t)}
        BY <1>2 DEF ListInv, Context
      <4> QED BY <1>2, <4>1, CountType, ZenonT(40) DEF PaxosType
    <3>2. /\ Count(n, WakeCalls(t)) = Count(px.active, {Context("active", t)}) + 0
          /\ Count(n, ToldCalls(t)) = 0 + 0
      BY <1>6, <1>8, <1>9, <3>1
    <3>3. /\ Wakes(t)' = Count(n, WakeCalls(t)) + Count(px'.active, {Context("active", t)})
          /\ Tells(t)' = Count(n, ToldCalls(t)) + Count(px'.committing, {Context("committed", t)})
                         + Count(px'.pending, {Context("committed", t)})
          /\ Wakes(t) = Count(px.active, {Context("active", t)})
          /\ Tells(t) = Count(px.committing, {Context("committed", t)}) + Count(px.pending, {Context("committed", t)})
          /\ Count(px.active, {Context("active", t)}) \in Nat
      BY <1>1, <1>2, <1>9, FreshTokens
    <3>4. /\ Count(px'.active, {Context("active", t)}) = 0
          /\ Count(px'.committing, {Context("committed", t)}) = 0
          /\ Count(px'.pending, {Context("committed", t)}) = 0
          /\ Count(px.committing, {Context("committed", t)}) = 0
          /\ Count(px.pending, {Context("committed", t)}) = 0
      BY <1>3, <1>4, CountShort
    <3> QED BY <3>2, <3>3, <3>4
  <2> QED BY <1>1, <1>2, <1>5, <2>1 DEF TokenInv
<1> QED BY <1>1, <1>2, <1>9, <1>10, <1>12, <1>13, <1>14, <1>15, <1>16, FreshMember

-----------------------------------------------------------------------------

LEMMA LifeNext ==
  ASSUME Life, TypeInv', [Next]_vars
  PROVE  Life'
<1>1. CASE Run
  BY <1>1, LeavingRun, MemberRun
<1>2. CASE UNCHANGED vars
  BY <1>2, LifeSame DEF vars
<1> QED BY <1>1, <1>2, LifeElect, LifeRequest, LifeLearnCommit, LifeProposalTimer, LifeMaybeTrim, LifeElected,
           LifeCollectDone, LifeCommitStart, LifeCommitFinish, LifeLease DEF Next, DispatchThread

LEMMA LifeInit ==
  ASSUME Init, TypeInv
  PROVE  Life
<1>1. Todo = {} /\ Resetting
  BY CountShort DEF Init, Todo, Resetting
<1>2. \A s \in Services : /\ ~svc[s].have_pending /\ ~svc[s].proposing /\ ~svc[s].timer
                          /\ svc[s].waiting = <<>> /\ svc[s].value = {}
  BY DEF Init
<1>3. /\ px.state = "recovering" /\ px.value = None /\ px.txn = None
      /\ px.pending = <<>> /\ px.committing = <<>> /\ px.active = <<>> /\ px.readable = <<>>
  BY DEF Init
<1>4. Leaving
  BY <1>1, <1>2, <1>3, CountShort DEF Leaving
<1>5. ListInv
  BY <1>2, <1>3, CountShort DEF ListInv
<1>6. ValueInv
  BY <1>2 DEF ValueInv
<1> QED BY <1>1, <1>4, <1>5, <1>6 DEF Life

\* In and out of a quorum: the inductive invariant of the services.  A monitor that
\* leaves its quorum drops all that was in the works, and in a quorum a service has
\* a pending value, a proposal under way or a call that will make it active, and
\* never two of these.
THEOREM ServiceLife == Spec => []Life
<1>1. Init /\ TypeInv => Life
  BY LifeInit
<1>2. TypeInv' /\ Life /\ [Next]_vars => Life'
  BY LifeNext
<1>3. Spec => []TypeInv
  BY ServiceTypes
<1> QED BY <1>1, <1>2, <1>3, PTL DEF Spec

\* The assertions of propose_pending, finish_round and commit_proposal
THEOREM ServiceAssertions == Spec => []AssertionsHold
<1>1. Life => AssertionsHold
  <2> SUFFICES ASSUME Life PROVE AssertionsHold
    OBVIOUS
  <2>0. TypeInv
    BY DEF Life
  <2>1. agenda # <<>> => Head(agenda) \in Todo
    BY <2>0, CallsDone
  <2>2. CASE Resetting
    <3>1. Leaving
      BY <2>2 DEF Life
    <3> QED BY <2>1, <3>1 DEF AssertionsHold, Leaving
  <2>3. CASE ~Resetting
    <3>1. ProposeInv /\ RoundInv
      BY <2>3, MemberFacts
    <3> QED BY <2>1, <3>1 DEF AssertionsHold, ProposeInv, RoundInv, Proposes, Does
  <2> QED BY <2>2, <2>3
<1> QED BY <1>1, ServiceLife, PTL

\* A service that proposes has its C_Committed, once, in a list that will be finished.
THEOREM ServiceHears == Spec => []ProposalIsHeardOf
<1>1. Life => ProposalIsHeardOf
  <2> SUFFICES ASSUME Life, LockFree, NEW s \in Services
               PROVE  LET n(l) == Cardinality({i \in DOMAIN l : l[i] = Context("committed", s)})
                      IN  /\ n(px.pending) + n(px.committing) = IF svc[s].proposing THEN 1 ELSE 0
                          /\ n(px.pending) > 0 => px.txn # None /\ px.state \in {"updating", "writing"}
                          /\ n(px.committing) > 0 => px.state \in {"updating", "writing"}
    BY DEF ProposalIsHeardOf
  <2> DEFINE W == {Context("committed", s)}
  <2>1. \A l : Cardinality({i \in DOMAIN l : l[i] = Context("committed", s)}) = Count(l, W)
    <3> TAKE l
    <3>1. {i \in DOMAIN l : l[i] = Context("committed", s)} = {i \in DOMAIN l : l[i] \in W}
      OBVIOUS
    <3> QED BY <3>1 DEF Count
  <2> HIDE DEF W
  <2>0. TypeInv /\ agenda = <<>> /\ Todo = {}
    BY CountShort DEF Life, LockFree, Todo
  <2>2. Count(px.pending, W) \in Nat /\ Count(px.committing, W) \in Nat
        /\ (Count(px.pending, W) > 0 => px.pending # <<>>) /\ (Count(px.committing, W) > 0 => px.committing # <<>>)
    <3>1. px.pending \in Seq(Contexts) /\ px.committing \in Seq(Contexts)
      BY <2>0 DEF TypeInv, PaxosType
    <3>2. Count(px.pending, W) \in Nat /\ Count(px.committing, W) \in Nat /\ Count(<<>>, W) = 0
      BY <3>1, CountContexts, CountShort
    <3> QED BY <3>2
  <2>3. CASE Resetting
    <3>1. px.pending = <<>> /\ px.committing = <<>> /\ ~svc[s].proposing
      BY <2>0, <2>3 DEF Life, Leaving
    <3>2. Count(px.pending, W) = 0 /\ Count(px.committing, W) = 0
      BY <3>1, CountShort
    <3> QED BY <2>1, <3>1, <3>2, SMTT(30)
  <2>4. CASE ~Resetting
    <3>1. role \in {"leader", "peon"} /\ TokenInv
      BY <2>4, MemberFacts
    <3>2. /\ QueueInv /\ px.state # "refresh" /\ \A D : ~Does(D)
          /\ px.state = "active" => px.pending = <<>>
      BY <3>1, FreeMember
    <3>3. px.pending # <<>> => px.txn # None /\ px.state \in {"updating", "writing"}
      BY <2>0, <3>2 DEF QueueInv
    <3>4. px.committing # <<>> => px.state \in {"updating", "writing"}
      BY <3>2 DEF QueueInv
    <3>5. Tells(s) = Count(px.committing, W) + Count(px.pending, W)
      <4>1. <<>> \in Seq(Calls)
        OBVIOUS
      <4>2. Count(agenda, ToldCalls(s)) = 0
        BY <2>0, CountShort
      <4>3. Tells(s) = Count(agenda, ToldCalls(s)) + Count(px.committing, W) + Count(px.pending, W)
        BY DEF Tells, W
      <4> QED BY <2>2, <4>2, <4>3
    <3>6. (svc[s].proposing <=> Tells(s) = 1) /\ Tells(s) <= 1
      <4>1. Wakes(s) + Tells(s) + (IF svc[s].have_pending THEN 1 ELSE 0) <= 1 /\ (svc[s].proposing <=> Tells(s) = 1)
        BY <3>1 DEF TokenInv
      <4>2. Wakes(s) \in Nat /\ Tells(s) \in Nat
        BY <2>4, MemberFacts
      <4> QED BY <4>1, <4>2
    <3>7. Count(px.pending, W) + Count(px.committing, W) = IF svc[s].proposing THEN 1 ELSE 0
      BY <2>2, <3>5, <3>6
    <3> QED BY <2>1, <2>2, <3>3, <3>4, <3>7
  <2> QED BY <2>3, <2>4
<1> QED BY <1>1, ServiceLife, PTL

=============================================================================
