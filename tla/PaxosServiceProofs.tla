------------------------- MODULE PaxosServiceProofs -------------------------
(***************************************************************************)
(* What the services promise, for any number of services and requests and   *)
(* every value of the bounds.                                               *)
(*                                                                          *)
(* The types, and batches: from the moment both services of a batch have    *)
(* changed to the moment both changes are in one transaction, the agenda    *)
(* begins with the proposals of the two, and nothing comes between.         *)
(***************************************************************************)
EXTENDS PaxosService, FiniteSetTheorems, TLAPS

-----------------------------------------------------------------------------
(* Types *)

Transactions == SUBSET Changes
ServiceContexts == [kind : {"active", "committed"}, svc : Services]
OpContexts == [kind : {"retry", "ack"}, op : Ops]
Contexts == ServiceContexts \cup OpContexts

ServiceCalls ==
  {"propose", "plugged", "active", "restart", "discard", "elected", "refreshed"}
PlainCalls == {"round", "readable", "rest", "finished"}
Calls ==
  [do : {"dispatch"}, arg : Ops] \cup [do : ServiceCalls, arg : Services]
    \cup [do : {"finish", "again"}, arg : Contexts] \cup [do : PlainCalls, arg : {None}]
    \cup [do : {"role"}, arg : {"electing"}]

PaxosStates == {"recovering", "active", "updating", "updating_previous", "writing",
                "writing_previous", "refresh"}
Proposing == {"updating", "updating_previous", "writing", "writing_previous"}

PaxosType ==
  [state : PaxosStates, txn : {None} \cup Transactions, value : {None} \cup Transactions,
   pending : Seq(Contexts), committing : Seq(Contexts), active : Seq(Contexts),
   readable : Seq(Contexts)]

ServiceType ==
  [have_pending : BOOLEAN, value : Transactions, proposing : BOOLEAN, timer : BOOLEAN,
   waiting : Seq(Contexts)]

\* Every variable has its type, and there is a value while one is proposed.
TypeInv ==
  /\ role \in {"probing", "electing", "leader", "peon"}
  /\ px \in PaxosType /\ (px.state \in Proposing => px.value # None)
  /\ svc \in [Services -> ServiceType]
  /\ log \in Seq(Transactions)
  /\ uncommitted \in {None} \cup Transactions
  /\ acked \in SUBSET Ops
  /\ routed \in SUBSET Ops /\ IsFiniteSet(routed)
  /\ agenda \in Seq(Calls)
  /\ flushing \in {None, "electing"}

-----------------------------------------------------------------------------
(* Batches *)

BatchOps == {op \in Ops : op.kind = "batch"}

\* The transaction T has both changes of op or none
Whole(op, T) == Change(op, op.svc) \in T <=> Change(op, op.other) \in T
Balanced(T) == \A op \in BatchOps : Whole(op, T)

\* The pending value of s has no change of a batch, or only the one of op
Untouched(s) == \A op \in BatchOps : \A t \in Services : Change(op, t) \notin svc[s].value
Touching(s, op) ==
  \A o \in BatchOps : \A t \in Services : Change(o, t) \in svc[s].value <=> o = op /\ t = s

\* No batch is under way
NoBatch == Balanced(Txn(px)) /\ \A s \in Services : Untouched(s)

\* Both services have changed
BatchBegun(op) ==
  /\ Len(agenda) >= 2 /\ agenda[1] = Call("plugged", op.other) /\ agenda[2] = Call("propose", op.svc)
  /\ Balanced(Txn(px))
  /\ \A s \in Services : IF s \in {op.svc, op.other} THEN Touching(s, op) ELSE Untouched(s)

\* The other one has put its change into the transaction, and the lock is held
BatchPlugged(op) ==
  /\ Len(agenda) >= 1 /\ agenda[1] = Call("propose", op.svc)
  /\ \A o \in BatchOps \ {op} : Whole(o, Txn(px))
  /\ Change(op, op.other) \in Txn(px)
  /\ \A s \in Services : IF s = op.svc THEN Touching(s, op) ELSE Untouched(s)

BatchInv ==
  /\ \A i \in DOMAIN log : Balanced(log[i])
  /\ uncommitted # None => Balanced(uncommitted)
  /\ px.value # None => Balanced(px.value)
  /\ NoBatch \/ \E op \in BatchOps : BatchBegun(op) \/ BatchPlugged(op)

-----------------------------------------------------------------------------
(* Lemmas about sequences of calls *)

\* The thread goes on with n and then with what follows the first call of a.
LEMMA ContinueSeq ==
  ASSUME NEW S, NEW a \in Seq(S), a # <<>>, NEW n \in Seq(S)
  PROVE  /\ n \o Tail(a) \in Seq(S)
         /\ Head(a) = a[1] /\ a[1] \in S /\ 1 \in DOMAIN a
         /\ Len(n) \in Nat /\ Len(a) \in Nat /\ Len(a) >= 1
         /\ Len(n \o Tail(a)) = Len(n) + Len(a) - 1
         /\ DOMAIN n = 1 .. Len(n) /\ DOMAIN a = 1 .. Len(a)
         /\ DOMAIN (n \o Tail(a)) = 1 .. (Len(n) + Len(a) - 1)
         /\ \A i \in 1 .. Len(n) : (n \o Tail(a))[i] = n[i] /\ n[i] \in S
         /\ \A i \in Len(n) + 1 .. Len(n) + Len(a) - 1 :
              /\ (n \o Tail(a))[i] = a[i - Len(n) + 1]
              /\ i - Len(n) + 1 \in 2 .. Len(a)
         /\ \A i \in 2 .. Len(a) :
              /\ (n \o Tail(a))[i + Len(n) - 1] = a[i]
              /\ i + Len(n) - 1 \in Len(n) + 1 .. Len(n) + Len(a) - 1
  OBVIOUS

LEMMA FinishSeq ==
  ASSUME NEW c \in Seq(Contexts), NEW ok \in BOOLEAN
  PROVE  /\ Finish(c, ok) \in Seq(Calls)
         /\ Len(Finish(c, ok)) = Len(c) /\ DOMAIN Finish(c, ok) = DOMAIN c
         /\ \A i \in DOMAIN c : /\ c[i] \in Contexts
                                /\ Finish(c, ok)[i] = Call(IF ok THEN "finish" ELSE "again", c[i])
  BY DEF Finish, Calls, Call

LEMMA ForEachSeq ==
  ASSUME NEW do \in ServiceCalls
  PROVE  /\ ForEach(do) \in Seq(Calls)
         /\ Len(ForEach(do)) = Len(Order) /\ DOMAIN ForEach(do) = 1 .. Len(Order)
         /\ Len(Order) \in Nat
         /\ \A i \in 1 .. Len(Order) : Order[i] \in Services /\ ForEach(do)[i] = Call(do, Order[i])
         /\ \A s \in Services : \E i \in 1 .. Len(Order) : Order[i] = s
  BY OrderAssumption DEF ForEach, Call, Calls, Services, Range

LEMMA RoutedSeq ==
  ASSUME NEW R \in SUBSET Ops, IsFiniteSet(R)
  PROVE  /\ [i \in 1 .. Cardinality(R) |-> Call("dispatch", SetToSeq(R)[i])] \in Seq(Calls)
         /\ Cardinality(R) \in Nat /\ \A i \in 1 .. Cardinality(R) : SetToSeq(R)[i] \in Ops
<1>1. Cardinality(R) \in Nat
  BY FS_CardinalityType
<1>2. PICK f : f \in [1 .. Cardinality(R) -> R] /\ IsInjective(f)
  BY FS_CardinalityType DEF ExistsBijection, Bijection, Injection
<1>3. SetToSeq(R) \in [1 .. Cardinality(R) -> R]
  BY <1>2 DEF SetToSeq
<1> DEFINE n == Cardinality(R)
           q == SetToSeq(R)
<1> HIDE DEF n, q
<1>4. [i \in 1 .. n |-> Call("dispatch", q[i])] \in Seq(Calls)
  <2>1. n \in Nat /\ \A i \in 1 .. n : q[i] \in Ops
    BY <1>1, <1>3 DEF n, q
  <2>2. \A i \in 1 .. n : Call("dispatch", q[i]) \in Calls
    BY <2>1 DEF Call, Calls
  <2> QED BY <2>1, <2>2
<1> QED BY <1>1, <1>3, <1>4 DEF n, q

\* The calls that a thread has at its end.
LEMMA CallTypes ==
  /\ \A op \in Ops : Call("dispatch", op) \in Calls
  /\ \A do \in ServiceCalls : \A s \in Services : Call(do, s) \in Calls
  /\ \A do \in PlainCalls : Call(do, None) \in Calls
  /\ Call("role", "electing") \in Calls
  /\ \A s \in Services : Context("active", s) \in Contexts /\ Context("committed", s) \in Contexts
  /\ \A op \in Ops : OpContext("retry", op) \in Contexts /\ OpContext("ack", op) \in Contexts
  BY DEF Call, Calls, Context, OpContext, Contexts, ServiceContexts, OpContexts

LEMMA ChangeTypes ==
  /\ \A op \in Ops : \A s \in Services : Change(op, s) \in Changes
  /\ \A s \in Services : Initial(s) \in Changes /\ Trimmed(s) \in Changes
  BY DEF Changes

\* What the first call of the agenda may be.
LEMMA CallArgs ==
  ASSUME NEW c \in Calls
  PROVE  /\ c.do = "dispatch" => c.arg \in Ops
         /\ c.do \in ServiceCalls => c.arg \in Services
         /\ c.do \in {"finish", "again"} => c.arg \in Contexts
         /\ c.do = "role" => c.arg = "electing"
         /\ c = Call(c.do, c.arg)
  BY DEF Calls, ServiceCalls, PlainCalls, Call

LEMMA TouchedType ==
  ASSUME NEW op \in Ops
  PROVE  /\ op.svc \in Services /\ op.svc \in Touched(op) /\ Touched(op) \subseteq Services
         /\ op.kind \in {"plain", "cross", "batch"}
         /\ op.kind \in {"cross", "batch"} => op.other \in Services /\ op.other # op.svc
  BY OpAssumption DEF Touched

LEMMA PrepareType ==
  ASSUME NEW op \in Ops, NEW now \in BOOLEAN
  PROVE  Prepare(op, now).calls \in Seq(Calls) /\ Prepare(op, now).timer \in BOOLEAN
<1> op.svc \in Services /\ op.kind \in {"plain", "cross", "batch"}
  BY TouchedType
<1> DEFINE p == IF now THEN <<Call("propose", op.svc)>> ELSE <<>>
<1>1. p \in Seq(Calls)
  BY CallTypes DEF ServiceCalls
<1> HIDE DEF p
<1>2. CASE op.kind = "plain"
  BY <1>1, <1>2 DEF Prepare, p
<1>3. CASE op.kind = "cross"
  <2>1. Call("propose", op.other) \in Calls
    BY <1>3, TouchedType, CallTypes DEF ServiceCalls
  <2>2. <<Call("propose", op.other)>> \o p \in Seq(Calls)
    BY <1>1, <2>1
  <2> QED BY <1>3, <2>2 DEF Prepare, p
<1>4. CASE op.kind = "batch"
  <2>1. Call("plugged", op.other) \in Calls /\ Call("propose", op.svc) \in Calls
    BY <1>4, TouchedType, CallTypes DEF ServiceCalls
  <2>2. BatchCalls(op) \in Seq(Calls)
    BY <2>1 DEF BatchCalls
  <2> QED BY <1>4, <2>2 DEF Prepare
<1> QED BY <1>2, <1>3, <1>4

LEMMA ProposedType ==
  ASSUME NEW p \in PaxosType, p.txn # None
  PROVE  /\ Proposed(p) \in PaxosType /\ Proposed(p).value # None
         /\ Triggered(p) \in PaxosType
         /\ (p.state \in Proposing => p.value # None) =>
              (Triggered(p).state \in Proposing => Triggered(p).value # None)
  BY DEF Proposed, Triggered, PaxosType, PaxosStates, Proposing

LEMMA TxnType ==
  ASSUME NEW p \in PaxosType, NEW T \in Transactions
  PROVE  /\ Txn(p) \in Transactions /\ Txn(p) \cup T \in Transactions
         /\ Txn(p) \cup T # None /\ Txn(p) # None
  BY NoneAssumption DEF Txn, PaxosType, Transactions

\* Paxos::restart and the calls of _reset keep the types.
LEMMA ResetType ==
  ASSUME TypeInv, NEW then \in Seq(Calls), Reset(then)
  PROVE  /\ px' \in PaxosType /\ px'.state = "recovering"
         /\ agenda' \in Seq(Calls)
<1>1. px' \in PaxosType /\ px'.state = "recovering"
  <2>1. px \in PaxosType /\ <<>> \in Seq(Contexts)
    BY DEF TypeInv
  <2>2. px' = [px EXCEPT !.state = "recovering", !.txn = None, !.value = None, !.active = <<>>,
                         !.committing = <<>>, !.pending = <<>>]
    BY DEF Reset
  <2> QED BY <2>1, <2>2 DEF PaxosType, PaxosStates
<1>2. px.committing \o px.pending \o px.active \in Seq(Contexts)
  BY DEF TypeInv, PaxosType
<1>3. Finish(px.committing \o px.pending \o px.active, FALSE) \in Seq(Calls)
  BY <1>2, FinishSeq
<1>4. ForEach("restart") \in Seq(Calls)
  BY ForEachSeq DEF ServiceCalls
<1> DEFINE a == Finish(px.committing \o px.pending \o px.active, FALSE)
           b == ForEach("restart")
<1>5. a \o b \o then \in Seq(Calls)
  <2> HIDE DEF a, b
  <2>1. a \in Seq(Calls) /\ b \in Seq(Calls)
    BY <1>3, <1>4 DEF a, b
  <2> QED BY <2>1
<1> QED BY <1>1, <1>5 DEF Reset

\* What a thread does next keeps the type of the agenda.
LEMMA ContinueType ==
  ASSUME TypeInv, agenda # <<>>, NEW next \in Seq(Calls), Continue(next)
  PROVE  agenda' \in Seq(Calls)
  BY ContinueSeq DEF TypeInv, Continue

LEMMA HeadType ==
  ASSUME TypeInv, agenda # <<>>
  PROVE  Head(agenda) \in Calls /\ Head(agenda) = agenda[1]
  BY DEF TypeInv

LEMMA WaitType ==
  ASSUME TypeInv, NEW s \in Services, NEW c \in Contexts,
         WaitForActive(s, c) \/ WaitForReadable(s, c)
  PROVE  /\ px' \in PaxosType /\ px'.state = px.state /\ px'.value = px.value
         /\ svc' \in [Services -> ServiceType]
<1>1. px \in PaxosType /\ svc \in [Services -> ServiceType] /\ svc[s] \in ServiceType
  BY DEF TypeInv
<1>2. Wait(svc[s], c) \in ServiceType
  <2> DEFINE q == Append(svc[s].waiting, c)
  <2>1. q \in Seq(Contexts)
    BY <1>1 DEF ServiceType
  <2>2. Wait(svc[s], c) = [svc[s] EXCEPT !.waiting = q]
    BY DEF Wait
  <2> HIDE DEF q
  <2> QED BY <1>1, <2>1, <2>2 DEF ServiceType
<1>3. /\ [px EXCEPT !.active = Append(@, c)] \in PaxosType
      /\ [px EXCEPT !.readable = Append(@, c)] \in PaxosType
  <2> DEFINE q == Append(px.active, c)
             r == Append(px.readable, c)
  <2>1. q \in Seq(Contexts) /\ r \in Seq(Contexts)
    BY <1>1 DEF PaxosType
  <2> HIDE DEF q, r
  <2>2. [px EXCEPT !.active = q] \in PaxosType /\ [px EXCEPT !.readable = r] \in PaxosType
    BY <1>1, <2>1 DEF PaxosType
  <2> QED BY <2>2 DEF q, r
<1>4. [svc EXCEPT ![s] = Wait(@, c)] \in [Services -> ServiceType]
  BY <1>1, <1>2
<1>5. \/ svc' = [svc EXCEPT ![s] = Wait(@, c)] /\ px' = px
      \/ px' = [px EXCEPT !.active = Append(@, c)] /\ svc' = svc
      \/ px' = [px EXCEPT !.readable = Append(@, c)] /\ svc' = svc
  BY DEF WaitForActive, WaitForReadable
<1> QED BY <1>1, <1>3, <1>4, <1>5 DEF PaxosType

\* A context goes to the end of one list, and nothing else changes.
LEMMA WaitFields ==
  ASSUME TypeInv, NEW s \in Services, NEW c \in Contexts,
         WaitForActive(s, c) \/ WaitForReadable(s, c)
  PROVE  /\ \A t \in Services :
              /\ svc'[t].value = svc[t].value /\ svc'[t].have_pending = svc[t].have_pending
              /\ svc'[t].proposing = svc[t].proposing /\ svc'[t].timer = svc[t].timer
              /\ \/ svc'[t].waiting = svc[t].waiting
                 \/ t = s /\ svc'[t].waiting = Append(svc[t].waiting, c)
         /\ px'.state = px.state /\ px'.txn = px.txn /\ px'.value = px.value
         /\ px'.pending = px.pending /\ px'.committing = px.committing
         /\ px'.readable = px.readable \/ px'.readable = Append(px.readable, c)
         /\ \/ px'.active = px.active
            \/ /\ WaitForActive(s, c) /\ px'.active = Append(px.active, c)
               /\ px'.readable = px.readable
<1>1. px \in PaxosType /\ svc \in [Services -> ServiceType]
  BY DEF TypeInv
<1>2. CASE svc' = [svc EXCEPT ![s] = Wait(@, c)] /\ px' = px
  <2>1. \A t \in Services : t # s => svc'[t] = svc[t]
    BY <1>1, <1>2
  <2>2. svc'[s] = Wait(svc[s], c) /\ svc[s] \in ServiceType
    BY <1>1, <1>2
  <2> DEFINE q == Append(svc[s].waiting, c)
  <2>3. svc'[s] = [svc[s] EXCEPT !.waiting = q]
    BY <2>2 DEF Wait
  <2> HIDE DEF q
  <2>4. /\ svc'[s].value = svc[s].value /\ svc'[s].have_pending = svc[s].have_pending
        /\ svc'[s].proposing = svc[s].proposing /\ svc'[s].timer = svc[s].timer
        /\ svc'[s].waiting = q
    BY <2>2, <2>3 DEF ServiceType
  <2> QED BY <1>2, <2>1, <2>4 DEF q
<1>3. CASE px' = [px EXCEPT !.active = Append(@, c)] /\ svc' = svc /\ WaitForActive(s, c)
  BY <1>1, <1>3 DEF PaxosType
<1>4. CASE px' = [px EXCEPT !.readable = Append(@, c)] /\ svc' = svc
  BY <1>1, <1>4 DEF PaxosType
<1> QED BY <1>2, <1>3, <1>4 DEF WaitForActive, WaitForReadable

LEMMA TypeDispatch ==
  ASSUME TypeInv, Dispatch
  PROVE  TypeInv'
<1> DEFINE op == Head(agenda).arg
           retry == OpContext("retry", op)
<1>1. agenda # <<>> /\ op \in Ops /\ op.svc \in Services /\ retry \in Contexts
      /\ Touched(op) \subseteq Services
  BY HeadType, CallArgs, TouchedType, CallTypes DEF Dispatch
<1>2. /\ px \in PaxosType /\ (px.state \in Proposing => px.value # None)
      /\ svc \in [Services -> ServiceType] /\ routed \in SUBSET Ops /\ IsFiniteSet(routed)
      /\ <<>> \in Seq(Calls)
  BY DEF TypeInv
<1>3. /\ px' \in PaxosType /\ (px'.state \in Proposing => px'.value # None)
      /\ svc' \in [Services -> ServiceType] /\ routed' \in SUBSET Ops /\ IsFiniteSet(routed')
      /\ agenda' \in Seq(Calls)
  <2>1. CASE /\ ~IsReadable(op.svc) /\ WaitForReadable(op.svc, retry)
             /\ Continue(<<>>) /\ UNCHANGED routed
    BY <1>1, <1>2, <2>1, WaitType, ContinueType
  <2>2. CASE /\ routed' = routed \cup {op}
             /\ Continue(<<>>) /\ UNCHANGED <<px, svc>>
    <3>1. IsFiniteSet(routed')
      BY <1>2, <2>2, FS_AddElement
    <3> QED BY <1>1, <1>2, <2>2, <3>1, ContinueType
  <2>3. CASE /\ \E t \in Touched(op) : WaitForActive(t, retry)
             /\ Continue(<<>>) /\ UNCHANGED routed
    BY <1>1, <1>2, <2>3, WaitType, ContinueType
  <2>4. CASE /\ \E now \in BOOLEAN :
                  /\ svc' = [t \in Services |->
                       IF t \notin Touched(op) THEN svc[t]
                       ELSE [svc[t] EXCEPT
                              !.value = @ \cup {Change(op, t)},
                              !.timer = @ \/ (t = op.svc /\ Prepare(op, now).timer),
                              !.waiting = IF t = op.svc THEN Append(@, OpContext("ack", op)) ELSE @]]
                  /\ Continue(Prepare(op, now).calls)
             /\ UNCHANGED <<px, routed>>
    <3>1. PICK now \in BOOLEAN :
            /\ svc' = [t \in Services |->
                 IF t \notin Touched(op) THEN svc[t]
                 ELSE [svc[t] EXCEPT
                        !.value = @ \cup {Change(op, t)},
                        !.timer = @ \/ (t = op.svc /\ Prepare(op, now).timer),
                        !.waiting = IF t = op.svc THEN Append(@, OpContext("ack", op)) ELSE @]]
            /\ Continue(Prepare(op, now).calls)
      BY <2>4
    <3>2. Prepare(op, now).calls \in Seq(Calls) /\ Prepare(op, now).timer \in BOOLEAN
      BY <1>1, PrepareType
    <3>3. ASSUME NEW t \in Services, t \in Touched(op)
          PROVE  [svc[t] EXCEPT
                   !.value = @ \cup {Change(op, t)},
                   !.timer = @ \/ (t = op.svc /\ Prepare(op, now).timer),
                   !.waiting = IF t = op.svc THEN Append(@, OpContext("ack", op)) ELSE @]
                 \in ServiceType
      <4>1. svc[t] \in ServiceType /\ Change(op, t) \in Changes /\ OpContext("ack", op) \in Contexts
        BY <1>1, <1>2, CallTypes, ChangeTypes
      <4> DEFINE v == svc[t].value \cup {Change(op, t)}
                 b == svc[t].timer \/ (t = op.svc /\ Prepare(op, now).timer)
                 q == IF t = op.svc THEN Append(svc[t].waiting, OpContext("ack", op))
                      ELSE svc[t].waiting
      <4>2. v \in Transactions
        BY <4>1 DEF ServiceType, Transactions
      <4>3. q \in Seq(Contexts)
        BY <4>1 DEF ServiceType
      <4>4. b \in BOOLEAN
        BY <4>1, <3>2 DEF ServiceType
      <4> HIDE DEF v, b, q
      <4>5. [svc[t] EXCEPT !.value = v, !.timer = b, !.waiting = q] \in ServiceType
        BY <4>1, <4>2, <4>3, <4>4 DEF ServiceType
      <4> QED BY <4>5 DEF v, b, q
    <3>4. svc' \in [Services -> ServiceType]
      BY <1>2, <3>1, <3>3
    <3> QED BY <1>1, <1>2, <2>4, <3>1, <3>2, <3>4, ContinueType
  <2> QED BY <2>1, <2>2, <2>3, <2>4 DEF Dispatch
<1>4. UNCHANGED <<role, log, uncommitted, acked, flushing>>
  BY DEF Dispatch
<1> QED BY <1>3, <1>4 DEF TypeInv

LEMMA TypeProposePending ==
  ASSUME TypeInv, ProposePending
  PROVE  TypeInv'
<1> DEFINE s == Head(agenda).arg
           q == Append(px.pending, Context("committed", s))
           x == Txn(px) \cup svc[s].value
           p == [px EXCEPT !.txn = x, !.pending = q]
<1>1. agenda # <<>> /\ s \in Services
  BY HeadType, CallArgs DEF ProposePending, ServiceCalls
<1>2. /\ px \in PaxosType /\ (px.state \in Proposing => px.value # None)
      /\ svc \in [Services -> ServiceType] /\ svc[s] \in ServiceType
      /\ uncommitted \in {None} \cup Transactions
  BY <1>1 DEF TypeInv
<1>3. q \in Seq(Contexts)
  BY <1>1, <1>2, CallTypes DEF PaxosType
<1>4. x \in Transactions /\ x # None
  BY <1>2, TxnType DEF ServiceType
<1>5. p \in PaxosType /\ p.txn # None /\ p.state = px.state /\ p.value = px.value
  <2> HIDE DEF q, x
  <2> QED BY <1>2, <1>3, <1>4 DEF PaxosType
<1>6. px' = p \/ px' = Triggered(p)
  BY DEF ProposePending
<1> HIDE DEF p
<1>7. px' \in PaxosType /\ (px'.state \in Proposing => px'.value # None)
  BY <1>2, <1>5, <1>6, ProposedType
<1>8. svc' \in [Services -> ServiceType]
  <2>1. svc' = [svc EXCEPT ![s].have_pending = FALSE, ![s].value = {}, ![s].proposing = TRUE,
                           ![s].timer = FALSE]
    BY DEF ProposePending, Encode
  <2> HIDE DEF s
  <2> QED BY <1>1, <1>2, <2>1 DEF ServiceType, Transactions
<1>9. uncommitted' \in {None} \cup Transactions
  <2>1. Accepts(px')
    BY DEF ProposePending
  <2> QED BY <1>2, <1>7, <2>1 DEF Accepts, PaxosType
<1>10. agenda' \in Seq(Calls)
  <2>1. Continue(<<>>) /\ <<>> \in Seq(Calls)
    BY DEF ProposePending
  <2> QED BY <1>1, <2>1, ContinueType
<1>11. UNCHANGED <<role, log, acked, routed, flushing>>
  BY DEF ProposePending
<1> QED BY <1>7, <1>8, <1>9, <1>10, <1>11 DEF TypeInv

LEMMA TypeActive ==
  ASSUME TypeInv, Active
  PROVE  TypeInv'
<1> DEFINE s == Head(agenda).arg
<1>1. agenda # <<>> /\ s \in Services /\ Context("active", s) \in Contexts
      /\ Call("propose", s) \in Calls
  BY HeadType, CallArgs, CallTypes DEF Active, ServiceCalls
<1>2. /\ px \in PaxosType /\ (px.state \in Proposing => px.value # None)
      /\ svc \in [Services -> ServiceType] /\ svc[s] \in ServiceType
      /\ role \in {"probing", "electing", "leader", "peon"}
      /\ <<>> \in Seq(Calls) /\ <<>> \in Seq(Contexts) /\ <<Call("propose", s)>> \in Seq(Calls)
  BY <1>1 DEF TypeInv
<1>3. Finish(svc[s].waiting, TRUE) \in Seq(Calls)
  BY <1>2, FinishSeq DEF ServiceType
<1>4. /\ px' \in PaxosType /\ (px'.state \in Proposing => px'.value # None)
      /\ svc' \in [Services -> ServiceType]
      /\ agenda' \in Seq(Calls)
  <2>1. CASE Continue(<<>>) /\ UNCHANGED <<px, svc>>
    BY <1>1, <1>2, <2>1, ContinueType
  <2>2. CASE WaitForActive(s, Context("active", s)) /\ Continue(<<>>)
    BY <1>1, <1>2, <2>2, ContinueType, WaitType
  <2>3. CASE /\ svc' = [svc EXCEPT ![s].have_pending = TRUE, ![s].value = @ \cup {Initial(s)}]
             /\ Continue(<<Call("propose", s)>>) /\ UNCHANGED px
    <3>1. svc[s].value \cup {Initial(s)} \in Transactions
      BY <1>1, <1>2, ChangeTypes DEF ServiceType, Transactions
    <3>2. svc' \in [Services -> ServiceType]
      <4> HIDE DEF s
      <4> QED BY <1>1, <1>2, <2>3, <3>1 DEF ServiceType
    <3> QED BY <1>1, <1>2, <2>3, <3>2, ContinueType
  <2>4. CASE /\ svc' = [svc EXCEPT ![s].have_pending = @ \/ role = "leader", ![s].waiting = <<>>]
             /\ Continue(Finish(svc[s].waiting, TRUE)) /\ UNCHANGED px
    <3>1. svc' \in [Services -> ServiceType]
      <4> HIDE DEF s
      <4> QED BY <1>1, <1>2, <2>4 DEF ServiceType
    <3> QED BY <1>1, <1>2, <1>3, <2>4, <3>1, ContinueType
  <2> QED BY <2>1, <2>2, <2>3, <2>4 DEF Active
<1>5. UNCHANGED <<role, log, uncommitted, acked, routed, flushing>>
  BY DEF Active
<1> QED BY <1>4, <1>5 DEF TypeInv

LEMMA TypeFinishContext ==
  ASSUME TypeInv, FinishContext
  PROVE  TypeInv'
<1> DEFINE c == Head(agenda).arg
           ok == Head(agenda).do = "finish"
           n == CASE c.kind \in {"active", "committed"} ->
                            IF ok THEN <<Call("active", c.svc)>> ELSE <<>>
                  [] c.kind = "retry" -> <<Call("dispatch", c.op)>>
                  [] c.kind = "ack" -> IF ok THEN <<>> ELSE <<Call("dispatch", c.op)>>
<1>1. agenda # <<>> /\ c \in Contexts
  BY HeadType, CallArgs DEF FinishContext
<1>2. \/ c.kind \in {"active", "committed"} /\ c.svc \in Services
      \/ c.kind \in {"retry", "ack"} /\ c.op \in Ops
  BY <1>1 DEF Contexts, ServiceContexts, OpContexts
<1>3. n \in Seq(Calls)
  <2>1. CASE c.kind \in {"active", "committed"}
    <3>1. <<Call("active", c.svc)>> \in Seq(Calls) /\ <<>> \in Seq(Calls)
      BY <1>2, <2>1, CallTypes DEF ServiceCalls
    <3>2. n \in {<<Call("active", c.svc)>>, <<>>}
      BY <2>1
    <3> HIDE DEF n
    <3> QED BY <3>1, <3>2
  <2>2. CASE c.kind \in {"retry", "ack"}
    <3>1. <<Call("dispatch", c.op)>> \in Seq(Calls) /\ <<>> \in Seq(Calls)
      BY <1>2, <2>2, CallTypes DEF ServiceCalls
    <3>2. n \in {<<Call("dispatch", c.op)>>, <<>>}
      BY <2>2
    <3> HIDE DEF n
    <3> QED BY <3>1, <3>2
  <2> QED BY <1>2, <2>1, <2>2
<1>4. agenda' \in Seq(Calls)
  <2>1. Continue(n)
    BY DEF FinishContext
  <2> QED BY <1>1, <1>3, <2>1, ContinueType
<1>5. svc' \in [Services -> ServiceType]
  <2>1. svc' = IF c.kind = "committed" THEN [svc EXCEPT ![c.svc].proposing = FALSE] ELSE svc
    BY DEF FinishContext
  <2>2. svc \in [Services -> ServiceType]
    BY DEF TypeInv
  <2> HIDE DEF c
  <2> QED BY <1>2, <2>1, <2>2 DEF ServiceType
<1>6. acked' \in SUBSET Ops
  <2>1. acked' = IF c.kind = "ack" /\ ok THEN acked \cup {c.op} ELSE acked
    BY DEF FinishContext
  <2>2. acked \in SUBSET Ops
    BY DEF TypeInv
  <2> QED BY <1>2, <2>1, <2>2
<1>7. UNCHANGED <<role, px, log, uncommitted, routed, flushing>>
  BY DEF FinishContext
<1> QED BY <1>4, <1>5, <1>6, <1>7 DEF TypeInv

\* Waiters are taken off a list of Paxos or of a service.
LEMMA PaxosLists ==
  ASSUME TypeInv
  PROVE  /\ \A ok \in BOOLEAN : /\ Finish(px.active, ok) \in Seq(Calls)
                                /\ Finish(px.readable, ok) \in Seq(Calls)
                                /\ Finish(px.committing, ok) \in Seq(Calls)
         /\ \A ok \in BOOLEAN : \A s \in Services : Finish(svc[s].waiting, ok) \in Seq(Calls)
         /\ \A n \in Seq(Calls) : \A c \in Calls : n \o <<c>> \in Seq(Calls)
         /\ \A n \in Seq(Calls) : \A c, d \in Calls : n \o <<c, d>> \in Seq(Calls)
<1>1. /\ px.active \in Seq(Contexts) /\ px.readable \in Seq(Contexts)
      /\ px.committing \in Seq(Contexts)
  BY DEF TypeInv, PaxosType
<1>2. \A s \in Services : svc[s].waiting \in Seq(Contexts)
  BY DEF TypeInv, ServiceType
<1>3. /\ \A n \in Seq(Calls) : \A c \in Calls : n \o <<c>> \in Seq(Calls)
      /\ \A n \in Seq(Calls) : \A c, d \in Calls : n \o <<c, d>> \in Seq(Calls)
  OBVIOUS
<1> QED BY <1>1, <1>2, <1>3, FinishSeq

LEMMA TypeRound ==
  ASSUME TypeInv, FinishRound \/ KickReadable \/ RoundRest
  PROVE  TypeInv'
<1> /\ px \in PaxosType /\ (px.state \in Proposing => px.value # None)
    /\ uncommitted \in {None} \cup Transactions
    /\ <<>> \in Seq(Calls) /\ <<>> \in Seq(Contexts)
  BY DEF TypeInv
<1> Call("readable", None) \in Calls /\ Call("rest", None) \in Calls
  BY CallTypes DEF PlainCalls
<1>1. CASE FinishRound
  <2>1. px' = [px EXCEPT !.state = "active", !.active = <<>>] /\ agenda # <<>>
    BY <1>1 DEF FinishRound
  <2>2. px' \in PaxosType /\ px'.state \notin Proposing
    BY <2>1 DEF PaxosType, PaxosStates, Proposing
  <2>3. Finish(px.active, TRUE) \o <<Call("readable", None), Call("rest", None)>> \in Seq(Calls)
    BY PaxosLists
  <2>4. Continue(Finish(px.active, TRUE) \o <<Call("readable", None), Call("rest", None)>>)
    BY <1>1 DEF FinishRound
  <2>5. agenda' \in Seq(Calls)
    BY <2>1, <2>3, <2>4, ContinueType
  <2> QED BY <1>1, <2>2, <2>5 DEF TypeInv, FinishRound
<1>2. CASE KickReadable
  <2>1. px' = [px EXCEPT !.readable = <<>>] /\ agenda # <<>>
    BY <1>2 DEF KickReadable
  <2>2. px' \in PaxosType /\ px'.state = px.state /\ px'.value = px.value
    BY <2>1 DEF PaxosType
  <2>3. Continue(Finish(px.readable, TRUE))
    BY <1>2 DEF KickReadable
  <2>4. agenda' \in Seq(Calls)
    BY <2>1, <2>3, PaxosLists, ContinueType
  <2> QED BY <1>2, <2>2, <2>4 DEF TypeInv, KickReadable
<1>3. CASE RoundRest
  <2>1. px' \in PaxosType /\ (px'.state \in Proposing => px'.value # None)
    <3>1. px' = px \/ (px.txn # None /\ px' = Proposed(px))
      BY <1>3 DEF RoundRest
    <3> QED BY <3>1, ProposedType
  <2>2. uncommitted' \in {None} \cup Transactions
    BY <1>3, <2>1 DEF RoundRest, Accepts, PaxosType
  <2>3. agenda' \in Seq(Calls)
    BY <1>3, ContinueType DEF RoundRest
  <2> QED BY <1>3, <2>1, <2>2, <2>3 DEF TypeInv, RoundRest
<1> QED BY <1>1, <1>2, <1>3

LEMMA TypeReset ==
  ASSUME TypeInv, Restart \/ Discard \/ ElectionFinished \/ FinishElection \/ ChangeRole
  PROVE  TypeInv'
<1> DEFINE s == Head(agenda).arg
<1> /\ px \in PaxosType /\ (px.state \in Proposing => px.value # None)
    /\ svc \in [Services -> ServiceType]
    /\ <<>> \in Seq(Calls) /\ <<>> \in Seq(Contexts) /\ {} \in Transactions
  BY DEF TypeInv, Transactions
<1>1. CASE Restart
  <2>1. agenda # <<>> /\ s \in Services /\ Call("discard", s) \in Calls
    BY <1>1, HeadType, CallArgs, CallTypes DEF Restart, ServiceCalls
  <2>2. Finish(svc[s].waiting, FALSE) \o <<Call("discard", s)>> \in Seq(Calls)
    BY <2>1, PaxosLists
  <2>3. /\ svc' = [svc EXCEPT ![s] = Restarted(@)]
        /\ Continue(Finish(svc[s].waiting, FALSE) \o <<Call("discard", s)>>)
    BY <1>1 DEF Restart
  <2>4. svc' \in [Services -> ServiceType]
    <3> HIDE DEF s
    <3> QED BY <2>1, <2>3 DEF Restarted, ServiceType
  <2>5. agenda' \in Seq(Calls)
    BY <2>1, <2>2, <2>3, ContinueType
  <2> QED BY <1>1, <2>4, <2>5 DEF TypeInv, Restart
<1>2. CASE Discard
  <2>1. agenda # <<>> /\ s \in Services
    BY <1>2, HeadType, CallArgs DEF Discard, ServiceCalls
  <2>2. /\ svc' = [svc EXCEPT ![s].have_pending = FALSE, ![s].value = {}, ![s].proposing = FALSE]
        /\ Continue(<<>>)
    BY <1>2 DEF Discard
  <2>3. svc' \in [Services -> ServiceType]
    <3> HIDE DEF s
    <3> QED BY <2>1, <2>2 DEF ServiceType
  <2>4. agenda' \in Seq(Calls)
    BY <2>1, <2>2, ContinueType
  <2> QED BY <1>2, <2>3, <2>4 DEF TypeInv, Discard
<1>3. CASE ElectionFinished
  <2> DEFINE l == IF Head(agenda).do = "elected" THEN <<Call("active", s)>> ELSE <<>>
  <2>1. agenda # <<>> /\ s \in Services /\ Call("active", s) \in Calls
    BY <1>3, HeadType, CallArgs, CallTypes DEF ElectionFinished, ServiceCalls
  <2> DEFINE f == Finish(svc[s].waiting, FALSE)
  <2>2. l \in Seq(Calls) /\ f \in Seq(Calls)
    <3>1. f \in Seq(Calls)
      BY <2>1, PaxosLists
    <3>2. <<Call("active", s)>> \in Seq(Calls)
      BY <2>1
    <3> QED BY <3>1, <3>2
  <2>3. /\ svc' = [svc EXCEPT ![s].waiting = <<>>]
        /\ Continue(f \o l)
    BY <1>3 DEF ElectionFinished
  <2>4. svc' \in [Services -> ServiceType]
    <3> HIDE DEF s
    <3> QED BY <2>1, <2>3 DEF ServiceType
  <2>5. agenda' \in Seq(Calls)
    <3> HIDE DEF l, f
    <3>1. f \o l \in Seq(Calls)
      BY <2>2
    <3> QED BY <2>1, <2>3, <3>1, ContinueType
  <2> QED BY <1>3, <2>4, <2>5 DEF TypeInv, ElectionFinished
<1>4. CASE FinishElection
  <2> DEFINE q == [i \in 1 .. Cardinality(routed) |-> Call("dispatch", SetToSeq(routed)[i])]
  <2>1. q \in Seq(Calls)
    BY RoutedSeq DEF TypeInv
  <2>2. (IF role = "leader" THEN q ELSE <<>>) \in Seq(Calls)
    BY <2>1
  <2>3. agenda # <<>> /\ Continue(IF role = "leader" THEN q ELSE <<>>)
    BY <1>4 DEF FinishElection
  <2>4. agenda' \in Seq(Calls)
    BY <2>2, <2>3, ContinueType
  <2>5. px' \in PaxosType /\ px'.state = px.state /\ px'.value = px.value
    <3>1. px' = IF role = "leader" THEN [px EXCEPT !.txn = Txn(px)] ELSE px
      BY <1>4 DEF FinishElection
    <3>2. Txn(px) \in Transactions
      BY TxnType DEF Transactions
    <3> QED BY <3>1, <3>2 DEF PaxosType
  <2>6. routed' \in SUBSET Ops /\ IsFiniteSet(routed')
    BY <1>4, FS_EmptySet DEF FinishElection, TypeInv
  <2> QED BY <1>4, <2>4, <2>5, <2>6 DEF TypeInv, FinishElection
<1>5. CASE ChangeRole
  <2>1. agenda # <<>> /\ Head(agenda).do = "role" /\ role' = Head(agenda).arg /\ Continue(<<>>)
    BY <1>5 DEF ChangeRole
  <2>3. role' = "electing"
    BY <2>1, HeadType, CallArgs
  <2>2. agenda' \in Seq(Calls)
    BY <2>1, ContinueType
  <2> QED BY <1>5, <2>2, <2>3 DEF TypeInv, ChangeRole
<1> QED BY <1>1, <1>2, <1>3, <1>4, <1>5

LEMMA TypeRun ==
  ASSUME TypeInv, Run
  PROVE  TypeInv'
  BY TypeDispatch, TypeProposePending, TypeActive, TypeFinishContext, TypeRound, TypeReset DEF Run

\* What a leader or a peon learns to have been committed.
LEMMA LearntTypes ==
  /\ {Initial(s) : s \in Services} \in Transactions
  /\ \A op \in Ops : {Change(op, s) : s \in Touched(op)} \in Transactions
  BY ChangeTypes, TouchedType DEF Transactions

LEMMA TypeElect ==
  ASSUME TypeInv,
         Timeout \/ StartElection \/ EndProbing \/ Flushed
  PROVE  TypeInv'
<1> /\ px \in PaxosType /\ (px.state \in Proposing => px.value # None)
    /\ <<>> \in Seq(Calls)
  BY DEF TypeInv
<1>1. <<Call("role", "electing")>> \in Seq(Calls)
  BY CallTypes
<1>2. CASE Timeout
  <2>1. Reset(<<>>) /\ role' = "probing" /\ UNCHANGED <<svc, log, uncommitted, acked, routed, flushing>>
    BY <1>2 DEF Timeout, Bootstrap
  <2> QED BY <2>1, ResetType DEF TypeInv, Proposing
<1>3. CASE StartElection \/ EndProbing
  <2>1. Elect
    BY <1>3 DEF StartElection, EndProbing
  <2>2. UNCHANGED <<role, svc, log, uncommitted, acked, routed>>
    BY <2>1 DEF Elect
  <2>3. CASE flushing' = "electing" /\ UNCHANGED <<px, agenda>>
    BY <2>2, <2>3 DEF TypeInv
  <2>4. CASE Reset(<<Call("role", "electing")>>) /\ UNCHANGED flushing
    BY <1>1, <2>2, <2>4, ResetType DEF TypeInv, Proposing
  <2> QED BY <2>1, <2>3, <2>4 DEF Elect
<1>4. CASE Flushed
  <2>1. flushing = "electing" /\ flushing' = None /\ Reset(<<Call("role", flushing)>>)
        /\ UNCHANGED <<role, svc, log, uncommitted, acked, routed>>
    BY <1>4 DEF Flushed, TypeInv
  <2> QED BY <1>1, <2>1, ResetType DEF TypeInv, Proposing
<1> QED BY <1>2, <1>3, <1>4

LEMMA TypeQuorum ==
  ASSUME TypeInv,
         WinElection \/ LoseElection \/ CollectDone \/ CommitStart \/ Lease \/ LearnCommit
  PROVE  TypeInv'
<1> /\ px \in PaxosType /\ (px.state \in Proposing => px.value # None)
    /\ uncommitted \in {None} \cup Transactions /\ log \in Seq(Transactions)
    /\ <<>> \in Seq(Calls) /\ <<>> \in Seq(Contexts)
  BY DEF TypeInv
<1> DEFINE e == ForEach("elected")
           r == ForEach("refreshed")
<1>1. /\ e \in Seq(Calls) /\ r \in Seq(Calls)
      /\ Call("finished", None) \in Calls /\ Call("round", None) \in Calls
      /\ Call("readable", None) \in Calls
  BY ForEachSeq, CallTypes DEF ServiceCalls, PlainCalls
<1>2. CASE WinElection \/ LoseElection
  <2>1. e \o <<Call("finished", None)>> \in Seq(Calls)
    <3> HIDE DEF e
    <3> QED BY <1>1
  <2>2. agenda' = e \o <<Call("finished", None)>> /\ role' \in {"leader", "peon"}
        /\ UNCHANGED <<px, svc, log, uncommitted, acked, routed, flushing>>
    BY <1>2 DEF WinElection, LoseElection
  <2> QED BY <2>1, <2>2 DEF TypeInv
<1>3. CASE CollectDone
  <2>1. CASE /\ uncommitted # None
             /\ px' = [px EXCEPT !.state = "updating_previous", !.value = uncommitted]
             /\ UNCHANGED <<agenda, uncommitted>>
    <3>1. px' \in PaxosType /\ px'.value # None
      BY <2>1 DEF PaxosType, PaxosStates
    <3> QED BY <1>3, <2>1, <3>1 DEF TypeInv, CollectDone
  <2>2. CASE uncommitted' = None /\ agenda' = <<Call("round", None)>> /\ UNCHANGED px
    BY <1>1, <1>3, <2>2 DEF TypeInv, CollectDone
  <2> QED BY <1>3, <2>1, <2>2 DEF CollectDone
<1>4. CASE CommitStart
  <2>1. px' \in PaxosType /\ px'.value = px.value /\ px.value # None
    BY <1>4 DEF CommitStart, PaxosType, PaxosStates, Proposing
  <2> QED BY <1>4, <2>1 DEF TypeInv, CommitStart
<1>5. CASE Lease
  <2>1. px' = [px EXCEPT !.state = "active", !.active = <<>>]
    BY <1>5 DEF Lease
  <2>2. px' \in PaxosType /\ px'.state = "active"
    BY <2>1 DEF PaxosType, PaxosStates
  <2>3. agenda' = Finish(px.active, TRUE) \o <<Call("readable", None)>>
    BY <1>5 DEF Lease
  <2>4. agenda' \in Seq(Calls)
    BY <1>1, <2>3, PaxosLists
  <2> QED BY <1>5, <2>2, <2>4 DEF TypeInv, Lease, Proposing
<1>6. CASE LearnCommit
  <2>1. PICK T \in Transactions : log' = Append(log, T)
    BY <1>6, LearntTypes DEF LearnCommit, TypeInv
  <2>2. log' \in Seq(Transactions)
    BY <2>1
  <2>3. acked' \in SUBSET Ops /\ routed' \in SUBSET Ops
    BY <1>6 DEF LearnCommit, TypeInv
  <2>4. IsFiniteSet(routed')
    BY <1>6, FS_RemoveElement DEF LearnCommit, TypeInv
  <2>5. uncommitted' = None /\ agenda' = r
    BY <1>6 DEF LearnCommit
  <2> QED BY <1>1, <1>6, <2>2, <2>3, <2>4, <2>5 DEF TypeInv, LearnCommit
<1> QED BY <1>2, <1>3, <1>4, <1>5, <1>6

LEMMA TypeOthers ==
  ASSUME TypeInv,
         \/ CommitFinish \/ \E op \in Ops : Request(op)
         \/ \E s \in Services : ProposalTimer(s) \/ MaybeTrim(s)
  PROVE  TypeInv'
<1> /\ px \in PaxosType /\ (px.state \in Proposing => px.value # None)
    /\ uncommitted \in {None} \cup Transactions /\ log \in Seq(Transactions)
    /\ svc \in [Services -> ServiceType]
    /\ <<>> \in Seq(Calls) /\ <<>> \in Seq(Contexts)
  BY DEF TypeInv
<1>1. CASE CommitFinish
  <2>1. px.value \in Transactions /\ log' = Append(log, px.value) /\ uncommitted' = None
        /\ UNCHANGED <<svc, acked, routed, flushing>>
    BY <1>1 DEF CommitFinish, PaxosType, Proposing
  <2>2. log' \in Seq(Transactions)
    BY <2>1
  <2>3. CASE /\ px' = [px EXCEPT !.state = "refresh", !.value = None, !.committing = <<>>]
             /\ agenda' = Finish(px.committing, TRUE) \o <<Call("round", None)>>
             /\ UNCHANGED <<role, restarts>>
    <3>1. px' \in PaxosType /\ px'.state = "refresh"
      BY <2>3 DEF PaxosType, PaxosStates
    <3>2. Call("round", None) \in Calls
      BY CallTypes DEF PlainCalls
    <3>3. agenda' \in Seq(Calls)
      BY <2>3, <3>2, PaxosLists
    <3> QED BY <2>1, <2>2, <2>3, <3>1, <3>3 DEF TypeInv, Proposing
  <2>4. CASE Bootstrap
    BY <2>1, <2>2, <2>4, ResetType DEF TypeInv, Proposing, Bootstrap
  <2> QED BY <1>1, <2>3, <2>4 DEF CommitFinish
<1>2. ASSUME NEW op \in Ops, Request(op)
      PROVE  TypeInv'
  BY <1>2, CallTypes DEF Request, TypeInv
<1>3. ASSUME NEW s \in Services, ProposalTimer(s)
      PROVE  TypeInv'
  <2>1. svc' \in [Services -> ServiceType]
    BY <1>3 DEF ProposalTimer, ServiceType
  <2>2. Call("propose", s) \in Calls
    BY CallTypes DEF ServiceCalls
  <2>3. agenda' \in Seq(Calls)
    BY <1>3, <2>2 DEF ProposalTimer
  <2> QED BY <1>3, <2>1, <2>3 DEF ProposalTimer, TypeInv
<1>4. ASSUME NEW s \in Services, MaybeTrim(s)
      PROVE  TypeInv'
  <2> DEFINE x == Txn(px) \cup {Trimmed(s)}
             p == [px EXCEPT !.txn = x]
  <2>1. x \in Transactions /\ x # None
    <3>1. {Trimmed(s)} \in Transactions
      BY ChangeTypes DEF Transactions
    <3> QED BY <3>1, TxnType
  <2>2. p \in PaxosType /\ p.txn # None /\ p.state = px.state /\ p.value = px.value
    <3> HIDE DEF x
    <3> QED BY <2>1 DEF PaxosType
  <2>3. px' = Triggered(p) /\ Accepts(px')
    BY <1>4 DEF MaybeTrim
  <2> HIDE DEF p
  <2>4. px' \in PaxosType /\ (px'.state \in Proposing => px'.value # None)
    BY <2>2, <2>3, ProposedType
  <2>5. uncommitted' \in {None} \cup Transactions
    BY <2>3, <2>4 DEF Accepts, PaxosType
  <2> QED BY <1>4, <2>4, <2>5 DEF MaybeTrim, TypeInv
<1> QED BY <1>1, <1>2, <1>3, <1>4

\* Every variable keeps its type.
THEOREM ServiceTypes == Spec => []TypeInv
<1>1. Init => TypeInv
  <2> SUFFICES ASSUME Init PROVE TypeInv
    OBVIOUS
  <2>1. px \in PaxosType /\ px.state \notin Proposing
    BY DEF Init, PaxosType, PaxosStates, Proposing
  <2>2. svc \in [Services -> ServiceType]
    BY DEF Init, ServiceType, Transactions
  <2>3. log \in Seq(Transactions)
    <3> DEFINE T == {Initial(s) : s \in Services}
    <3>1. T \in Transactions /\ log \in {<<>>, <<T>>}
      BY LearntTypes DEF Init
    <3> HIDE DEF T
    <3>2. <<T>> \in Seq(Transactions) /\ <<>> \in Seq(Transactions)
      BY <3>1
    <3> QED BY <3>1, <3>2
  <2> QED BY <2>1, <2>2, <2>3, FS_EmptySet DEF Init, TypeInv
<1>2. TypeInv /\ [Next]_vars => TypeInv'
  <2> SUFFICES ASSUME TypeInv, [Next]_vars PROVE TypeInv'
    OBVIOUS
  <2>1. CASE UNCHANGED vars
    BY <2>1 DEF vars, TypeInv
  <2>2. CASE Next
    BY <2>2, TypeRun, TypeElect, TypeQuorum, TypeOthers DEF Next, DispatchThread
  <2> QED BY <2>1, <2>2
<1> QED BY <1>1, <1>2, PTL DEF Spec

-----------------------------------------------------------------------------
(* Batches are atomic *)

LEMMA ChangesDiffer ==
  /\ \A a, b, s, t : Change(a, s) = Change(b, t) => a = b /\ s = t
  /\ \A a, s, t : Change(a, s) # Initial(t) /\ Change(a, s) # Trimmed(t)
<1>1. \A a, b, s, t : Change(a, s) = Change(b, t) => a = b /\ s = t
  BY DEF Change
<1>2. ASSUME NEW a, NEW s, NEW t
      PROVE  Change(a, s) # Initial(t) /\ Change(a, s) # Trimmed(t)
  <2>1. /\ DOMAIN Change(a, s) = {"op", "svc"} /\ DOMAIN Initial(t) = {"initial", "svc"}
        /\ DOMAIN Trimmed(t) = {"trim", "svc"}
    BY DEF Change, Initial, Trimmed
  <2> QED BY <2>1
<1> QED BY <1>1, <1>2

LEMMA BatchOther ==
  ASSUME NEW op \in BatchOps
  PROVE  /\ op \in Ops /\ op.kind = "batch" /\ op.svc \in Services /\ op.other \in Services
         /\ op.other # op.svc /\ Touched(op) = {op.svc, op.other}
  BY TouchedType DEF BatchOps, Touched

\* What transactions may be put together from.
LEMMA BalancedSets ==
  /\ Balanced({})
  /\ \A T \in Transactions : \A s \in Services : Balanced(T) => Balanced(T \cup {Trimmed(s)})
  /\ Balanced({Initial(s) : s \in Services})
  /\ \A op \in Ops : Balanced({Change(op, s) : s \in Touched(op)})
  /\ \A T \in Transactions : \A s \in Services :
        Balanced(T) /\ Untouched(s) => Balanced(T \cup svc[s].value)
  BY ChangesDiffer, BatchOther DEF Balanced, Whole, Untouched

\* A transaction that is proposed, or that waits
LEMMA BalancedProposal ==
  ASSUME NEW p \in PaxosType, Balanced(Txn(p)), p.value # None => Balanced(p.value)
  PROVE  /\ p.txn # None => /\ Balanced(Txn(Proposed(p)))
                            /\ Proposed(p).value # None => Balanced(Proposed(p).value)
         /\ p.txn # None => /\ Balanced(Txn(Triggered(p)))
                            /\ Triggered(p).value # None => Balanced(Triggered(p).value)
<1>1. ASSUME p.txn # None
      PROVE  /\ Balanced(Txn(Proposed(p)))
             /\ Proposed(p).value # None => Balanced(Proposed(p).value)
  <2>1. Proposed(p).txn = None /\ Proposed(p).value = p.txn /\ Txn(p) = p.txn
    BY <1>1 DEF Proposed, PaxosType, Txn
  <2> QED BY <2>1, BalancedSets DEF Txn
<1> QED BY <1>1 DEF Triggered

\* The state of the pending values and of Paxos that matters to batches
LEMMA BatchKept ==
  ASSUME BatchInv, NoBatch,
         \A s \in Services : svc'[s].value \in {svc[s].value, {}}
                             \/ svc'[s].value = svc[s].value \cup {Initial(s)},
         Txn(px') = Txn(px) \/ Txn(px') = {},
         px'.value = px.value \/ px'.value = None \/ px'.value = uncommitted,
         uncommitted' = uncommitted \/ uncommitted' = None,
         \A i \in DOMAIN log' : Balanced(log'[i])
  PROVE  BatchInv'
<1>1. \A s \in Services : Untouched(s)'
  BY ChangesDiffer DEF NoBatch, Untouched
<1>2. Balanced(Txn(px'))
  BY BalancedSets DEF NoBatch
<1>3. NoBatch'
  BY <1>1, <1>2 DEF NoBatch, Balanced, Whole, Txn
<1> QED BY <1>3 DEF BatchInv, Balanced, Whole

\* In the middle of a batch nothing happens but the next proposal.
LEMMA BatchHasLock ==
  ASSUME TypeInv, Next, NEW op \in BatchOps, BatchBegun(op) \/ BatchPlugged(op)
  PROVE  ProposePending
<1>1. agenda # <<>> /\ Head(agenda) = agenda[1] /\ agenda[1].do \in {"propose", "plugged"}
  BY DEF BatchBegun, BatchPlugged, Call, TypeInv
<1>2. ~LockFree
  BY <1>1 DEF LockFree
<1>3. Run
  BY <1>2 DEF Next, DispatchThread, EndProbing, Flushed, WinElection, LoseElection, CollectDone,
              CommitStart, Lease, LearnCommit, Request, StartElection, CommitFinish, Timeout,
              ProposalTimer, MaybeTrim, DispatchFree
<1> QED BY <1>1, <1>3 DEF Run, Dispatch, Active, FinishContext, FinishRound, KickReadable, RoundRest,
           Restart, Discard, ElectionFinished, FinishElection, ChangeRole

\* propose_pending ends a batch, or its first half.
LEMMA BatchProposePending ==
  ASSUME TypeInv, BatchInv, ProposePending
  PROVE  BatchInv'
<1> DEFINE s == Head(agenda).arg
           q == Append(px.pending, Context("committed", s))
           x == Txn(px) \cup svc[s].value
           p == [px EXCEPT !.txn = x, !.pending = q]
<1>1. agenda # <<>> /\ s \in Services /\ agenda \in Seq(Calls)
  BY HeadType, CallArgs DEF ProposePending, ServiceCalls, TypeInv
<1>2. /\ px \in PaxosType /\ svc \in [Services -> ServiceType] /\ svc[s] \in ServiceType
  BY <1>1 DEF TypeInv
<1>3. q \in Seq(Contexts)
  BY <1>1, <1>2, CallTypes DEF PaxosType
<1>4. x \in Transactions /\ x # None
  BY <1>2, TxnType DEF ServiceType
<1>5. p \in PaxosType /\ p.txn = x /\ p.state = px.state /\ p.value = px.value /\ Txn(p) = x
  <2> HIDE DEF q, x
  <2> QED BY <1>2, <1>3, <1>4 DEF PaxosType, Txn
<1>6. px' = (IF Head(agenda).do = "plugged" THEN p ELSE Triggered(p)) /\ Accepts(px')
      /\ log' = log
  BY DEF ProposePending
<1>7. \A t \in Services : svc'[t].value = IF t = s THEN {} ELSE svc[t].value
  <2>1. svc' = [svc EXCEPT ![s].have_pending = FALSE, ![s].value = {}, ![s].proposing = TRUE,
                           ![s].timer = FALSE]
    BY DEF ProposePending, Encode
  <2> HIDE DEF s
  <2> QED BY <1>1, <1>2, <2>1 DEF ServiceType
<1>8. agenda' = Tail(agenda)
  BY <1>1 DEF ProposePending, Continue
<1> HIDE DEF p, q, x, s
<1>9. ASSUME Balanced(x), \A t \in Services : Untouched(t)'
      PROVE  BatchInv'
  <2>1. /\ Balanced(Txn(px')) /\ (px'.value # None => Balanced(px'.value))
    BY <1>4, <1>5, <1>6, <1>9, BalancedProposal DEF BatchInv
  <2>2. NoBatch'
    BY <1>9, <2>1 DEF NoBatch, Balanced, Whole, Txn
  <2>3. uncommitted' # None => Balanced(uncommitted')
    BY <1>6, <2>1 DEF Accepts, BatchInv
  <2> QED BY <1>6, <2>1, <2>2, <2>3 DEF BatchInv, Balanced, Whole
<1>10. CASE NoBatch
  <2>1. Balanced(x)
    BY <1>1, <1>2, <1>10, BalancedSets, TxnType DEF NoBatch, x, Transactions
  <2>2. \A t \in Services : Untouched(t)'
    BY <1>7, <1>10 DEF NoBatch, Untouched
  <2> QED BY <1>9, <2>1, <2>2
<1>11. ASSUME NEW op \in BatchOps, BatchBegun(op)
       PROVE  BatchInv'
  <2>1. s = op.other /\ Head(agenda).do = "plugged" /\ Len(agenda') >= 1
        /\ agenda'[1] = Call("propose", op.svc)
    BY <1>1, <1>8, <1>11 DEF BatchBegun, Call, s
  <2>2. Txn(px') = x /\ px'.value = px.value
    BY <1>5, <1>6, <2>1
  <2>3. uncommitted' = uncommitted
    BY <1>6, <2>2 DEF Accepts
  <2>4. Change(op, op.other) \in x
    BY <1>1, <1>11, <2>1 DEF BatchBegun, Touching, x
  <2>5. \A o \in BatchOps \ {op} : Whole(o, x)
    BY <1>1, <1>11, <2>1, BatchOther DEF BatchBegun, Touching, Balanced, Whole, x
  <2>6. \A t \in Services : IF t = op.svc THEN Touching(t, op)' ELSE Untouched(t)'
    BY <1>7, <1>11, <2>1, BatchOther DEF BatchBegun, Touching, Untouched
  <2>7. BatchPlugged(op)'
    BY <2>1, <2>2, <2>4, <2>5, <2>6 DEF BatchPlugged, Whole, Txn
  <2> QED BY <1>6, <2>2, <2>3, <2>7 DEF BatchInv, Balanced, Whole
<1>12. ASSUME NEW op \in BatchOps, BatchPlugged(op)
       PROVE  BatchInv'
  <2>1. s = op.svc
    BY <1>1, <1>12 DEF BatchPlugged, Call, s
  <2>2. Balanced(x)
    BY <1>1, <1>12, <2>1, BatchOther DEF BatchPlugged, Touching, Balanced, Whole, x
  <2>3. \A t \in Services : Untouched(t)'
    BY <1>7, <1>12, <2>1 DEF BatchPlugged, Untouched
  <2> QED BY <1>9, <2>2, <2>3
<1> QED BY <1>10, <1>11, <1>12 DEF BatchInv

\* dispatch begins a batch, or makes other changes.
LEMMA BatchDispatch ==
  ASSUME TypeInv, BatchInv, NoBatch, Dispatch
  PROVE  BatchInv'
<1>0. PICK op \in Ops : op = Head(agenda).arg
  BY HeadType, CallArgs DEF Dispatch
<1> DEFINE retry == OpContext("retry", op)
<1>1. agenda # <<>> /\ op.svc \in Services /\ Touched(op) \subseteq Services
      /\ agenda \in Seq(Calls)
  BY TouchedType DEF Dispatch, TypeInv
<1>2. svc \in [Services -> ServiceType] /\ px \in PaxosType
  BY DEF TypeInv
<1>3. UNCHANGED <<log, uncommitted>>
  BY DEF Dispatch
<1>4. ASSUME NEW t \in Services, WaitForActive(t, retry) \/ WaitForReadable(t, retry)
      PROVE  BatchInv'
  <2>1. \A s \in Services : svc'[s].value = svc[s].value
    BY <1>2, <1>4, ZenonT(40) DEF WaitForActive, WaitForReadable, Wait, ServiceType
  <2>2. px'.txn = px.txn /\ px'.value = px.value
    BY <1>2, <1>4 DEF WaitForActive, WaitForReadable, PaxosType
  <2>3. Txn(px') = Txn(px)
    BY <2>2 DEF Txn
  <2> QED BY <1>3, <2>1, <2>2, <2>3, BatchKept DEF BatchInv
<1>5. CASE UNCHANGED <<px, svc>>
  BY <1>3, <1>5, BatchKept DEF BatchInv
<1>6. ASSUME NEW now \in BOOLEAN,
             svc' = [t \in Services |->
               IF t \notin Touched(op) THEN svc[t]
               ELSE [svc[t] EXCEPT
                      !.value = @ \cup {Change(op, t)},
                      !.timer = @ \/ (t = op.svc /\ Prepare(op, now).timer),
                      !.waiting = IF t = op.svc THEN Append(@, OpContext("ack", op)) ELSE @]],
             Continue(Prepare(op, now).calls), UNCHANGED px
      PROVE  BatchInv'
  <2>1. \A t \in Services :
          svc'[t].value = IF t \in Touched(op) THEN svc[t].value \cup {Change(op, t)}
                          ELSE svc[t].value
    BY <1>2, <1>6 DEF ServiceType
  <2>2. CASE op \notin BatchOps
    <3>1. ASSUME NEW s \in Services, NEW o \in BatchOps, NEW t \in Services
          PROVE  Change(o, t) \notin svc'[s].value
      <4>1. Change(o, t) \notin svc[s].value
        BY DEF NoBatch, Untouched
      <4>2. Change(o, t) # Change(op, s)
        BY <2>2, ChangesDiffer
      <4> QED BY <2>1, <4>1, <4>2
    <3>2. NoBatch'
      BY <1>6, <3>1 DEF NoBatch, Untouched, Balanced, Whole, Txn
    <3> QED BY <1>3, <1>6, <3>2 DEF BatchInv, Balanced, Whole
  <2>3. CASE op \in BatchOps
    <3>1. ASSUME NEW s \in Services
          PROVE  IF s \in {op.svc, op.other} THEN Touching(s, op)' ELSE Untouched(s)'
      <4>1. \A o \in BatchOps : \A t \in Services : Change(o, t) \notin svc[s].value
        BY DEF NoBatch, Untouched
      <4>2. \A o \in BatchOps : \A t \in Services : Change(o, t) = Change(op, s) <=> o = op /\ t = s
        BY ChangesDiffer
      <4>3. svc'[s].value = IF s \in {op.svc, op.other} THEN svc[s].value \cup {Change(op, s)}
                            ELSE svc[s].value
        BY <2>1, <2>3, BatchOther
      <4> QED BY <4>1, <4>2, <4>3 DEF Untouched, Touching
    <3>2. Prepare(op, now).calls = <<Call("plugged", op.other), Call("propose", op.svc)>>
      BY <2>3, BatchOther DEF Prepare, BatchCalls
    <3>3. Len(agenda') >= 2 /\ agenda'[1] = Call("plugged", op.other)
          /\ agenda'[2] = Call("propose", op.svc)
      <4> DEFINE n == <<Call("plugged", op.other), Call("propose", op.svc)>>
      <4>1. n \in Seq(Calls) /\ Len(n) = 2
        BY <2>3, BatchOther, CallTypes DEF ServiceCalls
      <4>2. agenda' = n \o Tail(agenda)
        BY <1>6, <3>2 DEF Continue
      <4> QED BY <1>1, <4>1, <4>2, ContinueSeq
    <3>4. BatchBegun(op)'
      BY <1>6, <3>1, <3>3 DEF NoBatch, BatchBegun, Balanced, Whole, Txn
    <3> QED BY <1>3, <1>6, <2>3, <3>4 DEF BatchInv, Balanced, Whole
  <2> QED BY <2>2, <2>3
<1> QED BY <1>0, <1>1, <1>4, <1>5, <1>6, ZenonT(40) DEF Dispatch

\* Calls that put nothing into a pending value but the first one of a service
LEMMA BatchOtherCalls ==
  ASSUME TypeInv, BatchInv, NoBatch, Run, ~Dispatch, ~ProposePending
  PROVE  BatchInv'
<1> DEFINE s == Head(agenda).arg
<1> svc \in [Services -> ServiceType] /\ px \in PaxosType
  BY DEF TypeInv
<1>1. CASE Active
  <2>1. s \in Services
    BY <1>1, HeadType, CallArgs DEF Active, ServiceCalls
  <2> HIDE DEF s
  <2>2. \/ WaitForActive(s, Context("active", s)) \/ UNCHANGED <<px, svc>>
        \/ /\ svc' = [svc EXCEPT ![s].have_pending = TRUE, ![s].value = @ \cup {Initial(s)}]
           /\ UNCHANGED px
        \/ /\ svc' = [svc EXCEPT ![s].have_pending = @ \/ role = "leader", ![s].waiting = <<>>]
           /\ UNCHANGED px
    BY <1>1 DEF Active, s
  <2>3. \A t \in Services : svc'[t].value = svc[t].value
                            \/ svc'[t].value = svc[t].value \cup {Initial(t)}
    <3>1. CASE WaitForActive(s, Context("active", s))
      BY <2>1, <3>1, WaitFields, CallTypes
    <3>2. CASE svc' = [svc EXCEPT ![s].have_pending = TRUE, ![s].value = @ \cup {Initial(s)}]
      BY <2>1, <3>2 DEF ServiceType
    <3>3. CASE svc' = [svc EXCEPT ![s].have_pending = @ \/ role = "leader", ![s].waiting = <<>>]
      BY <2>1, <3>3 DEF ServiceType
    <3> QED BY <2>2, <3>1, <3>2, <3>3
  <2>4. px'.txn = px.txn /\ px'.value = px.value
    BY <2>2 DEF WaitForActive, PaxosType
  <2> QED BY <1>1, <2>3, <2>4, BatchKept DEF Active, BatchInv, Txn
<1>2. CASE FinishContext
  <2>1. PICK c \in Contexts : c = Head(agenda).arg
    BY <1>2, HeadType, CallArgs DEF FinishContext
  <2>2. svc' = IF c.kind = "committed" THEN [svc EXCEPT ![c.svc].proposing = FALSE] ELSE svc
    BY <1>2, <2>1 DEF FinishContext
  <2>3. c.kind = "committed" => c.svc \in Services
    BY DEF Contexts, ServiceContexts, OpContexts
  <2>4. \A t \in Services : svc'[t].value = svc[t].value
    BY <2>2, <2>3 DEF ServiceType
  <2> QED BY <1>2, <2>4, BatchKept DEF FinishContext, BatchInv
<1>3. CASE FinishRound \/ KickReadable
  <2>1. px'.txn = px.txn /\ px'.value = px.value
    BY <1>3 DEF FinishRound, KickReadable, PaxosType
  <2> QED BY <1>3, <2>1, BatchKept DEF FinishRound, KickReadable, BatchInv, Txn
<1>4. CASE RoundRest
  <2>1. px' = px \/ (px.txn # None /\ px' = Proposed(px))
    BY <1>4 DEF RoundRest
  <2>2. /\ Balanced(Txn(px')) /\ (px'.value # None => Balanced(px'.value))
    BY <2>1, BalancedProposal DEF BatchInv, NoBatch
  <2>3. uncommitted' # None => Balanced(uncommitted')
    BY <1>4, <2>2 DEF RoundRest, Accepts, BatchInv
  <2>4. UNCHANGED <<svc, log>>
    BY <1>4 DEF RoundRest
  <2>5. NoBatch'
    BY <2>2, <2>4 DEF NoBatch, Untouched, Balanced, Whole, Txn
  <2> QED BY <2>2, <2>3, <2>4, <2>5 DEF BatchInv, Balanced, Whole
<1>5. CASE Restart \/ Discard \/ ElectionFinished
  <2>1. s \in Services
    BY <1>5, HeadType, CallArgs DEF Restart, Discard, ElectionFinished, ServiceCalls
  <2> HIDE DEF s
  <2>2. \/ svc' = [svc EXCEPT ![s] = Restarted(@)]
        \/ svc' = [svc EXCEPT ![s].have_pending = FALSE, ![s].value = {}, ![s].proposing = FALSE]
        \/ svc' = [svc EXCEPT ![s].waiting = <<>>]
    BY <1>5 DEF Restart, Discard, ElectionFinished, s
  <2>3. \A t \in Services : svc'[t].value \in {svc[t].value, {}}
    <3>1. CASE svc' = [svc EXCEPT ![s] = Restarted(@)]
      BY <2>1, <3>1 DEF Restarted, ServiceType
    <3>2. CASE svc' = [svc EXCEPT ![s].have_pending = FALSE, ![s].value = {}, ![s].proposing = FALSE]
      BY <2>1, <3>2 DEF ServiceType
    <3>3. CASE svc' = [svc EXCEPT ![s].waiting = <<>>]
      BY <2>1, <3>3 DEF ServiceType
    <3> QED BY <2>2, <3>1, <3>2, <3>3
  <2> QED BY <1>5, <2>3, BatchKept DEF Restart, Discard, ElectionFinished, BatchInv
<1>6. CASE FinishElection
  <2>1. px' = IF role = "leader" THEN [px EXCEPT !.txn = Txn(px)] ELSE px
    BY <1>6 DEF FinishElection
  <2>2. Txn(px') = Txn(px) /\ px'.value = px.value
    BY <2>1 DEF Txn, PaxosType
  <2> QED BY <1>6, <2>2, BatchKept DEF FinishElection, BatchInv
<1>7. CASE ChangeRole
  BY <1>7, BatchKept DEF ChangeRole, BatchInv
<1> QED BY <1>1, <1>2, <1>3, <1>4, <1>5, <1>6, <1>7 DEF Run

\* What takes the lock finds no batch under way.
LEMMA BatchLockFree ==
  ASSUME TypeInv, BatchInv, NoBatch, Next, ~Run
  PROVE  BatchInv'
<1> svc \in [Services -> ServiceType] /\ px \in PaxosType /\ log \in Seq(Transactions)
  BY DEF TypeInv
<1>1. ASSUME NEW then, Reset(then)
      PROVE  Txn(px') = {} /\ px'.value = None
  BY <1>1 DEF Reset, PaxosType, Txn
<1>2. CASE Timeout \/ StartElection \/ EndProbing \/ Flushed
  <2>1. UNCHANGED <<svc, log, uncommitted>>
    BY <1>2 DEF Timeout, StartElection, EndProbing, Flushed, Elect
  <2>2. (Txn(px') = {} /\ px'.value = None) \/ UNCHANGED px
    BY <1>1, <1>2 DEF Timeout, StartElection, EndProbing, Flushed, Elect, Bootstrap
  <2> QED BY <2>1, <2>2, BatchKept DEF BatchInv
<1>3. CASE WinElection \/ LoseElection \/ \E op \in Ops : Request(op)
  BY <1>3, BatchKept DEF WinElection, LoseElection, Request, BatchInv
<1>4. CASE CollectDone
  <2>1. px'.txn = px.txn /\ (px'.value = px.value \/ px'.value = uncommitted)
    BY <1>4 DEF CollectDone, PaxosType
  <2> QED BY <1>4, <2>1, BatchKept DEF CollectDone, BatchInv, Txn
<1>5. CASE CommitStart \/ Lease
  <2>1. px'.txn = px.txn /\ px'.value = px.value
    BY <1>5 DEF CommitStart, Lease, PaxosType
  <2> QED BY <1>5, <2>1, BatchKept DEF CommitStart, Lease, BatchInv, Txn
<1>6. ASSUME NEW T \in Transactions, Balanced(T), log' = Append(log, T)
      PROVE  \A i \in DOMAIN log' : Balanced(log'[i])
  BY <1>6 DEF BatchInv
<1>7. CASE LearnCommit
  <2>1. PICK T \in Transactions : Balanced(T) /\ log' = Append(log, T)
    BY <1>7, LearntTypes, BalancedSets DEF LearnCommit, TypeInv, BatchInv
  <2>2. uncommitted' = None /\ UNCHANGED <<px, svc>>
    BY <1>7 DEF LearnCommit
  <2> QED BY <1>6, <2>1, <2>2, BatchKept
<1>8. CASE CommitFinish
  <2>1. px.value \in Transactions /\ Balanced(px.value) /\ log' = Append(log, px.value)
        /\ uncommitted' = None /\ UNCHANGED svc
    BY <1>8 DEF CommitFinish, PaxosType, Proposing, BatchInv, TypeInv
  <2>2. CASE px' = [px EXCEPT !.state = "refresh", !.value = None, !.committing = <<>>]
    <3>1. px'.txn = px.txn /\ px'.value = None
      BY <2>2 DEF PaxosType
    <3> QED BY <1>6, <2>1, <3>1, BatchKept DEF Txn
  <2>3. CASE Bootstrap
    BY <1>1, <1>6, <2>1, <2>3, BatchKept DEF Bootstrap
  <2> QED BY <1>8, <2>2, <2>3 DEF CommitFinish
<1>9. ASSUME NEW s \in Services, ProposalTimer(s)
      PROVE  BatchInv'
  <2>1. \A t \in Services : svc'[t].value = svc[t].value
    BY <1>9 DEF ProposalTimer, ServiceType
  <2> QED BY <1>9, <2>1, BatchKept DEF ProposalTimer, BatchInv
<1>10. ASSUME NEW s \in Services, MaybeTrim(s)
       PROVE  BatchInv'
  <2> DEFINE x == Txn(px) \cup {Trimmed(s)}
             p == [px EXCEPT !.txn = x]
  <2>1. x \in Transactions /\ x # None /\ Txn(px) \in Transactions
    <3>1. {Trimmed(s)} \in Transactions
      BY ChangeTypes DEF Transactions
    <3> QED BY <3>1, TxnType
  <2>2. Balanced(x)
    BY <2>1, BalancedSets DEF NoBatch
  <2>3. p \in PaxosType /\ Txn(p) = x /\ p.txn # None /\ p.value = px.value
    <3> HIDE DEF x
    <3> QED BY <2>1 DEF PaxosType, Txn
  <2>4. px' = Triggered(p) /\ Accepts(px') /\ UNCHANGED <<svc, log>>
    BY <1>10 DEF MaybeTrim
  <2> HIDE DEF p, x
  <2>5. /\ Balanced(Txn(px')) /\ (px'.value # None => Balanced(px'.value))
    BY <2>2, <2>3, <2>4, BalancedProposal DEF BatchInv
  <2>6. uncommitted' # None => Balanced(uncommitted')
    BY <2>4, <2>5 DEF Accepts, BatchInv
  <2>7. NoBatch'
    BY <2>4, <2>5 DEF NoBatch, Untouched, Balanced, Whole, Txn
  <2> QED BY <2>4, <2>5, <2>6, <2>7 DEF BatchInv, Balanced, Whole
<1> QED BY <1>2, <1>3, <1>4, <1>5, <1>7, <1>8, <1>9, <1>10 DEF Next, DispatchThread

\* BatchIsAtomic: the changes that one command makes to two services (osd destroy,
\* osd new) are committed in one transaction or not at all.  The command holds the
\* lock from its first change to its proposal, and Paxos is plugged meanwhile.
THEOREM BatchAtomic == Spec => []BatchIsAtomic
<1>1. Init => BatchInv
  <2> SUFFICES ASSUME Init PROVE BatchInv
    OBVIOUS
  <2>1. \A i \in DOMAIN log : Balanced(log[i])
    <3> DEFINE T == {Initial(s) : s \in Services}
    <3>1. Balanced(T) /\ log \in {<<>>, <<T>>}
      BY BalancedSets DEF Init
    <3> HIDE DEF T
    <3> QED BY <3>1
  <2>2. Txn(px) = {} /\ px.value = None /\ uncommitted = None
    BY DEF Init, Txn
  <2>3. NoBatch
    BY <2>2, BalancedSets DEF Init, NoBatch, Untouched
  <2> QED BY <2>1, <2>2, <2>3 DEF BatchInv
<1>2. TypeInv /\ BatchInv /\ [Next]_vars => BatchInv'
  <2> SUFFICES ASSUME TypeInv, BatchInv, [Next]_vars PROVE BatchInv'
    OBVIOUS
  <2>1. CASE UNCHANGED vars
    BY <2>1 DEF vars, BatchInv, NoBatch, BatchBegun, BatchPlugged, Balanced, Whole, Untouched,
                Touching, Txn
  <2>2. CASE Next /\ NoBatch
    BY <2>2, BatchProposePending, BatchDispatch, BatchOtherCalls, BatchLockFree
  <2>3. CASE Next /\ ~NoBatch
    BY <2>3, BatchHasLock, BatchProposePending DEF BatchInv
  <2> QED BY <2>1, <2>2, <2>3
<1>3. BatchInv => BatchIsAtomic
  BY DEF BatchInv, BatchIsAtomic, Balanced, Whole, BatchOps
<1> QED BY <1>1, <1>2, <1>3, ServiceTypes, PTL DEF Spec
=============================================================================
