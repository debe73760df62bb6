------------------------- MODULE ServiceCommitProofs -------------------------
(***************************************************************************)
(* What a client is told, and the order of changes that belong together,    *)
(* for any number of services and requests and every value of the bounds.   *)
(*                                                                          *)
(* A change goes from the pending value of its service into the transaction *)
(* of Paxos, into the value that is proposed, and into the log.  While the  *)
(* monitor is in a quorum it is never lost on the way, and the change of    *)
(* the other service is never behind it.                                    *)
(***************************************************************************)
EXTENDS ServiceLifeProofs

-----------------------------------------------------------------------------
(* The way of a change to the log *)

Logged(op, s) == \E i \in DOMAIN log : Change(op, s) \in log[i]
UnderWay(op, s) == px.value # None /\ Change(op, s) \in px.value
Encoded(op, s) == Change(op, s) \in Txn(px)
Pending(op, s) == Change(op, s) \in svc[s].value

\* The change of the other service is at least as far as ...
OtherProposed(op) == op.kind \in {"cross", "batch"} => UnderWay(op, op.other) \/ Logged(op, op.other)
OtherEncoded(op) ==
  op.kind \in {"cross", "batch"} => Encoded(op, op.other) \/ UnderWay(op, op.other) \/ Logged(op, op.other)
OtherPending(op) ==
  \/ OtherEncoded(op)
  \/ /\ Pending(op, op.other)
     /\ agenda # <<>> /\ Proposes(agenda[1]) /\ agenda[1].arg = op.other

\* One that will be acknowledged is on its way.
OnItsWay(op) ==
  \/ Pending(op, op.svc) /\ OtherPending(op)
  \/ /\ Encoded(op, op.svc) /\ Context("committed", op.svc) \in Range(px.pending)
     /\ OtherEncoded(op)
  \/ /\ UnderWay(op, op.svc) /\ Context("committed", op.svc) \in Range(px.committing)
     /\ OtherProposed(op)
  \/ \A s \in Touched(op) : Logged(op, s)

AckInv ==
  /\ \A s \in Services : \A c \in Range(svc[s].waiting) :
       c.kind = "ack" => c.op.svc = s /\ (Resetting \/ OnItsWay(c.op))
  /\ \A op \in Ops : Call("finish", OpContext("ack", op)) \in Todo =>
       \A s \in Touched(op) : Logged(op, s)
  /\ AckedIsCommitted

OrderInv ==
  \A op \in Ops : op.kind = "cross" =>
    /\ \A i \in DOMAIN log : Change(op, op.svc) \in log[i] =>
         \E j \in 1 .. i : Change(op, op.other) \in log[j]
    /\ uncommitted # None /\ Change(op, op.svc) \in uncommitted =>
         Change(op, op.other) \in uncommitted \/ Logged(op, op.other)
    /\ UnderWay(op, op.svc) => OtherProposed(op)
    /\ Encoded(op, op.svc) => OtherEncoded(op)
    /\ Pending(op, op.svc) => Resetting \/ OtherPending(op)


-----------------------------------------------------------------------------
(* Steps of Paxos *)

Grows == \A op \in Ops : \A s \in Services : Logged(op, s) => Logged(op, s)'

\* Nothing is proposed and nothing is committed, but more may come into the transaction.
Keeps ==
  /\ Grows /\ (px.value # None => px'.value = px.value) /\ Txn(px) \subseteq Txn(px')
  /\ Range(px.pending) \subseteq Range(px'.pending) /\ Range(px.committing) \subseteq Range(px'.committing)

\* A transaction that holds what was pending is proposed.
Begins ==
  /\ Grows /\ px.value = None /\ px'.value # None /\ Txn(px) \subseteq px'.value
  /\ Range(px.pending) \subseteq Range(px'.committing)

\* The value is committed.
Commits ==
  /\ Grows /\ px.value # None /\ \A op \in Ops : \A s \in Services : UnderWay(op, s) => Logged(op, s)'
  /\ Txn(px') = Txn(px) /\ Range(px.pending) \subseteq Range(px'.pending)

\* A change goes forward.
LEMMA Forward ==
  ASSUME Keeps \/ Begins \/ Commits, NEW op \in Ops, NEW s \in Services
  PROVE  /\ UnderWay(op, s) => UnderWay(op, s)' \/ Logged(op, s)'
         /\ Encoded(op, s) => Encoded(op, s)' \/ UnderWay(op, s)'
         /\ Begins => ~UnderWay(op, s) /\ (Encoded(op, s) => UnderWay(op, s)')
         /\ Logged(op, s) => Logged(op, s)'
<1>1. CASE Keeps
  BY <1>1 DEF Keeps, Grows, Begins, UnderWay, Encoded
<1>2. CASE Begins
  BY <1>2 DEF Begins, Grows, UnderWay, Encoded
<1>3. CASE Commits
  BY <1>3 DEF Commits, Grows, Begins, UnderWay, Encoded
<1> QED BY <1>1, <1>2, <1>3

LEMMA OthersForward ==
  ASSUME Keeps \/ Begins \/ Commits, NEW op \in Ops
  PROVE  /\ OtherProposed(op) => OtherProposed(op)'
         /\ OtherEncoded(op) => OtherEncoded(op)'
         /\ OtherEncoded(op) /\ Begins => OtherProposed(op)'
         /\ OtherProposed(op) /\ Commits => (op.kind \in {"cross", "batch"} => Logged(op, op.other)')
<1>1. CASE op.kind \notin {"cross", "batch"}
  BY <1>1 DEF OtherProposed, OtherEncoded
<1>2. CASE op.kind \in {"cross", "batch"}
  <2>1. op.other \in Services
    BY <1>2, TouchedType
  <2>2. /\ UnderWay(op, op.other) => UnderWay(op, op.other)' \/ Logged(op, op.other)'
        /\ Encoded(op, op.other) => Encoded(op, op.other)' \/ UnderWay(op, op.other)'
        /\ Begins => ~UnderWay(op, op.other) /\ (Encoded(op, op.other) => UnderWay(op, op.other)')
        /\ Logged(op, op.other) => Logged(op, op.other)'
    BY <2>1, Forward
  <2>3. Commits /\ UnderWay(op, op.other) => Logged(op, op.other)'
    BY <2>1 DEF Commits
  <2> QED BY <1>2, <2>2, <2>3 DEF OtherProposed, OtherEncoded
<1> QED BY <1>1, <1>2

\* So does one that will be acknowledged.
LEMMA WayForward ==
  ASSUME Keeps \/ Begins \/ Commits, NEW op \in Ops, OnItsWay(op),
         Pending(op, op.svc) /\ OtherPending(op) =>
           \/ Pending(op, op.svc)' /\ OtherPending(op)'
           \/ Encoded(op, op.svc)' /\ (Context("committed", op.svc) \in Range(px.pending))' /\ OtherEncoded(op)'
           \/ UnderWay(op, op.svc)' /\ (Context("committed", op.svc) \in Range(px.committing))' /\ OtherProposed(op)'
  PROVE  OnItsWay(op)'
<1>0. op.svc \in Services /\ Touched(op) \subseteq Services
      /\ \A s \in Touched(op) : s = op.svc \/ (op.kind \in {"cross", "batch"} /\ s = op.other)
  BY TouchedType DEF Touched
<1>1. CASE Pending(op, op.svc) /\ OtherPending(op)
  BY <1>1 DEF OnItsWay, Context
<1>2. CASE /\ Encoded(op, op.svc) /\ Context("committed", op.svc) \in Range(px.pending) /\ OtherEncoded(op)
  <2>1. CASE Begins
    <3>1. UnderWay(op, op.svc)' /\ OtherProposed(op)' /\ Context("committed", op.svc) \in Range(px'.committing)
      BY <1>0, <1>2, <2>1, Forward, OthersForward DEF Begins
    <3> QED BY <3>1 DEF OnItsWay, Context
  <2>2. CASE Keeps \/ Commits
    <3>1. Encoded(op, op.svc)' /\ OtherEncoded(op)' /\ Context("committed", op.svc) \in Range(px'.pending)
      BY <1>2, <2>2, OthersForward DEF Keeps, Commits, Encoded
    <3> QED BY <3>1 DEF OnItsWay, Context
  <2> QED BY <2>1, <2>2
<1>3. CASE /\ UnderWay(op, op.svc) /\ Context("committed", op.svc) \in Range(px.committing) /\ OtherProposed(op)
  <2>1. CASE Keeps
    <3>1. UnderWay(op, op.svc)' /\ OtherProposed(op)' /\ Context("committed", op.svc) \in Range(px'.committing)
      BY <1>3, <2>1, OthersForward DEF Keeps, UnderWay
    <3> QED BY <3>1 DEF OnItsWay, Context
  <2>2. CASE Commits
    <3>1. Logged(op, op.svc)' /\ (op.kind \in {"cross", "batch"} => Logged(op, op.other)')
      BY <1>0, <1>3, <2>2, OthersForward DEF Commits
    <3>2. \A s \in Touched(op) : Logged(op, s)'
      BY <1>0, <3>1
    <3> QED BY <3>2 DEF OnItsWay, Touched
  <2>3. ~Begins
    BY <1>3 DEF Begins, UnderWay
  <2> QED BY <2>1, <2>2, <2>3
<1>4. CASE \A s \in Touched(op) : Logged(op, s)
  <2>1. \A s \in Touched(op) : Logged(op, s)'
    BY <1>0, <1>4, Forward
  <2> QED BY <2>1 DEF OnItsWay, Touched
<1> QED BY <1>1, <1>2, <1>3, <1>4 DEF OnItsWay

-----------------------------------------------------------------------------
(* What a step has to establish *)

AckCall(op) == Call("finish", OpContext("ack", op))
AllLogged(op) == \A s \in Touched(op) : Logged(op, s)

LEMMA AckContexts ==
  ASSUME TypeInv, NEW s \in Services, NEW c \in Range(svc[s].waiting), c.kind = "ack"
  PROVE  c.op \in Ops /\ c = OpContext("ack", c.op)
<1>1. c \in Contexts
  BY DEF TypeInv, ServiceType, Range
<1> QED BY <1>1 DEF Contexts, ServiceContexts, OpContexts, OpContext

\* The acknowledgements
AckStep ==
  /\ \A s \in Services : \A c \in Range(svc'[s].waiting) : c.kind = "ack" =>
       \/ /\ c \in Range(svc[s].waiting)
          /\ Resetting' \/ (~Resetting /\ (OnItsWay(c.op) => OnItsWay(c.op)'))
       \/ c.op.svc = s /\ OnItsWay(c.op)'
  /\ \A op \in Ops : (AckCall(op) \in Todo)' => AckCall(op) \in Todo \/ AllLogged(op)
  /\ \A op \in acked' : op \in acked \/ AllLogged(op)'

LEMMA AckSteps ==
  ASSUME TypeInv, AckInv, Grows, AckStep
  PROVE  AckInv'
<1>1. \A op \in Ops : AllLogged(op) => AllLogged(op)'
  BY TouchedType DEF AllLogged, Grows, Touched
<1>2. ASSUME NEW s \in Services, NEW c \in Range(svc'[s].waiting), c.kind = "ack"
      PROVE  c.op.svc = s /\ (Resetting \/ OnItsWay(c.op))'
  <2>1. CASE c \in Range(svc[s].waiting) /\ (Resetting' \/ (~Resetting /\ (OnItsWay(c.op) => OnItsWay(c.op)')))
    BY <1>2, <2>1 DEF AckInv
  <2>2. CASE c.op.svc = s /\ OnItsWay(c.op)'
    BY <2>2
  <2> QED BY <1>2, <2>1, <2>2 DEF AckStep
<1>3. ASSUME NEW op \in Ops, Call("finish", OpContext("ack", op)) \in Todo'
      PROVE  \A s \in Touched(op) : Logged(op, s)'
  <2>1. AckCall(op) \in Todo \/ AllLogged(op)
    BY <1>3 DEF AckStep, AckCall, Call, OpContext
  <2>2. AllLogged(op)
    BY <2>1 DEF AckInv, AckCall, AllLogged
  <2> QED BY <1>1, <2>2 DEF AllLogged, Touched
<1>4. AckedIsCommitted'
  <2>1. ASSUME NEW op \in acked' PROVE \A s \in Touched(op) : Logged(op, s)'
    <3>1. CASE op \in acked
      <4>1. op \in Ops /\ AllLogged(op)
        BY <3>1 DEF TypeInv, AckInv, AckedIsCommitted, AllLogged, Logged
      <4> QED BY <1>1, <4>1 DEF AllLogged, Touched
    <3>2. CASE AllLogged(op)'
      BY <3>2 DEF AllLogged, Touched
    <3> QED BY <3>1, <3>2 DEF AckStep
  <2> QED BY <2>1 DEF AckedIsCommitted, Logged, Touched, Change
<1> QED BY <1>2, <1>3, <1>4 DEF AckInv, Call, OpContext, Touched

\* The log and the order of the changes
LogStep ==
  \/ log' = log
  \/ \E T \in Transactions :
       /\ log' = Append(log, T)
       /\ \A op \in Ops : op.kind = "cross" /\ Change(op, op.svc) \in T =>
            Change(op, op.other) \in T \/ Logged(op, op.other)

OrderStep ==
  \A op \in Ops : op.kind = "cross" =>
    /\ UnderWay(op, op.svc)' => OtherProposed(op)'
    /\ Encoded(op, op.svc)' => OtherEncoded(op)'
    /\ Pending(op, op.svc)' => Resetting' \/ OtherPending(op)'

LEMMA LogGrows ==
  ASSUME TypeInv, NEW T \in Transactions, log' = Append(log, T)
  PROVE  /\ Grows /\ \A op, s : Change(op, s) \in T => Logged(op, s)'
         /\ log \in Seq(Transactions) /\ Len(log) \in Nat /\ DOMAIN log = 1 .. Len(log)
         /\ DOMAIN log' = 1 .. (Len(log) + 1)
         /\ log'[Len(log) + 1] = T /\ \A i \in 1 .. Len(log) : log'[i] = log[i]
<1>1. /\ log \in Seq(Transactions) /\ Len(log) \in Nat /\ DOMAIN log = 1 .. Len(log)
      /\ DOMAIN log' = 1 .. (Len(log) + 1)
      /\ log'[Len(log) + 1] = T /\ \A i \in 1 .. Len(log) : log'[i] = log[i]
  BY DEF TypeInv
<1>2. \A op, s : Change(op, s) \in T => Logged(op, s)'
  BY <1>1 DEF Logged, Change
<1>3. Grows
  <2>1. ASSUME NEW op \in Ops, NEW s \in Services, NEW i \in DOMAIN log, Change(op, s) \in log[i]
        PROVE  \E j \in DOMAIN log' : Change(op, s) \in log'[j]
    BY <1>1, <2>1
  <2> QED BY <2>1 DEF Grows, Logged, Change
<1> QED BY <1>1, <1>2, <1>3

LEMMA LogGrowth ==
  ASSUME TypeInv, LogStep
  PROVE  Grows
<1>1. CASE log' = log
  BY <1>1 DEF Grows, Logged, Change
<1> QED BY <1>1, LogGrows DEF LogStep

LEMMA OrderSteps ==
  ASSUME TypeInv, OrderInv, LogStep, OrderStep, uncommitted' \in {uncommitted, None, px'.value}
  PROVE  OrderInv'
<1>0. Grows
  BY LogGrowth
<1> SUFFICES ASSUME NEW op \in Ops, op.kind = "cross"
             PROVE  /\ \A i \in DOMAIN log' : Change(op, op.svc) \in log'[i] =>
                         \E j \in 1 .. i : Change(op, op.other) \in log'[j]
                    /\ uncommitted' # None /\ Change(op, op.svc) \in uncommitted' =>
                         Change(op, op.other) \in uncommitted' \/ Logged(op, op.other)'
                    /\ UnderWay(op, op.svc)' => OtherProposed(op)'
                    /\ Encoded(op, op.svc)' => OtherEncoded(op)'
                    /\ Pending(op, op.svc)' => Resetting' \/ OtherPending(op)'
  BY DEF OrderInv, Change
<1>1. op.other \in Services /\ (Logged(op, op.other) => Logged(op, op.other)')
  BY <1>0, TouchedType DEF Grows
<1>2. ASSUME NEW i \in DOMAIN log', Change(op, op.svc) \in log'[i]
      PROVE  \E j \in 1 .. i : Change(op, op.other) \in log'[j]
  <2>1. CASE log' = log
    BY <1>2, <2>1 DEF OrderInv
  <2>2. ASSUME NEW T \in Transactions, log' = Append(log, T),
               Change(op, op.svc) \in T => Change(op, op.other) \in T \/ Logged(op, op.other)
        PROVE  \E j \in 1 .. i : Change(op, op.other) \in log'[j]
    <3>0. /\ Len(log) \in Nat /\ DOMAIN log = 1 .. Len(log) /\ DOMAIN log' = 1 .. (Len(log) + 1)
          /\ log'[Len(log) + 1] = T /\ \A k \in 1 .. Len(log) : log'[k] = log[k]
      BY <2>2, LogGrows
    <3>1. CASE i \in 1 .. Len(log)
      <4>1. Change(op, op.svc) \in log[i] /\ i \in DOMAIN log
        BY <1>2, <3>0, <3>1
      <4>2. PICK j \in 1 .. i : Change(op, op.other) \in log[j]
        BY <4>1 DEF OrderInv
      <4>3. j \in 1 .. Len(log)
        BY <3>0, <3>1
      <4> QED BY <3>0, <4>2, <4>3
    <3>2. CASE i = Len(log) + 1
      <4>1. Change(op, op.other) \in T \/ Logged(op, op.other)
        BY <1>2, <2>2, <3>0, <3>2
      <4>2. CASE Change(op, op.other) \in T
        BY <3>0, <3>2, <4>2
      <4>3. CASE Logged(op, op.other)
        <5>1. PICK j \in DOMAIN log : Change(op, op.other) \in log[j]
          BY <4>3 DEF Logged
        <5>2. j \in 1 .. i /\ log'[j] = log[j]
          BY <3>0, <3>2
        <5> QED BY <5>1, <5>2
      <4> QED BY <4>1, <4>2, <4>3
    <3> QED BY <1>2, <3>0, <3>1, <3>2
  <2> QED BY <2>1, <2>2 DEF LogStep
<1>3. ASSUME uncommitted' # None, Change(op, op.svc) \in uncommitted'
      PROVE  Change(op, op.other) \in uncommitted' \/ Logged(op, op.other)'
  <2>1. CASE uncommitted' = uncommitted
    BY <1>1, <1>3, <2>1 DEF OrderInv
  <2>2. CASE uncommitted' = px'.value
    <3>1. UnderWay(op, op.svc)'
      BY <1>3, <2>2 DEF UnderWay, Change
    <3>2. OtherProposed(op)'
      BY <3>1 DEF OrderStep
    <3> QED BY <2>2, <3>2 DEF OtherProposed, UnderWay, Change
  <2> QED BY <1>3, <2>1, <2>2
<1> QED BY <1>2, <1>3 DEF OrderStep

\* A step of a monitor in a quorum that leaves the pending values alone
LEMMA WayQuiet ==
  ASSUME Life, ~Resetting, ~Resetting', AckInv, OrderInv,
         agenda = <<>> \/ ~Proposes(Head(agenda)),
         \A op \in Ops : \A s \in Services : Pending(op, s)' <=> Pending(op, s),
         Keeps \/ Begins \/ Commits,
         \A op \in Ops : \A s \in Services : Encoded(op, s)' => Encoded(op, s),
         \A op \in Ops : UnderWay(op, op.svc)' =>
           UnderWay(op, op.svc) \/ (Begins /\ Encoded(op, op.svc)) \/ (op.kind = "cross" => OtherProposed(op)'),
         LogStep, uncommitted' \in {uncommitted, None, px'.value},
         \A s \in Services : \A c \in Range(svc'[s].waiting) : c.kind = "ack" => c \in Range(svc[s].waiting),
         \A op \in Ops : (AckCall(op) \in Todo)' => AckCall(op) \in Todo \/ AllLogged(op),
         \A op \in acked' : op \in acked \/ AllLogged(op)'
  PROVE  AckInv' /\ OrderInv'
<1>0. TypeInv /\ Grows
  BY LogGrowth DEF Life
<1>1. \A op \in Ops : OtherPending(op) => OtherEncoded(op) /\ OtherPending(op)'
  <2> TAKE op \in Ops
  <2>1. agenda # <<>> => agenda[1] = Head(agenda)
    BY <1>0, HeadType
  <2>2. OtherPending(op) => OtherEncoded(op)
    BY <2>1 DEF OtherPending
  <2>3. OtherEncoded(op)' => OtherPending(op)'
    BY DEF OtherPending
  <2> QED BY <2>2, <2>3, OthersForward
<1>2. \A op \in Ops : OnItsWay(op) => OnItsWay(op)'
  <2> SUFFICES ASSUME NEW op \in Ops, OnItsWay(op) PROVE OnItsWay(op)'
    OBVIOUS
  <2>1. Pending(op, op.svc) /\ OtherPending(op) => Pending(op, op.svc)' /\ OtherPending(op)'
    BY <1>1, TouchedType
  <2> QED BY <2>1, WayForward
<1>3. AckInv'
  <2>1. AckStep
    BY <1>0, <1>2, AckContexts DEF AckStep
  <2> QED BY <1>0, <2>1, AckSteps
<1>4. OrderStep
  <2> SUFFICES ASSUME NEW op \in Ops, op.kind = "cross"
               PROVE  /\ UnderWay(op, op.svc)' => OtherProposed(op)'
                      /\ Encoded(op, op.svc)' => OtherEncoded(op)'
                      /\ Pending(op, op.svc)' => Resetting' \/ OtherPending(op)'
    BY DEF OrderStep
  <2>0. op.svc \in Services
    BY TouchedType
  <2>1. UnderWay(op, op.svc)' => OtherProposed(op)'
    <3>1. UnderWay(op, op.svc) => OtherProposed(op)
      BY DEF OrderInv
    <3>2. Encoded(op, op.svc) => OtherEncoded(op)
      BY DEF OrderInv
    <3> QED BY <3>1, <3>2, OthersForward
  <2>2. Encoded(op, op.svc)' => OtherEncoded(op)'
    <3>1. Encoded(op, op.svc) => OtherEncoded(op)
      BY DEF OrderInv
    <3> QED BY <2>0, <3>1, OthersForward
  <2>3. Pending(op, op.svc)' => OtherPending(op)'
    <3>1. Pending(op, op.svc) => OtherPending(op)
      BY DEF OrderInv
    <3> QED BY <1>1, <2>0, <3>1
  <2> QED BY <2>1, <2>2, <2>3
<1> QED BY <1>0, <1>3, <1>4, OrderSteps

\* A step that leaves the monitor out of a quorum
LEMMA WayLeaving ==
  ASSUME Life, Life', Resetting', AckInv, OrderInv, LogStep, uncommitted' \in {uncommitted, None},
         \A s \in Services : \A c \in Range(svc'[s].waiting) : c.kind = "ack" => c \in Range(svc[s].waiting),
         acked' = acked
  PROVE  AckInv' /\ OrderInv'
<1>0. TypeInv /\ Grows
  BY LogGrowth DEF Life
<1>1. /\ px'.value = None /\ px'.txn = None
      /\ \A c \in Todo' : c.do \in {"again", "dispatch", "restart", "discard", "role"}
  BY DEF Life, Leaving
<1>2. AckInv'
  <2>1. \A op \in Ops : ~(AckCall(op) \in Todo)'
    BY <1>1 DEF AckCall, Call
  <2>2. AckStep
    BY <2>1 DEF AckStep
  <2> QED BY <1>0, <2>2, AckSteps
<1>3. OrderStep
  BY <1>1 DEF OrderStep, UnderWay, Encoded, Txn
<1> QED BY <1>0, <1>2, <1>3, OrderSteps

-----------------------------------------------------------------------------
(* Out of a quorum *)

NoNewAcks ==
  \A s \in Services : \A c \in Range(svc'[s].waiting) : c.kind = "ack" => c \in Range(svc[s].waiting)

LEMMA WaitAcks ==
  ASSUME TypeInv, NEW s \in Services, NEW c \in Contexts, c.kind # "ack",
         WaitForActive(s, c) \/ WaitForReadable(s, c)
  PROVE  NoNewAcks
<1>1. \A t \in Services : svc'[t].waiting = svc[t].waiting \/ svc'[t].waiting = Append(svc[t].waiting, c)
  BY WaitFields
<1>2. \A t \in Services : svc[t].waiting \in Seq(Contexts)
  BY DEF TypeInv, ServiceType
<1>3. \A t \in Services : Range(Append(svc[t].waiting, c)) = Range(svc[t].waiting) \cup {c}
  BY <1>2, CountContexts
<1>4. ASSUME NEW t \in Services, NEW x \in Range(svc'[t].waiting), x.kind = "ack"
      PROVE  x \in Range(svc[t].waiting)
  <2>1. CASE svc'[t].waiting = svc[t].waiting
    BY <1>4, <2>1
  <2>2. CASE svc'[t].waiting = Append(svc[t].waiting, c)
    <3>1. x \in Range(svc[t].waiting) \cup {c}
      BY <1>3, <1>4, <2>2
    <3> QED BY <1>4, <3>1
  <2> QED BY <1>1, <2>1, <2>2
<1> QED BY <1>4 DEF NoNewAcks

LEMMA WaySame ==
  ASSUME AckInv, OrderInv, UNCHANGED <<role, px, svc, log, uncommitted, acked, agenda>>
  PROVE  AckInv' /\ OrderInv'
<1>1. \A op, s : /\ Logged(op, s)' = Logged(op, s) /\ UnderWay(op, s)' = UnderWay(op, s)
                 /\ Encoded(op, s)' = Encoded(op, s) /\ Pending(op, s)' = Pending(op, s)
  BY DEF Logged, UnderWay, Encoded, Pending, Change, Txn
<1>2. \A op : /\ OtherProposed(op)' = OtherProposed(op) /\ OtherEncoded(op)' = OtherEncoded(op)
  BY <1>1 DEF OtherProposed, OtherEncoded
<1>3. \A op : OtherPending(op)' = OtherPending(op)
  BY <1>1, <1>2 DEF OtherPending
<1>4. \A op : OnItsWay(op)' = OnItsWay(op)
  BY <1>1, <1>2, <1>3 DEF OnItsWay, Touched, Context
<1>5. Todo' = Todo /\ Resetting' = Resetting
  BY DEF Todo, Resetting, Does
<1>6. AckInv'
  BY <1>1, <1>4, <1>5 DEF AckInv, AckedIsCommitted, Touched, Call, OpContext, Change
<1>7. OrderInv'
  BY <1>1, <1>2, <1>3, <1>5 DEF OrderInv, Change
<1> QED BY <1>6, <1>7

LEMMA WayLeavingRun ==
  ASSUME Life, Life', Resetting, AckInv, OrderInv, Run
  PROVE  AckInv' /\ OrderInv'
<1>0. TypeInv /\ TypeInv' /\ Leaving
  BY DEF Life
<1>1. Resetting'
  BY <1>0, LeavingRun
<1>2. agenda # <<>> /\ Head(agenda) \in Calls
      /\ Head(agenda).do \in {"again", "dispatch", "restart", "discard", "role"}
  <2>1. agenda # <<>>
    BY DEF Run, Dispatch, ProposePending, Active, FinishContext, FinishRound, KickReadable, RoundRest,
           Restart, Discard, ElectionFinished, FinishElection, ChangeRole
  <2> QED BY <1>0, <2>1, CallsDone DEF Leaving
<1>3. svc \in [Services -> ServiceType]
  BY <1>0 DEF TypeInv
<1>4. NoNewAcks /\ log' = log /\ uncommitted' = uncommitted /\ acked' = acked
  <2>1. CASE Dispatch
    <3>0. PICK op \in Ops : op = Head(agenda).arg
      BY <1>2, <2>1, CallArgs DEF Dispatch
    <3> DEFINE c == OpContext("retry", op)
    <3>1. WaitForReadable(op.svc, c) /\ log' = log /\ uncommitted' = uncommitted /\ acked' = acked
      BY <1>0, <2>1, <3>0 DEF Dispatch, IsReadable, Leaving
    <3>2. op.svc \in Services /\ c \in Contexts /\ c.kind = "retry"
      BY TouchedType, CallTypes DEF OpContext
    <3> HIDE DEF c
    <3> QED BY <1>0, <3>1, <3>2, WaitAcks
  <2>2. CASE FinishContext
    <3>1. PICK c \in Contexts : c = Head(agenda).arg
      BY <1>2, <2>2, CallArgs DEF FinishContext
    <3>2. c.kind = "committed" => c.svc \in Services
      BY DEF Contexts, ServiceContexts, OpContexts
    <3>3. /\ svc' = (IF c.kind = "committed" THEN [svc EXCEPT ![c.svc].proposing = FALSE] ELSE svc)
          /\ log' = log /\ uncommitted' = uncommitted /\ acked' = acked
      BY <1>2, <2>2, <3>1 DEF FinishContext
    <3>4. \A s \in Services : svc'[s].waiting = svc[s].waiting
      BY <1>3, <3>2, <3>3 DEF ServiceType
    <3> QED BY <3>3, <3>4 DEF NoNewAcks
  <2>3. CASE Restart
    <3>1. PICK t \in Services : t = Head(agenda).arg
      BY <1>2, <2>3, CallArgs DEF Restart, ServiceCalls
    <3>2. svc' = [svc EXCEPT ![t] = Restarted(@)] /\ log' = log /\ uncommitted' = uncommitted /\ acked' = acked
      BY <2>3, <3>1 DEF Restart
    <3>3. \A s \in Services : svc'[s].waiting = svc[s].waiting \/ svc'[s].waiting = <<>>
      BY <1>3, <3>2 DEF ServiceType, Restarted
    <3> QED BY <3>2, <3>3, CountShort DEF NoNewAcks
  <2>4. CASE Discard
    <3>1. PICK t \in Services : t = Head(agenda).arg
      BY <1>2, <2>4, CallArgs DEF Discard, ServiceCalls
    <3>2. /\ svc' = [svc EXCEPT ![t].have_pending = FALSE, ![t].value = {}, ![t].proposing = FALSE]
          /\ log' = log /\ uncommitted' = uncommitted /\ acked' = acked
      BY <2>4, <3>1 DEF Discard
    <3>3. \A s \in Services : svc'[s].waiting = svc[s].waiting
      BY <1>3, <3>2 DEF ServiceType
    <3> QED BY <3>2, <3>3 DEF NoNewAcks
  <2>5. CASE ChangeRole
    BY <2>5 DEF ChangeRole, NoNewAcks
  <2> QED BY <1>2, <2>1, <2>2, <2>3, <2>4, <2>5 DEF Run, ProposePending, Active, FinishRound,
         KickReadable, RoundRest, ElectionFinished, FinishElection
<1> QED BY <1>1, <1>4, WayLeaving DEF NoNewAcks, LogStep

LEMMA WayElect ==
  ASSUME Life, Life', AckInv, OrderInv, Timeout \/ StartElection \/ EndProbing \/ Flushed
  PROVE  AckInv' /\ OrderInv'
<1>1. UNCHANGED <<svc, log, uncommitted, acked>>
  BY DEF Timeout, StartElection, EndProbing, Flushed, Elect
<1>2. TypeInv'
  BY DEF Life
<1>3. CASE Resetting'
  BY <1>1, <1>3, WayLeaving DEF LogStep
<1>4. CASE UNCHANGED <<role, px, svc, agenda>>
  BY <1>1, <1>4, WaySame
<1> QED BY <1>2, <1>3, <1>4, LifeElect

LEMMA WayElected ==
  ASSUME Life, Life', AckInv, OrderInv, WinElection \/ LoseElection
  PROVE  AckInv' /\ OrderInv'
<1>1. /\ LockFree /\ role = "electing" /\ UNCHANGED <<px, svc, log, uncommitted, acked>>
      /\ agenda' = ForEach("elected") \o <<Call("finished", None)>>
  BY DEF WinElection, LoseElection, DispatchFree
<1>2. Todo = {} /\ TypeInv /\ ValueInv /\ Leaving /\ Grows /\ LogStep
  BY <1>1, CountShort DEF LockFree, Todo, Resetting, Life, LogStep, Grows, Logged, Change
<1>3. /\ \A s \in Services : /\ svc'[s].value = {}
                             /\ \A c \in Range(svc'[s].waiting) : c.kind # "ack"
      /\ px'.value = None /\ px'.txn = None
  BY <1>1, <1>2 DEF Leaving, ValueInv
<1>4. \A c \in Todo' : c.do # "finish"
  <2> DEFINE a == ForEach("elected")
             d == Call("finished", None)
  <2>1. /\ a \in Seq(Calls) /\ Range(a) = {Call("elected", s) : s \in Services}
    BY CountForEach DEF ServiceCalls
  <2>2. d \in Calls /\ d.do = "finished"
    BY CallTypes DEF Call, PlainCalls
  <2>3. agenda' = a \o <<d>>
    BY <1>1
  <2>7. \A c \in Range(a) : c.do = "elected"
    BY <2>1 DEF Call
  <2> HIDE DEF a, d
  <2>4. <<d>> \in Seq(Calls) /\ Range(<<d>>) = {d}
    BY <2>2, CountShort
  <2>5. Range(a \o <<d>>) = Range(a) \cup {d}
    BY <2>1, <2>4, CountCalls
  <2>6. Todo' = Range(a \o <<d>>)
    BY <2>3 DEF Todo
  <2> QED BY <2>2, <2>5, <2>6, <2>7
<1>5. AckInv'
  <2>1. \A op \in Ops : ~(AckCall(op) \in Todo)'
    BY <1>4 DEF AckCall, Call
  <2>2. AckStep
    BY <1>1, <1>3, <2>1 DEF AckStep
  <2> QED BY <1>2, <2>2, AckSteps
<1>6. OrderStep
  BY <1>3, TouchedType DEF OrderStep, UnderWay, Encoded, Pending, Txn
<1> QED BY <1>1, <1>2, <1>5, <1>6, OrderSteps

-----------------------------------------------------------------------------
(* Steps that leave Paxos and the pending values alone *)

LEMMA WayCalls ==
  ASSUME Life, ~Resetting, ~Resetting', AckInv, OrderInv, NEW n \in Seq(Calls),
         \/ agenda # <<>> /\ Continue(n) /\ ~Proposes(Head(agenda))
         \/ LockFree /\ agenda' = n,
         log' = log, uncommitted' \in {uncommitted, None}, px'.value = px.value, Txn(px') = Txn(px),
         px'.pending = px.pending, px'.committing = px.committing,
         \A op \in Ops : \A s \in Services : Pending(op, s)' <=> Pending(op, s),
         NoNewAcks, \A op \in Ops : AckCall(op) \in Range(n) => AllLogged(op),
         \A op \in acked' : op \in acked \/ AllLogged(op)'
  PROVE  AckInv' /\ OrderInv'
<1>0. TypeInv
  BY DEF Life
<1>1. LogStep /\ Grows
  BY <1>0, LogGrowth DEF LogStep
<1>2. Keeps
  BY <1>1 DEF Keeps
<1>3. \A op \in Ops : \A s \in Services : Encoded(op, s)' => Encoded(op, s)
  BY DEF Encoded, Change
<1>4. \A op \in Ops : UnderWay(op, op.svc)' => UnderWay(op, op.svc)
  BY DEF UnderWay, Change
<1>5. Todo' \subseteq Todo \cup Range(n) /\ (agenda = <<>> \/ ~Proposes(Head(agenda)))
  BY <1>0, AgendaStep, AgendaFresh DEF LockFree
<1>6. \A op \in Ops : (AckCall(op) \in Todo)' => AckCall(op) \in Todo \/ AllLogged(op)
  <2>1. \A op \in Ops : AckCall(op)' = AckCall(op)
    BY DEF AckCall, Call, OpContext
  <2> QED BY <1>5, <2>1
<1> QED BY <1>1, <1>2, <1>3, <1>4, <1>5, <1>6, WayQuiet DEF NoNewAcks

\* No context of an acknowledgement is among the calls.
LEMMA NoAckCalls ==
  ASSUME NEW n \in Seq(Calls), \A c \in Range(n) : c.do = "finish" => c.arg.kind # "ack"
  PROVE  \A op \in Ops : AckCall(op) \in Range(n) => AllLogged(op)
  BY DEF AckCall, Call, OpContext

LEMMA SameValues ==
  ASSUME \A s \in Services : svc'[s].value = svc[s].value
  PROVE  \A op \in Ops : \A s \in Services : Pending(op, s)' <=> Pending(op, s)
  BY DEF Pending, Change

LEMMA WayFinishContext ==
  ASSUME Life, Life', ~Resetting, AckInv, OrderInv, FinishContext
  PROVE  AckInv' /\ OrderInv'
<1>0. TypeInv /\ TypeInv' /\ svc \in [Services -> ServiceType] /\ agenda \in Seq(Calls)
  BY MemberFacts DEF Life
<1>1. agenda # <<>> /\ Head(agenda).do \in {"finish", "again"}
      /\ role' = role /\ px' = px /\ log' = log /\ uncommitted' = uncommitted
  BY DEF FinishContext
<1>2. ~Resetting'
  BY <1>0, MemberFinishContext
<1>3. PICK c \in Contexts : c = Head(agenda).arg
  BY <1>0, <1>1, HeadType, CallArgs
<1>4. /\ c.kind \in {"active", "committed"} => c.svc \in Services
      /\ c.kind \in {"retry", "ack"} => c.op \in Ops /\ c = OpContext(c.kind, c.op)
      /\ c.kind \in {"active", "committed", "retry", "ack"}
  BY DEF Contexts, ServiceContexts, OpContexts, OpContext
<1>5. svc' = IF c.kind = "committed" THEN [svc EXCEPT ![c.svc].proposing = FALSE] ELSE svc
  BY <1>3 DEF FinishContext
<1>6. \A s \in Services : svc'[s].waiting = svc[s].waiting /\ svc'[s].value = svc[s].value
  BY <1>0, <1>4, <1>5 DEF ServiceType
<1>7. PICK n \in Seq(Calls) : Continue(n) /\ \A x \in Range(n) : x.do # "finish"
  <2>1. CASE c.kind \in {"active", "committed"} /\ Head(agenda).do = "finish"
    <3> DEFINE d == Call("active", c.svc)
    <3>1. d \in Calls /\ d.do = "active"
      BY <1>4, <2>1, CallTypes DEF ServiceCalls, Call
    <3>2. Continue(<<d>>)
      BY <1>3, <2>1 DEF FinishContext
    <3> HIDE DEF d
    <3>3. <<d>> \in Seq(Calls) /\ Range(<<d>>) = {d}
      BY <3>1, CountShort
    <3> QED BY <3>1, <3>2, <3>3
  <2>2. CASE c.kind \in {"retry", "ack"} /\ (c.kind = "ack" => Head(agenda).do = "again")
    <3> DEFINE d == Call("dispatch", c.op)
    <3>1. d \in Calls /\ d.do = "dispatch"
      BY <1>4, <2>2, CallTypes DEF Call
    <3>2. Continue(<<d>>)
      BY <1>3, <2>2 DEF FinishContext
    <3> HIDE DEF d
    <3>3. <<d>> \in Seq(Calls) /\ Range(<<d>>) = {d}
      BY <3>1, CountShort
    <3> QED BY <3>1, <3>2, <3>3
  <2>3. CASE \/ c.kind \in {"active", "committed"} /\ Head(agenda).do = "again"
             \/ c.kind = "ack" /\ Head(agenda).do = "finish"
    <3>1. Continue(<<>>)
      BY <1>3, <2>3 DEF FinishContext
    <3>2. <<>> \in Seq(Calls) /\ Range(<<>>) = {}
      BY CountShort
    <3> QED BY <3>1, <3>2
  <2> QED BY <1>1, <1>4, <2>1, <2>2, <2>3
<1>8. \A op \in acked' : op \in acked \/ AllLogged(op)'
  <2>1. acked' = IF c.kind = "ack" /\ Head(agenda).do = "finish" THEN acked \cup {c.op} ELSE acked
    BY <1>3 DEF FinishContext
  <2>2. ASSUME c.kind = "ack", Head(agenda).do = "finish" PROVE AllLogged(c.op)'
    <3>1. Head(agenda) = Call("finish", OpContext("ack", c.op)) /\ Head(agenda) \in Todo /\ c.op \in Ops
      BY <1>0, <1>1, <1>3, <1>4, <2>2, HeadType, CallArgs, CallsDone
    <3>2. AllLogged(c.op)
      BY <3>1 DEF AckInv, AllLogged
    <3> QED BY <1>1, <3>2 DEF AllLogged, Logged, Touched, Change
  <2> QED BY <2>1, <2>2
<1>9. NoNewAcks /\ \A op \in Ops : \A s \in Services : Pending(op, s)' <=> Pending(op, s)
  BY <1>6, SameValues DEF NoNewAcks
<1>10. Txn(px') = Txn(px) /\ ~Proposes(Head(agenda))
  BY <1>1 DEF Proposes
<1>11. \A op \in Ops : AckCall(op) \in Range(n) => AllLogged(op)
  BY <1>7, NoAckCalls
<1> QED BY <1>1, <1>2, <1>7, <1>8, <1>9, <1>10, <1>11, WayCalls

\* Paxos wakes those that wait for it.
LEMMA WayWakes ==
  ASSUME Life, Life', ~Resetting, AckInv, OrderInv,
         FinishRound \/ KickReadable \/ Lease
  PROVE  AckInv' /\ OrderInv'
<1>0. TypeInv /\ TypeInv' /\ ListInv /\ px \in PaxosType
  BY MemberFacts DEF Life
<1>1. ~Resetting'
  BY <1>0, MemberFinishRound, MemberKickReadable, LifeLease
<1>2. /\ svc' = svc /\ log' = log /\ uncommitted' = uncommitted /\ acked' = acked
      /\ px' \in {[px EXCEPT !.state = "active", !.active = <<>>], [px EXCEPT !.readable = <<>>]}
      /\ (agenda # <<>> /\ ~Proposes(Head(agenda))) \/ LockFree
  BY DEF FinishRound, KickReadable, Lease, Proposes, DispatchFree
<1>3. px'.value = px.value /\ px'.txn = px.txn /\ px'.pending = px.pending /\ px'.committing = px.committing
  BY <1>0, <1>2 DEF PaxosType
<1>4. PICK n \in Seq(Calls) : /\ \/ agenda # <<>> /\ Continue(n) /\ ~Proposes(Head(agenda))
                                 \/ LockFree /\ agenda' = n
                              /\ \A c \in Range(n) : c.do = "finish" => c.arg.kind # "ack"
  <2> DEFINE a == Finish(px.active, TRUE)
             r == Finish(px.readable, TRUE)
             d == Call("readable", None)
             e == Call("rest", None)
  <2>1. /\ a \in Seq(Calls) /\ \A c \in Range(a) : c.arg \in Range(px.active)
        /\ r \in Seq(Calls) /\ \A c \in Range(r) : c.arg \in Range(px.readable)
    <3>1. px.active \in Seq(Contexts) /\ px.readable \in Seq(Contexts)
      BY <1>0 DEF PaxosType
    <3> QED BY <3>1, FinishOk
  <2>2. \A c \in Range(a) \cup Range(r) : c.arg.kind # "ack"
    BY <1>0, <2>1 DEF ListInv
  <2>3. d \in Calls /\ e \in Calls /\ d.do = "readable" /\ e.do = "rest"
    BY CallTypes DEF PlainCalls, Call
  <2>4. \/ agenda # <<>> /\ Continue(a \o <<d, e>>) /\ ~Proposes(Head(agenda))
        \/ agenda # <<>> /\ Continue(r) /\ ~Proposes(Head(agenda))
        \/ LockFree /\ agenda' = a \o <<d>>
    BY DEF FinishRound, KickReadable, Lease, Proposes, DispatchFree
  <2> HIDE DEF a, r, d, e
  <2>5. <<d>> \in Seq(Calls) /\ <<d, e>> \in Seq(Calls) /\ Range(<<d>>) = {d} /\ Range(<<d, e>>) = {d, e}
    BY <2>3, CountShort, CountTwo
  <2>6. /\ a \o <<d>> \in Seq(Calls) /\ a \o <<d, e>> \in Seq(Calls)
        /\ Range(a \o <<d>>) = Range(a) \cup {d} /\ Range(a \o <<d, e>>) = Range(a) \cup {d, e}
    <3>1. /\ a \o <<d>> \in Seq(Calls) /\ Range(a \o <<d>>) = Range(a) \cup Range(<<d>>)
      BY <2>1, <2>5, CountCalls
    <3>2. /\ a \o <<d, e>> \in Seq(Calls) /\ Range(a \o <<d, e>>) = Range(a) \cup Range(<<d, e>>)
      <4> DEFINE b == <<d, e>>
      <4>1. b \in Seq(Calls)
        BY <2>5
      <4> HIDE DEF b
      <4>2. a \o b \in Seq(Calls) /\ Range(a \o b) = Range(a) \cup Range(b)
        BY <2>1, <4>1, CountCalls
      <4> QED BY <4>2 DEF b
    <3> QED BY <2>5, <3>1, <3>2
  <2>7. /\ \A c \in Range(a \o <<d>>) : c.do = "finish" => c.arg.kind # "ack"
        /\ \A c \in Range(a \o <<d, e>>) : c.do = "finish" => c.arg.kind # "ack"
    BY <2>2, <2>3, <2>6
  <2>8. CASE agenda # <<>> /\ Continue(a \o <<d, e>>) /\ ~Proposes(Head(agenda))
    BY <2>6, <2>7, <2>8
  <2>9. CASE agenda # <<>> /\ Continue(r) /\ ~Proposes(Head(agenda))
    BY <2>1, <2>2, <2>9
  <2>10. CASE LockFree /\ agenda' = a \o <<d>>
    BY <2>6, <2>7, <2>10
  <2> QED BY <2>4, <2>8, <2>9, <2>10
<1>5. NoNewAcks /\ \A op \in Ops : \A s \in Services : Pending(op, s)' <=> Pending(op, s)
  BY <1>2, SameValues DEF NoNewAcks
<1>6. Txn(px') = Txn(px)
  BY <1>3 DEF Txn
<1>7. \A op \in Ops : AckCall(op) \in Range(n) => AllLogged(op)
  BY <1>4, NoAckCalls
<1> QED BY <1>1, <1>2, <1>3, <1>4, <1>5, <1>6, <1>7, WayCalls

LEMMA WayElection ==
  ASSUME Life, Life', ~Resetting, AckInv, OrderInv, ElectionFinished \/ FinishElection
  PROVE  AckInv' /\ OrderInv'
<1>0. TypeInv /\ TypeInv' /\ svc \in [Services -> ServiceType] /\ px \in PaxosType
  BY MemberFacts DEF Life
<1>1. ~Resetting'
  BY <1>0, MemberElectionFinished, MemberFinishElection
<1>2. CASE ElectionFinished
  <2>1. PICK s \in Services : s = Head(agenda).arg
    BY <1>0, <1>2, HeadType, CallArgs DEF ElectionFinished, ServiceCalls
  <2> DEFINE a == Finish(svc[s].waiting, FALSE)
             d == Call("active", s)
  <2>2. /\ agenda # <<>> /\ ~Proposes(Head(agenda)) /\ px' = px /\ log' = log /\ uncommitted' = uncommitted
        /\ acked' = acked /\ svc' = [svc EXCEPT ![s].waiting = <<>>]
        /\ Continue(a \o (IF Head(agenda).do = "elected" THEN <<d>> ELSE <<>>))
    BY <1>2, <2>1 DEF ElectionFinished, Proposes
  <2>3. a \in Seq(Calls) /\ \A c \in Range(a) : c.do = "again"
    <3>1. svc[s].waiting \in Seq(Contexts)
      BY <1>0 DEF ServiceType
    <3> QED BY <3>1, FinishAgain
  <2>4. d \in Calls /\ d.do = "active"
    BY CallTypes DEF ServiceCalls, Call
  <2> HIDE DEF a, d
  <2>5. <<d>> \in Seq(Calls) /\ Range(<<d>>) = {d} /\ <<>> \in Seq(Calls) /\ Range(<<>>) = {}
    BY <2>4, CountShort
  <2>6. PICK n \in Seq(Calls) : Continue(n) /\ \A c \in Range(n) : c.do # "finish"
    <3>1. /\ a \o <<d>> \in Seq(Calls) /\ Range(a \o <<d>>) = Range(a) \cup {d}
          /\ a \o <<>> \in Seq(Calls) /\ Range(a \o <<>>) = Range(a) \cup {}
      BY <2>3, <2>5, CountCalls
    <3>2. CASE Continue(a \o <<d>>)
      BY <2>3, <2>4, <3>1, <3>2
    <3>3. CASE Continue(a \o <<>>)
      BY <2>3, <3>1, <3>3
    <3> QED BY <2>2, <3>2, <3>3
  <2>7. \A t \in Services : svc'[t].value = svc[t].value /\ (svc'[t].waiting = svc[t].waiting \/ svc'[t].waiting = <<>>)
    BY <1>0, <2>2 DEF ServiceType
  <2>8. NoNewAcks /\ \A op \in Ops : \A t \in Services : Pending(op, t)' <=> Pending(op, t)
    BY <2>7, SameValues, CountShort DEF NoNewAcks
  <2>9. \A op \in Ops : AckCall(op) \in Range(n) => AllLogged(op)
    BY <2>6, NoAckCalls
  <2>10. Txn(px') = Txn(px) /\ px'.value = px.value /\ px'.pending = px.pending /\ px'.committing = px.committing
    BY <2>2
  <2> QED BY <1>1, <2>2, <2>6, <2>8, <2>9, <2>10, WayCalls
<1>3. CASE FinishElection
  <2> DEFINE a == [i \in 1 .. Cardinality(routed) |-> Call("dispatch", SetToSeq(routed)[i])]
  <2>1. a \in Seq(Calls) /\ \A c \in Range(a) : c.do = "dispatch"
    <3>1. /\ a \in Seq(Calls) /\ Cardinality(routed) \in Nat
      BY <1>0, RoutedSeq DEF TypeInv
    <3> QED BY <3>1 DEF Range, Call
  <2>2. /\ agenda # <<>> /\ ~Proposes(Head(agenda)) /\ svc' = svc /\ log' = log /\ uncommitted' = uncommitted
        /\ acked' = acked /\ px' = (IF role = "leader" THEN [px EXCEPT !.txn = Txn(px)] ELSE px)
        /\ Continue(IF role = "leader" THEN a ELSE <<>>)
    BY <1>3 DEF FinishElection, Proposes
  <2> HIDE DEF a
  <2>3. PICK n \in Seq(Calls) : Continue(n) /\ \A c \in Range(n) : c.do # "finish"
    <3>1. <<>> \in Seq(Calls) /\ Range(<<>>) = {}
      BY CountShort
    <3> QED BY <2>1, <2>2, <3>1
  <2>4. /\ px'.value = px.value /\ px'.pending = px.pending /\ px'.committing = px.committing
        /\ px'.txn = px.txn \/ px'.txn = Txn(px)
    BY <1>0, <2>2 DEF PaxosType
  <2>5. Txn(px') = Txn(px)
    BY <2>4 DEF Txn
  <2>6. NoNewAcks /\ \A op \in Ops : \A t \in Services : Pending(op, t)' <=> Pending(op, t)
    BY <2>2, SameValues DEF NoNewAcks
  <2>7. \A op \in Ops : AckCall(op) \in Range(n) => AllLogged(op)
    BY <2>3, NoAckCalls
  <2> QED BY <1>1, <2>2, <2>3, <2>4, <2>5, <2>6, <2>7, WayCalls
<1> QED BY <1>2, <1>3

-----------------------------------------------------------------------------
(* _active, dispatch and propose_pending *)

\* When s becomes active what waits for its proposal is committed.
LEMMA WokenIsLogged ==
  ASSUME Life, ~Resetting, AckInv, agenda # <<>>, NEW s \in Services, Head(agenda) = Call("active", s),
         NEW c \in Range(svc[s].waiting), c.kind = "ack"
  PROVE  AllLogged(c.op)
<1>0. TypeInv /\ ValueInv /\ px \in PaxosType
  BY MemberFacts
<1>1. Tells(s) = 0 /\ ~svc[s].have_pending
  <2>1. Head(agenda) \in WakeCalls(s)
    BY TokenCalls
  <2> QED BY <2>1, HeadToken
<1>2. svc[s].value = {}
  BY <1>0, <1>1 DEF ValueInv
<1>3. Context("committed", s) \notin Range(px.pending) /\ Context("committed", s) \notin Range(px.committing)
  <2> DEFINE x == Context("committed", s)
  <2>1. px.pending \in Seq(Contexts) /\ px.committing \in Seq(Contexts)
    BY <1>0 DEF PaxosType
  <2>2. /\ Count(px.pending, {x}) \in Nat /\ Count(px.committing, {x}) \in Nat /\ Count(agenda, ToldCalls(s)) \in Nat
    BY MemberFacts
  <2>3. Tells(s) = Count(agenda, ToldCalls(s)) + Count(px.committing, {x}) + Count(px.pending, {x})
    BY DEF Tells
  <2> HIDE DEF x
  <2>4. Count(px.pending, {x}) = 0 /\ Count(px.committing, {x}) = 0
    BY <1>1, <2>2, <2>3
  <2>5. x \notin Range(px.pending) /\ x \notin Range(px.committing)
    BY <2>1, <2>4, CountContexts
  <2> QED BY <2>5 DEF x
<1>4. c.op.svc = s /\ OnItsWay(c.op)
  BY DEF AckInv
<1> QED BY <1>2, <1>3, <1>4 DEF OnItsWay, Pending, AllLogged

LEMMA WayActive ==
  ASSUME Life, Life', ~Resetting, AckInv, OrderInv, Active
  PROVE  AckInv' /\ OrderInv'
<1>0. TypeInv /\ TypeInv' /\ svc \in [Services -> ServiceType] /\ px \in PaxosType
  BY MemberFacts DEF Life
<1>1. ~Resetting'
  BY <1>0, MemberActive
<1>2. /\ agenda # <<>> /\ Head(agenda).do = "active" /\ ~Proposes(Head(agenda))
      /\ log' = log /\ uncommitted' = uncommitted /\ acked' = acked
  BY DEF Active, Proposes
<1>3. PICK s \in Services : s = Head(agenda).arg
  BY <1>0, <1>2, HeadType, CallArgs DEF ServiceCalls
<1>4. Head(agenda) = Call("active", s)
  BY <1>0, <1>2, <1>3, HeadType, CallArgs
<1>5. <<>> \in Seq(Calls) /\ Range(<<>>) = {}
  BY CountShort
<1>6. ASSUME NEW n \in Seq(Calls), Continue(n), px'.value = px.value, px'.txn = px.txn,
             px'.pending = px.pending, px'.committing = px.committing, NoNewAcks,
             \A op \in Ops : \A t \in Services : Pending(op, t)' <=> Pending(op, t),
             \A op \in Ops : AckCall(op) \in Range(n) => AllLogged(op)
      PROVE  AckInv' /\ OrderInv'
  <2>1. Txn(px') = Txn(px)
    BY <1>6 DEF Txn
  <2> QED BY <1>1, <1>2, <1>6, <2>1, WayCalls
<1>7. CASE svc[s].proposing /\ Continue(<<>>) /\ UNCHANGED <<px, svc>>
  BY <1>5, <1>6, <1>7, SameValues DEF NoNewAcks
<1>8. CASE WaitForActive(s, Context("active", s)) /\ Continue(<<>>)
  <2> DEFINE c == Context("active", s)
  <2>1. c \in Contexts /\ c.kind = "active"
    BY CallTypes DEF Context
  <2>2. WaitForActive(s, c)
    BY <1>8
  <2> HIDE DEF c
  <2>3. NoNewAcks
    BY <1>0, <2>1, <2>2, WaitAcks
  <2>4. /\ \A t \in Services : svc'[t].value = svc[t].value
        /\ px'.txn = px.txn /\ px'.value = px.value /\ px'.pending = px.pending /\ px'.committing = px.committing
    BY <1>0, <2>1, <2>2, WaitFields
  <2> QED BY <1>5, <1>6, <1>8, <2>3, <2>4, SameValues
<1>9. CASE /\ svc' = [svc EXCEPT ![s].have_pending = TRUE, ![s].value = @ \cup {Initial(s)}]
           /\ Continue(<<Call("propose", s)>>) /\ UNCHANGED px
  <2> DEFINE d == Call("propose", s)
  <2>1. d \in Calls /\ d.do = "propose" /\ Continue(<<d>>)
    BY <1>9, CallTypes DEF ServiceCalls, Call
  <2> HIDE DEF d
  <2>2. <<d>> \in Seq(Calls) /\ Range(<<d>>) = {d}
    BY <2>1, CountShort
  <2>3. \A op \in Ops : AckCall(op) \in Range(<<d>>) => AllLogged(op)
    BY <2>1, <2>2, NoAckCalls
  <2>4. \A t \in Services : /\ svc'[t].waiting = svc[t].waiting
                            /\ svc'[t].value = svc[t].value \/ svc'[t].value = svc[t].value \cup {Initial(s)}
    BY <1>0, <1>9 DEF ServiceType
  <2>5. \A op \in Ops : \A t \in Services : Pending(op, t)' <=> Pending(op, t)
    BY <2>4, ChangesDiffer DEF Pending, Change
  <2> QED BY <1>6, <1>9, <2>1, <2>2, <2>3, <2>4, <2>5 DEF NoNewAcks
<1>10. CASE /\ svc' = [svc EXCEPT ![s].have_pending = @ \/ role = "leader", ![s].waiting = <<>>]
            /\ Continue(Finish(svc[s].waiting, TRUE)) /\ UNCHANGED px
  <2> DEFINE n == Finish(svc[s].waiting, TRUE)
  <2>1. n \in Seq(Calls) /\ Continue(n) /\ \A c \in Range(n) : c.do = "finish" /\ c.arg \in Range(svc[s].waiting)
    <3>1. svc[s].waiting \in Seq(Contexts)
      BY <1>0 DEF ServiceType
    <3> QED BY <1>10, <3>1, FinishOk
  <2> HIDE DEF n
  <2>2. ASSUME NEW op \in Ops, AckCall(op) \in Range(n) PROVE AllLogged(op)
    <3>1. OpContext("ack", op) \in Range(svc[s].waiting)
      BY <2>1, <2>2 DEF AckCall, Call
    <3>2. OpContext("ack", op).kind = "ack" /\ OpContext("ack", op).op = op
      BY DEF OpContext
    <3> QED BY <1>2, <1>4, <3>1, <3>2, WokenIsLogged
  <2>3. \A t \in Services : svc'[t].value = svc[t].value /\ (svc'[t].waiting = svc[t].waiting \/ svc'[t].waiting = <<>>)
    BY <1>0, <1>10 DEF ServiceType
  <2> QED BY <1>5, <1>6, <1>10, <2>1, <2>2, <2>3, SameValues DEF NoNewAcks
<1> QED BY <1>3, <1>7, <1>8, <1>9, <1>10 DEF Active

\* dispatch adds the changes of op, and the other service's proposal comes first.
LEMMA WayPrepared ==
  ASSUME Life, ~Resetting, ~Resetting', AckInv, OrderInv, agenda # <<>>, Head(agenda).do = "dispatch",
         UNCHANGED <<px, log, uncommitted, acked>>, NEW op \in Ops, NEW now \in BOOLEAN,
         Continue(Prepare(op, now).calls),
         \A t \in Services :
           /\ svc'[t].value = IF t \in Touched(op) THEN svc[t].value \cup {Change(op, t)} ELSE svc[t].value
           /\ \/ svc'[t].waiting = svc[t].waiting
              \/ t = op.svc /\ svc'[t].waiting = Append(svc[t].waiting, OpContext("ack", op))
  PROVE  AckInv' /\ OrderInv'
<1> DEFINE n == Prepare(op, now).calls
<1>0. TypeInv /\ svc \in [Services -> ServiceType] /\ agenda \in Seq(Calls) /\ ~Proposes(Head(agenda))
  BY MemberFacts DEF Proposes
<1>1. /\ n \in Seq(Calls) /\ Continue(n) /\ \A c \in Range(n) : Proposes(c)
      /\ op.kind \in {"cross", "batch"} => n # <<>> /\ Proposes(n[1]) /\ n[1].arg = op.other
  BY PrepareCalls
<1> HIDE DEF n
<1>2. LogStep /\ Grows /\ Keeps
  <2>1. LogStep
    BY DEF LogStep
  <2>2. Grows
    BY <1>0, <2>1, LogGrowth
  <2> QED BY <2>1, <2>2 DEF Keeps
<1>3. \A o, t : Encoded(o, t)' = Encoded(o, t) /\ UnderWay(o, t)' = UnderWay(o, t)
  BY DEF Encoded, UnderWay, Change, Txn
<1>4. \A o \in Ops : \A t \in Services : Pending(o, t)' <=> Pending(o, t) \/ (o = op /\ t \in Touched(op))
  <2> SUFFICES ASSUME NEW o \in Ops, NEW t \in Services
               PROVE  Change(o, t) \in svc'[t].value <=> Change(o, t) \in svc[t].value \/ (o = op /\ t \in Touched(op))
    BY DEF Pending, Change
  <2>1. CASE t \in Touched(op)
    <3>1. svc'[t].value = svc[t].value \cup {Change(op, t)}
      BY <2>1
    <3>2. Change(o, t) = Change(op, t) <=> o = op
      BY ChangesDiffer
    <3> QED BY <2>1, <3>1, <3>2
  <2>2. CASE t \notin Touched(op)
    BY <2>2
  <2> QED BY <2>1, <2>2
<1>5. \A o \in Ops : OtherPending(o) => OtherPending(o)'
  <2> TAKE o \in Ops
  <2>1. agenda[1] = Head(agenda)
    BY <1>0, HeadType
  <2>2. OtherPending(o) => OtherEncoded(o)
    BY <1>0, <2>1 DEF OtherPending
  <2>3. OtherEncoded(o) => OtherEncoded(o)'
    BY <1>2, OthersForward
  <2> QED BY <2>2, <2>3 DEF OtherPending
<1>6. /\ op.svc \in Services /\ op.svc \in Touched(op) /\ op.kind \in {"plain", "cross", "batch"}
      /\ op.kind \in {"cross", "batch"} => op.other \in Services /\ op.other \in Touched(op)
  BY TouchedType DEF Touched
<1>7. Pending(op, op.svc)' /\ OtherPending(op)'
  <2>1. Pending(op, op.svc)'
    BY <1>4, <1>6
  <2>2. CASE op.kind = "plain"
    BY <2>1, <2>2 DEF OtherPending, OtherEncoded
  <2>3. CASE op.kind \in {"cross", "batch"}
    <3>1. Pending(op, op.other)'
      BY <1>4, <1>6, <2>3
    <3>2. agenda' # <<>> /\ agenda'[1] = n[1]
      <4>1. agenda' = n \o Tail(agenda) /\ n # <<>>
        BY <1>1, <2>3 DEF Continue
      <4> QED BY <1>0, <1>1, <4>1, ContinueSeq
    <3> QED BY <1>1, <2>1, <2>3, <3>1, <3>2 DEF OtherPending
  <2> QED BY <1>6, <2>2, <2>3
<1>8. OnItsWay(op)' /\ \A o \in Ops : OnItsWay(o) => OnItsWay(o)'
  <2>1. ASSUME NEW o \in Ops, OnItsWay(o) PROVE OnItsWay(o)'
    <3>1. o.svc \in Services
      BY TouchedType
    <3>2. Pending(o, o.svc) /\ OtherPending(o) => Pending(o, o.svc)' /\ OtherPending(o)'
      BY <1>4, <1>5, <3>1
    <3> QED BY <1>2, <2>1, <3>2, WayForward
  <2>2. OnItsWay(op)'
    BY <1>7 DEF OnItsWay
  <2> QED BY <2>1, <2>2
<1>9. AckStep
  <2> DEFINE ack == OpContext("ack", op)
  <2>0. ack \in Contexts /\ ack.op = op
    BY CallTypes DEF OpContext
  <2>1. \A t \in Services : \/ svc'[t].waiting = svc[t].waiting
                            \/ t = op.svc /\ svc'[t].waiting = Append(svc[t].waiting, ack)
    OBVIOUS
  <2> HIDE DEF ack
  <2>2. ASSUME NEW t \in Services, NEW c \in Range(svc'[t].waiting), c.kind = "ack"
        PROVE  \/ /\ c \in Range(svc[t].waiting)
                  /\ Resetting' \/ (~Resetting /\ (OnItsWay(c.op) => OnItsWay(c.op)'))
               \/ c.op.svc = t /\ OnItsWay(c.op)'
    <3>1. svc[t].waiting \in Seq(Contexts)
      BY <1>0 DEF ServiceType
    <3>2. Range(Append(svc[t].waiting, ack)) = Range(svc[t].waiting) \cup {ack}
      BY <2>0, <3>1, CountContexts
    <3>3. c \in Range(svc[t].waiting) \/ (c = ack /\ t = op.svc)
      BY <2>1, <2>2, <3>2
    <3>4. CASE c \in Range(svc[t].waiting)
      BY <1>0, <1>8, <2>2, <3>4, AckContexts
    <3>5. CASE c = ack /\ t = op.svc
      BY <1>8, <2>0, <3>5
    <3> QED BY <3>3, <3>4, <3>5
  <2>3. ASSUME NEW o \in Ops, (AckCall(o) \in Todo)' PROVE AckCall(o) \in Todo
    <3>1. Todo' \subseteq Range(n) \cup Todo
      BY <1>0, <1>1, AgendaStep
    <3>2. AckCall(o)' = AckCall(o) /\ AckCall(o).do = "finish"
      BY DEF AckCall, Call, OpContext
    <3> QED BY <1>1, <2>3, <3>1, <3>2 DEF Proposes
  <2> QED BY <2>2, <2>3 DEF AckStep
<1>10. OrderStep
  <2> SUFFICES ASSUME NEW o \in Ops, o.kind = "cross"
               PROVE  /\ UnderWay(o, o.svc)' => OtherProposed(o)'
                      /\ Encoded(o, o.svc)' => OtherEncoded(o)'
                      /\ Pending(o, o.svc)' => OtherPending(o)'
    BY DEF OrderStep
  <2>1. /\ UnderWay(o, o.svc) => OtherProposed(o)
        /\ Encoded(o, o.svc) => OtherEncoded(o)
        /\ Pending(o, o.svc) => OtherPending(o)
    BY DEF OrderInv
  <2>2. o.svc \in Services
    BY TouchedType
  <2> QED BY <1>2, <1>3, <1>4, <1>5, <1>7, <2>1, <2>2, OthersForward
<1> QED BY <1>0, <1>2, <1>9, <1>10, AckSteps, OrderSteps

LEMMA WayDispatch ==
  ASSUME Life, Life', ~Resetting, AckInv, OrderInv, Dispatch
  PROVE  AckInv' /\ OrderInv'
<1>0. TypeInv /\ TypeInv' /\ svc \in [Services -> ServiceType]
  BY MemberFacts DEF Life
<1>1. ~Resetting'
  BY <1>0, MemberDispatch
<1>2. /\ agenda # <<>> /\ Head(agenda).do = "dispatch" /\ ~Proposes(Head(agenda))
      /\ UNCHANGED <<log, uncommitted, acked>>
  BY DEF Dispatch, Proposes
<1>3. PICK op \in Ops : op = Head(agenda).arg
  BY <1>0, <1>2, HeadType, CallArgs
<1> DEFINE retry == OpContext("retry", op)
<1>4. op.svc \in Services /\ Touched(op) \subseteq Services /\ retry \in Contexts /\ retry.kind = "retry"
  BY TouchedType, CallTypes DEF OpContext
<1> HIDE DEF retry
<1>5. <<>> \in Seq(Calls) /\ Range(<<>>) = {}
  BY CountShort
<1>6. ASSUME Continue(<<>>), NoNewAcks, \A t \in Services : svc'[t].value = svc[t].value,
             px'.value = px.value, px'.txn = px.txn, px'.pending = px.pending, px'.committing = px.committing
      PROVE  AckInv' /\ OrderInv'
  <2>1. Txn(px') = Txn(px)
    BY <1>6 DEF Txn
  <2>2. \A o \in Ops : \A t \in Services : Pending(o, t)' <=> Pending(o, t)
    BY <1>6, SameValues
  <2> QED BY <1>1, <1>2, <1>5, <1>6, <2>1, <2>2, WayCalls
<1>7. CASE \E t \in Services : (WaitForActive(t, retry) \/ WaitForReadable(t, retry)) /\ Continue(<<>>)
  <2>1. PICK t \in Services : (WaitForActive(t, retry) \/ WaitForReadable(t, retry)) /\ Continue(<<>>)
    BY <1>7
  <2>2. NoNewAcks
    BY <1>0, <1>4, <2>1, WaitAcks
  <2>3. /\ \A u \in Services : svc'[u].value = svc[u].value
        /\ px'.txn = px.txn /\ px'.value = px.value /\ px'.pending = px.pending /\ px'.committing = px.committing
    BY <1>0, <1>4, <2>1, WaitFields
  <2> QED BY <1>6, <2>1, <2>2, <2>3
<1>8. CASE Continue(<<>>) /\ UNCHANGED <<px, svc>>
  BY <1>6, <1>8 DEF NoNewAcks
<1>9. ASSUME NEW now \in BOOLEAN, UNCHANGED px, Continue(Prepare(op, now).calls),
             svc' = [t \in Services |->
               IF t \notin Touched(op) THEN svc[t]
               ELSE [svc[t] EXCEPT
                      !.value = @ \cup {Change(op, t)},
                      !.timer = @ \/ (t = op.svc /\ Prepare(op, now).timer),
                      !.waiting = IF t = op.svc THEN Append(@, OpContext("ack", op)) ELSE @]]
      PROVE  AckInv' /\ OrderInv'
  <2>1. \A t \in Services :
          /\ svc'[t].value = IF t \in Touched(op) THEN svc[t].value \cup {Change(op, t)} ELSE svc[t].value
          /\ \/ svc'[t].waiting = svc[t].waiting
             \/ t = op.svc /\ svc'[t].waiting = Append(svc[t].waiting, OpContext("ack", op))
    BY <1>0, <1>9 DEF ServiceType
  <2>2. UNCHANGED px /\ Continue(Prepare(op, now).calls)
    BY <1>9
  <2> QED BY <1>1, <1>2, <2>1, <2>2, WayPrepared
<1> QED BY <1>3, <1>4, <1>7, <1>8, <1>9, ZenonT(40) DEF Dispatch, retry

LEMMA WayProposePending ==
  ASSUME Life, Life', ~Resetting, AckInv, OrderInv, ProposePending
  PROVE  AckInv' /\ OrderInv'
<1>0. /\ TypeInv /\ TypeInv' /\ ValueInv /\ RoundInv /\ svc \in [Services -> ServiceType] /\ px \in PaxosType
  BY MemberFacts DEF Life
<1>1. ~Resetting'
  BY <1>0, MemberProposePending
<1>2. PICK s, q, x : /\ s = Head(agenda).arg
                     /\ q = Append(px.pending, Context("committed", s))
                     /\ x = Txn(px) \cup svc[s].value
  OBVIOUS
<1>3. ProposalMade(s, q, x)
  BY <1>0, <1>2, ProposeFields
<1>4. /\ s \in Services /\ agenda # <<>> /\ log' = log /\ acked' = acked /\ Continue(<<>>)
      /\ x # None /\ svc'[s].value = {} /\ \A t \in Services : t # s => svc'[t].value = svc[t].value
      /\ \A t \in Services : svc'[t].waiting = svc[t].waiting
  BY <1>3 DEF ProposalMade
<1>5. \/ /\ px'.value = px.value /\ px'.txn = x /\ px'.pending = q /\ px'.committing = px.committing
         /\ uncommitted' = uncommitted
      \/ /\ px.state = "active" /\ px'.value = x /\ px'.txn = None /\ px'.committing = q
         /\ uncommitted' \in {x, uncommitted}
  BY <1>3 DEF ProposalMade
<1>6. Range(q) = Range(px.pending) \cup {Context("committed", s)}
  <2>1. px.pending \in Seq(Contexts) /\ Context("committed", s) \in Contexts
    BY <1>0, <1>4, CallTypes DEF PaxosType
  <2> QED BY <1>2, <2>1, CountContexts
<1>7. \A o \in Ops : \A t \in Services :
        /\ Change(o, t) \in x <=> Encoded(o, t) \/ (Pending(o, t) /\ t = s)
        /\ Pending(o, t)' <=> Pending(o, t) /\ t # s
  <2> SUFFICES ASSUME NEW o \in Ops, NEW t \in Services
               PROVE  /\ Change(o, t) \in x <=> Change(o, t) \in Txn(px) \/ (Change(o, t) \in svc[t].value /\ t = s)
                      /\ Change(o, t) \in svc'[t].value <=> Change(o, t) \in svc[t].value /\ t # s
    BY DEF Encoded, Pending, Change
  <2>1. Change(o, t) \in svc[s].value => t = s
    <3>1. Change(o, t).svc = t
      BY DEF Change
    <3> QED BY <1>0, <1>4, <3>1 DEF ValueInv
  <2>2. CASE t = s
    BY <1>2, <1>4, <2>2
  <2>3. CASE t # s
    BY <1>2, <1>4, <2>1, <2>3
  <2> QED BY <2>2, <2>3
<1>8. LogStep /\ Grows
  BY <1>0, <1>4, LogGrowth DEF LogStep
<1>9. \/ /\ Keeps /\ ~Begins /\ Range(px'.pending) = Range(q) /\ uncommitted' = uncommitted
         /\ \A o, t : (Encoded(o, t)' <=> Change(o, t) \in x) /\ (UnderWay(o, t)' <=> UnderWay(o, t))
      \/ /\ Begins /\ Range(px'.committing) = Range(q) /\ uncommitted' \in {px'.value, uncommitted}
         /\ \A o, t : ~Encoded(o, t)' /\ (UnderWay(o, t)' <=> Change(o, t) \in x)
  <2>1. CASE /\ px'.value = px.value /\ px'.txn = x /\ px'.pending = q /\ px'.committing = px.committing
             /\ uncommitted' = uncommitted
    <3>1. Txn(px') = x
      BY <1>4, <2>1 DEF Txn
    <3>2. Keeps /\ ~Begins
      BY <1>2, <1>6, <1>8, <2>1, <3>1 DEF Keeps, Begins
    <3>3. \A o, t : (Encoded(o, t)' <=> Change(o, t) \in x) /\ (UnderWay(o, t)' <=> UnderWay(o, t))
      BY <2>1, <3>1 DEF Encoded, UnderWay, Change
    <3> QED BY <2>1, <3>2, <3>3
  <2>2. CASE /\ px.state = "active" /\ px'.value = x /\ px'.txn = None /\ px'.committing = q
             /\ uncommitted' \in {x, uncommitted}
    <3>1. Txn(px') = {} /\ px.value = None
      BY <1>0, <2>2 DEF Txn, RoundInv, Proposing
    <3>2. Begins
      BY <1>2, <1>4, <1>6, <1>8, <2>2, <3>1 DEF Begins
    <3>3. \A o, t : ~Encoded(o, t)' /\ (UnderWay(o, t)' <=> Change(o, t) \in x)
      BY <1>4, <2>2, <3>1 DEF Encoded, UnderWay, Change
    <3> QED BY <2>2, <3>2, <3>3
  <2> QED BY <1>5, <2>1, <2>2
<1>10. \A o \in Ops : OtherPending(o) => OtherEncoded(o)' /\ (Begins => OtherProposed(o)')
  <2> TAKE o \in Ops
  <2>1. CASE OtherEncoded(o)
    BY <1>9, <2>1, OthersForward
  <2>2. CASE /\ o.kind \in {"cross", "batch"} /\ Pending(o, o.other) /\ agenda[1].arg = o.other
    <3>1. o.other \in Services /\ o.other = s
      BY <1>0, <1>2, <1>4, <2>2, TouchedType, HeadType
    <3>2. Change(o, o.other) \in x
      BY <1>7, <2>2, <3>1
    <3>3. Encoded(o, o.other)' \/ UnderWay(o, o.other)'
      BY <1>9, <3>2
    <3>4. Begins => UnderWay(o, o.other)'
      BY <1>9, <3>2
    <3> QED BY <3>3, <3>4 DEF OtherEncoded, OtherProposed
  <2> QED BY <2>1, <2>2 DEF OtherPending, OtherEncoded
<1>11. ASSUME NEW o \in Ops, OnItsWay(o) PROVE OnItsWay(o)'
  <2>1. o.svc \in Services
    BY TouchedType
  <2>2. ASSUME Pending(o, o.svc), OtherPending(o)
        PROVE  \/ Pending(o, o.svc)' /\ OtherPending(o)'
               \/ Encoded(o, o.svc)' /\ (Context("committed", o.svc) \in Range(px.pending))' /\ OtherEncoded(o)'
               \/ UnderWay(o, o.svc)' /\ (Context("committed", o.svc) \in Range(px.committing))' /\ OtherProposed(o)'
    <3>1. CASE o.svc # s
      BY <1>7, <1>10, <2>1, <2>2, <3>1 DEF OtherPending
    <3>2. CASE o.svc = s
      <4>1. Change(o, o.svc) \in x /\ Context("committed", o.svc) \in Range(q)
        BY <1>6, <1>7, <2>1, <2>2, <3>2
      <4>2. OtherEncoded(o)' /\ (Begins => OtherProposed(o)')
        BY <1>10, <2>2
      <4> QED BY <1>9, <4>1, <4>2 DEF Context
    <3> QED BY <3>1, <3>2
  <2>3. Keeps \/ Begins
    BY <1>9
  <2> QED BY <1>11, <2>2, <2>3, WayForward
<1>12. AckStep
  <2>1. Todo' \subseteq Todo
    BY <1>0, <1>4, AgendaPop
  <2>2. \A o \in Ops : (AckCall(o) \in Todo)' => AckCall(o) \in Todo
    BY <2>1 DEF AckCall, Call, OpContext
  <2>3. ASSUME NEW t \in Services, NEW c \in Range(svc'[t].waiting), c.kind = "ack"
        PROVE  c \in Range(svc[t].waiting) /\ (OnItsWay(c.op) => OnItsWay(c.op)')
    <3>1. c \in Range(svc[t].waiting)
      BY <1>4, <2>3
    <3> QED BY <1>0, <1>11, <2>3, <3>1, AckContexts
  <2> QED BY <1>4, <2>2, <2>3 DEF AckStep
<1>13. OrderStep
  <2> SUFFICES ASSUME NEW o \in Ops, o.kind = "cross"
               PROVE  /\ UnderWay(o, o.svc)' => OtherProposed(o)'
                      /\ Encoded(o, o.svc)' => OtherEncoded(o)'
                      /\ Pending(o, o.svc)' => OtherPending(o)'
    BY DEF OrderStep
  <2>1. /\ UnderWay(o, o.svc) => OtherProposed(o)
        /\ Encoded(o, o.svc) => OtherEncoded(o)
        /\ Pending(o, o.svc) => OtherPending(o)
    BY DEF OrderInv
  <2>2. /\ OtherProposed(o) => OtherProposed(o)'
        /\ OtherEncoded(o) => OtherEncoded(o)' /\ (Begins => OtherProposed(o)')
        /\ OtherPending(o) => OtherEncoded(o)' /\ (Begins => OtherProposed(o)')
    BY <1>9, <1>10, OthersForward
  <2>3. /\ Change(o, o.svc) \in x <=> Encoded(o, o.svc) \/ (Pending(o, o.svc) /\ o.svc = s)
        /\ Pending(o, o.svc)' => Pending(o, o.svc)
    BY <1>7, TouchedType
  <2>4. OtherEncoded(o)' => OtherPending(o)'
    BY DEF OtherPending
  <2> QED BY <1>9, <2>1, <2>2, <2>3, <2>4
<1>14. uncommitted' \in {uncommitted, None, px'.value}
  BY <1>9
<1> QED BY <1>0, <1>8, <1>12, <1>13, <1>14, AckSteps, OrderSteps

-----------------------------------------------------------------------------
(* Paxos proposes, commits and learns *)

\* A transaction that has no new change of a request waits or is proposed.
LEMMA WayTransaction ==
  ASSUME Life, ~Resetting, ~Resetting', AckInv, OrderInv, agenda = <<>> \/ ~Proposes(Head(agenda)),
         UNCHANGED <<svc, log, acked>>, Todo' \subseteq Todo, NEW x, x # None, Txn(px) \subseteq x,
         \A op, s : Change(op, s) \in x => Change(op, s) \in Txn(px),
         \/ /\ px.state = "active" /\ px'.value = x /\ px'.txn = None /\ px'.committing = px.pending
            /\ uncommitted' \in {uncommitted, px'.value}
         \/ /\ px'.value = px.value /\ Txn(px') = x /\ px'.pending = px.pending
            /\ px'.committing = px.committing /\ uncommitted' = uncommitted
  PROVE  AckInv' /\ OrderInv'
<1>0. TypeInv /\ RoundInv
  BY MemberFacts
<1>1. LogStep /\ Grows
  BY <1>0, LogGrowth DEF LogStep
<1>2. /\ Keeps \/ Begins
      /\ \A op, s : (Encoded(op, s)' => Encoded(op, s)) /\ (UnderWay(op, s)' => UnderWay(op, s) \/ (Begins /\ Encoded(op, s)))
  <2>1. CASE px.state = "active" /\ px'.value = x /\ px'.txn = None /\ px'.committing = px.pending
    <3>1. Txn(px') = {} /\ px.value = None
      BY <1>0, <2>1 DEF Txn, RoundInv, Proposing
    <3>2. Begins
      BY <1>1, <2>1, <3>1 DEF Begins
    <3>3. \A op, s : ~Encoded(op, s)' /\ (UnderWay(op, s)' => Encoded(op, s))
      BY <2>1, <3>1 DEF Encoded, UnderWay, Change
    <3> QED BY <3>2, <3>3
  <2>2. CASE px'.value = px.value /\ Txn(px') = x /\ px'.pending = px.pending /\ px'.committing = px.committing
    <3>1. Keeps
      BY <1>1, <2>2 DEF Keeps
    <3>2. \A op, s : (Encoded(op, s)' => Encoded(op, s)) /\ (UnderWay(op, s)' => UnderWay(op, s))
      BY <2>2 DEF Encoded, UnderWay, Change
    <3> QED BY <3>1, <3>2
  <2> QED BY <2>1, <2>2
<1>3. \A op \in Ops : \A s \in Services : Pending(op, s)' <=> Pending(op, s)
  BY SameValues
<1>4. \A op \in Ops : (AckCall(op) \in Todo)' => AckCall(op) \in Todo
  BY DEF AckCall, Call, OpContext
<1>5. uncommitted' \in {uncommitted, None, px'.value}
  OBVIOUS
<1> QED BY <1>1, <1>2, <1>3, <1>4, <1>5, WayQuiet

LEMMA WayRoundRest ==
  ASSUME Life, Life', ~Resetting, AckInv, OrderInv, RoundRest
  PROVE  AckInv' /\ OrderInv'
<1>0. TypeInv /\ TypeInv' /\ px \in PaxosType
  BY MemberFacts DEF Life
<1>1. ~Resetting'
  BY <1>0, MemberRoundRest
<1>2. /\ agenda # <<>> /\ ~Proposes(Head(agenda)) /\ UNCHANGED <<svc, log, acked>> /\ Continue(<<>>)
      /\ px' = (IF px.state = "active" /\ px.txn # None THEN Proposed(px) ELSE px) /\ Accepts(px')
  BY DEF RoundRest, Proposes
<1>3. Todo' \subseteq Todo
  BY <1>0, <1>2, AgendaPop
<1>4. CASE px.state = "active" /\ px.txn # None
  <2>1. px'.value = px.txn /\ px'.txn = None /\ px'.committing = px.pending
    BY <1>0, <1>2, <1>4 DEF Proposed, PaxosType
  <2>2. uncommitted' \in {uncommitted, px'.value}
    BY <1>2 DEF Accepts
  <2>3. Txn(px) = px.txn
    BY <1>4 DEF Txn
  <2> QED BY <1>1, <1>2, <1>3, <1>4, <2>1, <2>2, <2>3, WayTransaction
<1>5. CASE ~(px.state = "active" /\ px.txn # None)
  <2>1. px' = px
    BY <1>2, <1>5
  <2>2. uncommitted' = uncommitted /\ Txn(px') = Txn(px)
    BY <1>2, <2>1 DEF Accepts
  <2>3. Txn(px) # None
    <3>1. {} \in Transactions
      BY DEF Transactions
    <3> QED BY <1>0, <3>1, TxnType
  <2> QED BY <1>1, <1>2, <1>3, <2>1, <2>2, <2>3, WayTransaction
<1> QED BY <1>4, <1>5

LEMMA WayMaybeTrim ==
  ASSUME Life, Life', AckInv, OrderInv, NEW s \in Services, MaybeTrim(s)
  PROVE  AckInv' /\ OrderInv'
<1> DEFINE x == Txn(px) \cup {Trimmed(s)}
           p == [px EXCEPT !.txn = x]
<1>0. TypeInv /\ TypeInv' /\ px \in PaxosType
  BY DEF Life, TypeInv
<1>1. /\ LockFree /\ IsWriteable(s) /\ px' = Triggered(p) /\ Accepts(px') /\ UNCHANGED <<role, svc, log, acked, agenda>>
  BY DEF MaybeTrim
<1>2. ~Resetting /\ ~Resetting'
  <2>1. px.state # "recovering"
    BY <1>1 DEF IsWriteable, IsActive
  <2> QED BY <1>0, <1>1, <2>1, FreeMember, LifeMaybeTrim
<1>3. /\ x # None /\ Txn(px) \subseteq x /\ x \in Transactions
      /\ \A op, t : Change(op, t) \in x => Change(op, t) \in Txn(px)
  <2>1. {Trimmed(s)} \in Transactions
    BY ChangeTypes DEF Transactions
  <2>2. x # None /\ x \in Transactions
    BY <1>0, <2>1, TxnType
  <2> QED BY <2>2, ChangesDiffer
<1> HIDE DEF x
<1>4. /\ p.state = px.state /\ p.value = px.value /\ p.txn = x /\ p.pending = px.pending
      /\ p.committing = px.committing /\ p \in PaxosType
  BY <1>0, <1>3 DEF PaxosType
<1> HIDE DEF p
<1>5. agenda = <<>> /\ Todo' \subseteq Todo
  BY <1>1 DEF LockFree, Todo
<1>6. CASE px.state = "active"
  <2>1. px'.value = x /\ px'.txn = None /\ px'.committing = px.pending
    BY <1>1, <1>4, <1>6 DEF Triggered, Proposed, PaxosType
  <2>2. uncommitted' \in {uncommitted, px'.value}
    BY <1>1 DEF Accepts
  <2> QED BY <1>1, <1>2, <1>3, <1>5, <1>6, <2>1, <2>2, WayTransaction
<1>7. CASE px.state # "active"
  <2>1. px' = p
    BY <1>1, <1>4, <1>7 DEF Triggered
  <2>2. uncommitted' = uncommitted /\ Txn(px') = x
    BY <1>1, <1>3, <1>4, <2>1 DEF Accepts, Txn
  <2> QED BY <1>1, <1>2, <1>3, <1>4, <1>5, <2>1, <2>2, WayTransaction
<1> QED BY <1>6, <1>7

LEMMA WayRequest ==
  ASSUME Life, Life', AckInv, OrderInv, NEW op \in Ops, Request(op)
  PROVE  AckInv' /\ OrderInv'
<1> DEFINE d == Call("dispatch", op)
<1>1. LockFree /\ agenda' = <<d>> /\ UNCHANGED <<px, svc, log, uncommitted, acked>>
  BY DEF Request, DispatchFree
<1>2. d \in Calls /\ d.do = "dispatch"
  BY CallTypes DEF Call
<1> HIDE DEF d
<1>3. <<d>> \in Seq(Calls) /\ Range(<<d>>) = {d}
  BY <1>2, CountShort
<1>4. Resetting' <=> Resetting
  BY LifeRequest DEF Life
<1>5. NoNewAcks
  BY <1>1 DEF NoNewAcks
<1>6. CASE Resetting
  BY <1>1, <1>4, <1>5, <1>6, WayLeaving DEF LogStep, NoNewAcks
<1>7. CASE ~Resetting
  <2>1. \A o \in Ops : AckCall(o) \in Range(<<d>>) => AllLogged(o)
    BY <1>2, <1>3, NoAckCalls
  <2>2. \A o \in Ops : \A s \in Services : Pending(o, s)' <=> Pending(o, s)
    BY <1>1, SameValues
  <2> QED BY <1>1, <1>3, <1>4, <1>5, <1>7, <2>1, <2>2, WayCalls
<1> QED BY <1>6, <1>7

LEMMA WayProposalTimer ==
  ASSUME Life, Life', AckInv, OrderInv, NEW s \in Services, ProposalTimer(s)
  PROVE  AckInv' /\ OrderInv'
<1> DEFINE d == Call("propose", s)
<1>0. TypeInv' /\ svc \in [Services -> ServiceType]
  BY DEF Life, TypeInv
<1>1. /\ LockFree /\ svc[s].timer /\ agenda' = <<d>> /\ UNCHANGED <<px, log, uncommitted, acked>>
      /\ svc' = [svc EXCEPT ![s].timer = FALSE]
  BY DEF ProposalTimer
<1>2. d \in Calls /\ d.do = "propose"
  BY CallTypes DEF Call, ServiceCalls
<1> HIDE DEF d
<1>3. <<d>> \in Seq(Calls) /\ Range(<<d>>) = {d}
  BY <1>2, CountShort
<1>4. ~Resetting /\ ~Resetting'
  <2>1. Todo = {}
    BY <1>1, CountShort DEF LockFree, Todo
  <2>2. ~Resetting
    BY <1>1, <2>1 DEF Life, Leaving
  <2> QED BY <1>0, <2>2, LifeProposalTimer
<1>5. \A t \in Services : svc'[t].value = svc[t].value /\ svc'[t].waiting = svc[t].waiting
  BY <1>0, <1>1 DEF ServiceType
<1>6. NoNewAcks /\ \A o \in Ops : \A t \in Services : Pending(o, t)' <=> Pending(o, t)
  BY <1>5, SameValues DEF NoNewAcks
<1>7. \A o \in Ops : AckCall(o) \in Range(<<d>>) => AllLogged(o)
  BY <1>2, <1>3, NoAckCalls
<1> QED BY <1>1, <1>3, <1>4, <1>6, <1>7, WayCalls

LEMMA WayCommitStart ==
  ASSUME Life, Life', AckInv, OrderInv, CommitStart
  PROVE  AckInv' /\ OrderInv'
<1>1. /\ LockFree /\ role = "leader" /\ UNCHANGED <<svc, log, uncommitted, acked, agenda>>
      /\ px' = [px EXCEPT !.state = IF @ = "updating" THEN "writing" ELSE "writing_previous"]
  BY DEF CommitStart, DispatchFree
<1>2. ~Resetting /\ ~Resetting' /\ px \in PaxosType
  BY <1>1, FreeMember, LifeCommitStart DEF Life
<1>3. /\ px'.value = px.value /\ px'.txn = px.txn /\ px'.pending = px.pending /\ px'.committing = px.committing
  BY <1>1, <1>2 DEF PaxosType
<1>4. Txn(px') = Txn(px)
  BY <1>3 DEF Txn
<1>5. <<>> \in Seq(Calls) /\ Range(<<>>) = {} /\ agenda' = <<>>
  BY <1>1, CountShort DEF LockFree
<1>6. NoNewAcks /\ \A op \in Ops : \A s \in Services : Pending(op, s)' <=> Pending(op, s)
  BY <1>1, SameValues DEF NoNewAcks
<1> QED BY <1>1, <1>2, <1>3, <1>4, <1>5, <1>6, WayCalls

\* The value of an old round is proposed again, or was lost to another.
LEMMA WayCollectDone ==
  ASSUME Life, Life', AckInv, OrderInv, CollectDone
  PROVE  AckInv' /\ OrderInv'
<1>1. /\ LockFree /\ role = "leader" /\ px.state = "recovering" /\ UNCHANGED <<svc, log, acked>>
  BY DEF CollectDone, DispatchFree
<1>2. ~Resetting /\ ~Resetting' /\ TypeInv /\ RoundInv /\ px \in PaxosType
  BY <1>1, FreeMember, LifeCollectDone DEF Life
<1>3. NoNewAcks /\ \A op \in Ops : \A s \in Services : Pending(op, s)' <=> Pending(op, s)
  BY <1>1, SameValues DEF NoNewAcks
<1>4. CASE /\ uncommitted # None /\ UNCHANGED <<agenda, uncommitted>>
           /\ px' = [px EXCEPT !.state = "updating_previous", !.value = uncommitted]
  <2>1. px'.value = uncommitted /\ px'.txn = px.txn /\ px'.pending = px.pending /\ px'.committing = px.committing
    BY <1>2, <1>4 DEF PaxosType
  <2>2. px.value = None /\ Txn(px') = Txn(px)
    BY <1>1, <1>2, <2>1 DEF RoundInv, Proposing, Txn
  <2>3. LogStep /\ Grows
    BY <1>1, <1>2, LogGrowth DEF LogStep
  <2>4. Keeps
    BY <2>1, <2>2, <2>3 DEF Keeps
  <2>5. \A op \in Ops : \A s \in Services : Encoded(op, s)' => Encoded(op, s)
    BY <2>2 DEF Encoded, Change
  <2>6. ASSUME NEW op \in Ops, UnderWay(op, op.svc)', op.kind = "cross" PROVE OtherProposed(op)'
    <3>1. Change(op, op.svc) \in uncommitted
      BY <2>1, <2>6 DEF UnderWay, Change
    <3>2. Change(op, op.other) \in uncommitted \/ Logged(op, op.other)
      BY <1>4, <2>6, <3>1 DEF OrderInv
    <3>3. Logged(op, op.other) => Logged(op, op.other)'
      BY <2>3, <2>6, TouchedType DEF Grows
    <3>4. Change(op, op.other) \in uncommitted => UnderWay(op, op.other)'
      BY <1>4, <2>1 DEF UnderWay, Change
    <3> QED BY <3>2, <3>3, <3>4 DEF OtherProposed
  <2>7. agenda = <<>> /\ Todo' = Todo
    BY <1>1, <1>4 DEF LockFree, Todo
  <2>8. \A op \in Ops : (AckCall(op) \in Todo)' => AckCall(op) \in Todo
    BY <2>7 DEF AckCall, Call, OpContext
  <2>9. uncommitted' \in {uncommitted, None, px'.value}
    BY <1>4
  <2> QED BY <1>1, <1>2, <1>3, <2>3, <2>4, <2>5, <2>6, <2>7, <2>8, <2>9, WayQuiet DEF NoNewAcks
<1>5. CASE uncommitted' = None /\ agenda' = <<Call("round", None)>> /\ UNCHANGED px
  <2> DEFINE d == Call("round", None)
  <2>1. d \in Calls /\ d.do = "round" /\ agenda' = <<d>>
    BY <1>5, CallTypes DEF Call, PlainCalls
  <2> HIDE DEF d
  <2>2. <<d>> \in Seq(Calls) /\ Range(<<d>>) = {d}
    BY <2>1, CountShort
  <2>3. \A op \in Ops : AckCall(op) \in Range(<<d>>) => AllLogged(op)
    BY <2>1, <2>2, NoAckCalls
  <2> QED BY <1>1, <1>2, <1>3, <1>5, <2>1, <2>2, <2>3, WayCalls
<1> QED BY <1>4, <1>5 DEF CollectDone

LEMMA WayCommitFinish ==
  ASSUME Life, Life', AckInv, OrderInv, CommitFinish
  PROVE  AckInv' /\ OrderInv'
<1>1. /\ LockFree /\ px.state \in {"writing", "writing_previous"} /\ UNCHANGED <<svc, acked>>
      /\ log' = Append(log, px.value) /\ uncommitted' = None
  BY DEF CommitFinish
<1>2. ~Resetting /\ TypeInv /\ TypeInv' /\ ListInv /\ px \in PaxosType
  BY <1>1, FreeMember DEF Life
<1>3. px.value # None /\ px.value \in Transactions
  BY <1>1, <1>2 DEF TypeInv, Proposing, PaxosType
<1>4. LogStep
  <2>1. ASSUME NEW op \in Ops, op.kind = "cross", Change(op, op.svc) \in px.value
        PROVE  Change(op, op.other) \in px.value \/ Logged(op, op.other)
    <3>1. OtherProposed(op)
      BY <1>3, <2>1 DEF OrderInv, UnderWay
    <3> QED BY <2>1, <3>1 DEF OtherProposed, UnderWay
  <2> QED BY <1>1, <1>3, <2>1 DEF LogStep
<1>5. NoNewAcks /\ \A op \in Ops : \A s \in Services : Pending(op, s)' <=> Pending(op, s)
  BY <1>1, SameValues DEF NoNewAcks
<1>6. CASE Bootstrap
  <2>1. Resetting'
    BY <1>6 DEF Bootstrap, Resetting
  <2> QED BY <1>1, <1>4, <1>5, <2>1, WayLeaving DEF NoNewAcks
<1>7. CASE /\ px' = [px EXCEPT !.state = "refresh", !.value = None, !.committing = <<>>]
           /\ agenda' = Finish(px.committing, TRUE) \o <<Call("round", None)>>
           /\ role' = role
  <2> DEFINE a == Finish(px.committing, TRUE)
             d == Call("round", None)
             n == a \o <<d>>
  <2>1. ~Resetting'
    BY <1>2, <1>7, LifeCommitFinish
  <2>2. px'.value = None /\ px'.txn = px.txn /\ px'.pending = px.pending
    BY <1>2, <1>7 DEF PaxosType
  <2>3. /\ a \in Seq(Calls) /\ \A c \in Range(a) : c.do = "finish" /\ c.arg \in Range(px.committing)
    <3>1. px.committing \in Seq(Contexts)
      BY <1>2 DEF PaxosType
    <3> QED BY <3>1, FinishOk
  <2>4. d \in Calls /\ d.do = "round" /\ agenda' = n
    BY <1>7, CallTypes DEF Call, PlainCalls
  <2> HIDE DEF a, d
  <2>5. <<d>> \in Seq(Calls) /\ Range(<<d>>) = {d}
    BY <2>4, CountShort
  <2>6. n \in Seq(Calls) /\ Range(n) = Range(a) \cup {d}
    BY <2>3, <2>5, CountCalls
  <2> HIDE DEF n
  <2>7. Todo' = Range(n) /\ agenda = <<>>
    BY <1>1, <1>2, <2>4, <2>6, AgendaFresh
  <2>8. ASSUME NEW op \in Ops PROVE (AckCall(op) \in Todo)' => AckCall(op) \in Todo
    <3>1. AckCall(op)' = AckCall(op) /\ AckCall(op).do = "finish" /\ AckCall(op).arg.kind = "ack"
      BY DEF AckCall, Call, OpContext
    <3>2. \A c \in Range(n) : c.do = "finish" => c.arg.kind = "committed"
      BY <1>2, <2>3, <2>4, <2>6 DEF ListInv
    <3> QED BY <2>7, <3>1, <3>2
  <2>9. Grows /\ \A op, s : Change(op, s) \in px.value => Logged(op, s)'
    BY <1>1, <1>2, <1>3, LogGrows
  <2>10. Txn(px') = Txn(px)
    BY <2>2 DEF Txn
  <2>11. Commits
    BY <1>3, <2>2, <2>9, <2>10 DEF Commits, UnderWay
  <2>12. \A op, s : (Encoded(op, s)' => Encoded(op, s)) /\ ~UnderWay(op, s)'
    BY <2>2, <2>10 DEF Encoded, UnderWay, Change
  <2>13. uncommitted' \in {uncommitted, None, px'.value}
    BY <1>1
  <2> QED BY <1>1, <1>2, <1>4, <1>5, <2>1, <2>7, <2>8, <2>11, <2>12, <2>13, WayQuiet DEF NoNewAcks
<1> QED BY <1>6, <1>7 DEF CommitFinish

LEMMA WayLearnCommit ==
  ASSUME Life, Life', AckInv, OrderInv, LearnCommit
  PROVE  AckInv' /\ OrderInv'
<1>1. /\ LockFree /\ role = "peon" /\ UNCHANGED <<px, svc>> /\ uncommitted' = None
      /\ agenda' = ForEach("refreshed")
  BY DEF LearnCommit, DispatchFree
<1>2. ~Resetting /\ ~Resetting' /\ TypeInv
  BY <1>1, FreeMember, LifeLearnCommit DEF Life
<1>3. PICK T \in Transactions :
        /\ log' = Append(log, T)
        /\ \A op \in Ops : op.kind = "cross" /\ Change(op, op.svc) \in T =>
             Change(op, op.other) \in T \/ Logged(op, op.other)
        /\ \A op \in acked' : op \in acked \/ (op \in Ops /\ \A s \in Touched(op) : Change(op, s) \in T)
  <2>1. CASE uncommitted # None /\ log' = Append(log, uncommitted) /\ UNCHANGED acked
    <3>1. uncommitted \in Transactions
      BY <1>2, <2>1 DEF TypeInv
    <3> QED BY <2>1, <3>1 DEF OrderInv
  <2>2. CASE log' = Append(log, {Initial(s) : s \in Services}) /\ UNCHANGED acked
    <3>1. {Initial(s) : s \in Services} \in Transactions
      BY LearntTypes
    <3>2. \A op, t : Change(op, t) \notin {Initial(s) : s \in Services}
      BY ChangesDiffer
    <3> QED BY <2>2, <3>1, <3>2
  <2>3. ASSUME NEW op \in routed, acked' = acked \cup {op},
               log' = Append(log, {Change(op, s) : s \in Touched(op)})
        PROVE  \E T \in Transactions :
                 /\ log' = Append(log, T)
                 /\ \A o \in Ops : o.kind = "cross" /\ Change(o, o.svc) \in T =>
                      Change(o, o.other) \in T \/ Logged(o, o.other)
                 /\ \A o \in acked' : o \in acked \/ (o \in Ops /\ \A s \in Touched(o) : Change(o, s) \in T)
    <3> DEFINE T == {Change(op, s) : s \in Touched(op)}
    <3>1. op \in Ops /\ T \in Transactions /\ log' = Append(log, T)
      BY <1>2, <2>3, LearntTypes DEF TypeInv
    <3>2. ASSUME NEW o \in Ops, o.kind = "cross", Change(o, o.svc) \in T PROVE Change(o, o.other) \in T
      <4>1. o = op
        BY <3>2, ChangesDiffer
      <4>2. o.other \in Touched(op)
        BY <3>2, <4>1 DEF Touched
      <4> QED BY <4>1, <4>2
    <3>3. \A s \in Touched(op) : Change(op, s) \in T
      OBVIOUS
    <3> HIDE DEF T
    <3> QED BY <2>3, <3>1, <3>2, <3>3
  <2> QED BY <2>1, <2>2, <2>3 DEF LearnCommit
<1>4. LogStep
  BY <1>3 DEF LogStep
<1>5. Grows /\ \A op, s : Change(op, s) \in T => Logged(op, s)'
  BY <1>2, <1>3, LogGrows
<1>6. \A op \in acked' : op \in acked \/ AllLogged(op)'
  BY <1>3, <1>5 DEF AllLogged, Touched
<1>7. Keeps /\ \A op, s : (Encoded(op, s)' => Encoded(op, s)) /\ (UnderWay(op, s)' => UnderWay(op, s))
  BY <1>1, <1>5 DEF Keeps, Encoded, UnderWay, Change, Txn
<1>8. NoNewAcks /\ \A op \in Ops : \A s \in Services : Pending(op, s)' <=> Pending(op, s)
  BY <1>1, SameValues DEF NoNewAcks
<1> DEFINE n == ForEach("refreshed")
<1>9. n \in Seq(Calls) /\ (\A c \in Range(n) : c.do = "refreshed") /\ agenda' = n
  <2>1. n \in Seq(Calls) /\ Range(n) = {Call("refreshed", s) : s \in Services}
    BY CountForEach DEF ServiceCalls
  <2> QED BY <1>1, <2>1 DEF Call
<1> HIDE DEF n
<1>10. Todo' = Range(n) /\ agenda = <<>>
  BY <1>1, <1>2, <1>9, AgendaFresh
<1>11. \A op \in Ops : (AckCall(op) \in Todo)' => AckCall(op) \in Todo
  BY <1>9, <1>10 DEF AckCall, Call, OpContext
<1>12. uncommitted' \in {uncommitted, None, px'.value}
  BY <1>1
<1> QED BY <1>2, <1>4, <1>6, <1>7, <1>8, <1>10, <1>11, <1>12, WayQuiet DEF NoNewAcks

-----------------------------------------------------------------------------
(* Theorems *)

LEMMA WayNext ==
  ASSUME Life, Life', AckInv, OrderInv, [Next]_vars
  PROVE  AckInv' /\ OrderInv'
<1>1. CASE Run /\ Resetting
  BY <1>1, WayLeavingRun
<1>2. CASE Run /\ ~Resetting
  <2>1. ~Restart /\ ~Discard /\ ~ChangeRole
    <3>1. agenda # <<>> => Head(agenda) \in Todo
      BY <1>2, MemberFacts, CallsDone
    <3> QED BY <1>2, <3>1, MemberFacts DEF CallInv, Restart, Discard, ChangeRole
  <2> QED BY <1>2, <2>1, WayDispatch, WayProposePending, WayActive, WayFinishContext, WayWakes, WayRoundRest,
             WayElection DEF Run
<1>3. CASE UNCHANGED vars
  BY <1>3, WaySame DEF vars
<1>4. CASE Lease
  <2>1. ~Resetting
    BY <1>4, FreeMember DEF Lease, DispatchFree
  <2> QED BY <1>4, <2>1, WayWakes
<1> QED BY <1>1, <1>2, <1>3, <1>4, WayElect, WayElected, WayRequest, WayProposalTimer, WayMaybeTrim,
           WayCollectDone, WayCommitStart, WayCommitFinish, WayLearnCommit DEF Next, DispatchThread

LEMMA WayInit ==
  ASSUME Init
  PROVE  AckInv /\ OrderInv
<1>1. /\ px.value = None /\ px.txn = None /\ uncommitted = None /\ acked = {} /\ agenda = <<>>
      /\ \A s \in Services : svc[s].value = {} /\ svc[s].waiting = <<>>
  BY DEF Init
<1>2. Todo = {} /\ \A s \in Services : Range(svc[s].waiting) = {}
  BY <1>1, CountShort DEF Todo
<1>3. \A i \in DOMAIN log : \A op, s : Change(op, s) \notin log[i]
  <2>1. CASE log = <<>>
    BY <2>1
  <2>2. CASE log = <<{Initial(s) : s \in Services}>>
    BY <2>2, ChangesDiffer
  <2> QED BY <2>1, <2>2 DEF Init
<1>4. AckInv
  BY <1>1, <1>2 DEF AckInv, AckedIsCommitted
<1>5. OrderInv
  BY <1>1, <1>3, TouchedType DEF OrderInv, UnderWay, Encoded, Pending, Txn
<1> QED BY <1>4, <1>5

\* The changes of a request that will be acknowledged are on their way, in order.
THEOREM ServiceWay == Spec => [](AckInv /\ OrderInv)
<1>1. Init => AckInv /\ OrderInv
  BY WayInit
<1>2. Life /\ Life' /\ AckInv /\ OrderInv /\ [Next]_vars => AckInv' /\ OrderInv'
  BY WayNext
<1>3. Spec => []Life
  BY ServiceLife
<1> QED BY <1>1, <1>2, <1>3, PTL DEF Spec

\* A client gets its answer (C_Command) only when the changes of its request to
\* every service are committed, whatever elections, other proposals or values of
\* old rounds come between.
THEOREM ServiceAcks == Spec => []AckedIsCommitted
<1>1. AckInv => AckedIsCommitted
  BY DEF AckInv
<1> QED BY <1>1, ServiceWay, PTL

\* mds fail: the change of the other service is committed with the one of the
\* service itself or before it.
THEOREM ServiceOrder == Spec => []OtherComesFirst
<1>1. OrderInv => OtherComesFirst
  BY DEF OrderInv, OtherComesFirst
<1> QED BY <1>1, ServiceWay, PTL
=============================================================================
