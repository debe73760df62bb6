---------------------------- MODULE PaxosService ----------------------------
(***************************************************************************)
(* The services of one monitor over its Paxos (src/src/mon/PaxosService.cc  *)
(* and .h): the pending value that requests add to, the timer that delays   *)
(* its proposal, the proposals of several services in one transaction of    *)
(* Paxos, and the contexts that wait for all this.                          *)
(*                                                                          *)
(* The monitor's lock is held from the call that takes it to its return.    *)
(* agenda is what the thread that holds it still has to do; a list of       *)
(* contexts that is finished goes to its front.  The lock is free when the  *)
(* agenda is empty, and while the dispatch thread waits for the store in    *)
(* wait_for_paxos_write.                                                    *)
(*                                                                          *)
(* Paxos is what one monitor of a larger quorum sees of it: see Paxos for   *)
(* the protocol.  Its leases do not expire here, and only the version a     *)
(* service starts from is kept of its history.                              *)
(***************************************************************************)
EXTENDS Integers, Sequences, FiniteSets, SequencesExt, FiniteSetsExt

CONSTANTS
  Order,        \* the services, in the order of Monitor::paxos_service
  Ops,          \* requests: see OpAssumption
  MaxRestarts,  \* bound: elections and bootstraps
  MaxTrims,     \* bound: transactions that trim a service
  None

Services == Range(Order)

\* An op is of kind "plain" (one service), "cross" (another service is made to
\* propose first, as by mds fail) or "batch" (another service's change goes in the
\* same transaction, as by osd destroy).
ASSUME OpAssumption ==
  \A op \in Ops : /\ op.svc \in Services
                  /\ op.kind \in {"plain", "cross", "batch"}
                  /\ op.kind \in {"cross", "batch"} => op.other \in Services \ {op.svc}
ASSUME OrderAssumption ==
  Order \in Seq(Services) /\ \A i, j \in DOMAIN Order : Order[i] = Order[j] => i = j
ASSUME ServiceBounds == {MaxRestarts, MaxTrims} \subseteq Nat

VARIABLES
  role,         \* state of the Monitor: "probing", "electing", "leader", "peon"
  px,           \* its Paxos: state, the pending transaction and the value proposed,
                \* pending_finishers, committing_finishers and the lists of waiters
  svc,          \* svc[s]: the state of a service
  log,          \* the transactions that are committed, each a set of changes
  uncommitted,  \* the transaction that this monitor accepted last, if not committed
  acked,        \* the ops whose clients have got an answer
  routed,       \* routed_requests
  agenda,
  flushing,     \* what the dispatch thread does when wait_for_paxos_write ends
  restarts, trims

vars == <<role, px, svc, log, uncommitted, acked, routed, agenda, flushing, restarts, trims>>

\* What an op changes of a service
Change(op, s) == [op |-> op, svc |-> s]
Initial(s) == [initial |-> TRUE, svc |-> s]
Trimmed(s) == [trim |-> TRUE, svc |-> s]

\* What a transaction may hold, and None is no transaction
Changes == UNION {{Change(op, s) : op \in Ops} \cup {Initial(s), Trimmed(s)} : s \in Services}

ASSUME NoneAssumption == \A T \in SUBSET Changes : T # None

Context(kind, s) == [kind |-> kind, svc |-> s]
OpContext(kind, op) == [kind |-> kind, op |-> op]
Call(do, arg) == [do |-> do, arg |-> arg]
Finish(contexts, ok) ==
  [i \in DOMAIN contexts |-> [do |-> IF ok THEN "finish" ELSE "again", arg |-> contexts[i]]]
ForEach(do) == [i \in DOMAIN Order |-> Call(do, Order[i])]

LockFree == agenda = <<>>
DispatchFree == LockFree /\ flushing = None

\* The services that op changes
Touched(op) == IF op.kind \in {"cross", "batch"} THEN {op.svc, op.other} ELSE {op.svc}

\* The contexts that wait for something
Waiting == UNION ({Range(svc[s].waiting) : s \in Services} \cup {Range(px.active), Range(px.readable)})
Waits(op) == \E c \in Waiting : c.kind \in {"retry", "ack"} /\ c.op = op

-----------------------------------------------------------------------------
(* Conditions *)

IsActive(s) == ~svc[s].proposing /\ px.state \in {"active", "updating", "writing"}

Committed(s) == \E i \in DOMAIN log : \E c \in log[i] : c.svc = s

IsReadable(s) ==
  role \in {"leader", "peon"} /\ px.state \in {"active", "updating", "writing"} /\ Committed(s)

IsWriteable(s) == IsActive(s) /\ svc[s].have_pending

\* What propose_pending asserts, and get_pending_transaction
MayPropose(s) ==
  svc[s].have_pending /\ ~svc[s].proposing /\ role = "leader" /\ IsActive(s)

-----------------------------------------------------------------------------
(* Paxos *)

Txn(p) == IF p.txn = None THEN {} ELSE p.txn

\* Mutant: the finishers are not taken over with the transaction
ProposedWithout(p) ==
  [p EXCEPT !.state = "updating", !.value = p.txn, !.txn = None]

\* Paxos::propose_pending and begin
Proposed(p) ==
  [p EXCEPT !.state = "updating", !.value = p.txn, !.txn = None,
            !.committing = p.pending, !.pending = p.committing]

\* Paxos::trigger_propose
Triggered(p) == IF p.state = "active" THEN Proposed(p) ELSE p

\* begin stores the value
Accepts(p) == uncommitted' = IF p.value # px.value /\ p.value # None THEN p.value ELSE uncommitted

-----------------------------------------------------------------------------
(* Calls under the lock *)

\* The thread goes on with what it had to do after the calls of next
Continue(next) == agenda' = next \o Tail(agenda)

Wait(list, c) == [list EXCEPT !.waiting = Append(@, c)]

\* wait_for_active: with Paxos, or with the service when it is proposing
WaitForActive(s, c) ==
  IF svc[s].proposing THEN svc' = [svc EXCEPT ![s] = Wait(@, c)] /\ UNCHANGED px
  ELSE px' = [px EXCEPT !.active = Append(@, c)] /\ UNCHANGED svc

\* wait_for_readable
WaitForReadable(s, c) ==
  IF svc[s].proposing \/ ~Committed(s)
  THEN svc' = [svc EXCEPT ![s] = Wait(@, c)] /\ UNCHANGED px
  ELSE px' = [px EXCEPT !.readable = Append(@, c)] /\ UNCHANGED svc

\* Mutant: the other service's change is proposed by itself
UnpluggedCalls(op) == <<Call("propose", op.other), Call("propose", op.svc)>>

\* osd destroy, osd purge and osd new: the other service puts its change into the
\* transaction of Paxos, which is plugged, and force_immediate_propose
BatchCalls(op) == <<Call("plugged", op.other), Call("propose", op.svc)>>

\* Mutant: the other service proposes last
PrepareOwnFirst(op, now) ==
  [calls |-> <<Call("propose", op.svc)>> \o
             (IF op.kind = "cross" THEN <<Call("propose", op.other)>> ELSE <<>>),
   timer |-> FALSE]

\* prepare_update, and what dispatch does after it: the proposals, and whether the
\* one of the service is delayed (should_propose) or made now
Prepare(op, now) ==
  LET propose == IF now THEN <<Call("propose", op.svc)>> ELSE <<>>
  IN  CASE op.kind = "plain" -> [calls |-> propose, timer |-> ~now]
        [] op.kind = "cross" -> [calls |-> <<Call("propose", op.other)>> \o propose, timer |-> ~now]
        [] op.kind = "batch" -> [calls |-> BatchCalls(op), timer |-> FALSE]

\* PaxosService::dispatch
Dispatch ==
  /\ agenda # <<>> /\ Head(agenda).do = "dispatch"
  /\ LET op == Head(agenda).arg
         s == op.svc
         retry == OpContext("retry", op)
     IN  \/ /\ ~IsReadable(s)
            /\ WaitForReadable(s, retry)
            /\ Continue(<<>>) /\ UNCHANGED routed
         \/ /\ IsReadable(s) /\ role # "leader"
            /\ routed' = routed \cup {op}
            /\ Continue(<<>>) /\ UNCHANGED <<px, svc>>
         \/ /\ IsReadable(s) /\ role = "leader"
            /\ \E t \in Touched(op) :
                 /\ ~IsWriteable(t) /\ (t # s => IsWriteable(s))
                 /\ WaitForActive(t, retry)
            /\ Continue(<<>>) /\ UNCHANGED routed
         \/ /\ IsReadable(s) /\ role = "leader"
            /\ \A t \in Touched(op) : IsWriteable(t)
            /\ \E now \in BOOLEAN :
                 /\ svc' = [t \in Services |->
                      IF t \notin Touched(op) THEN svc[t]
                      ELSE [svc[t] EXCEPT
                             !.value = @ \cup {Change(op, t)},
                             !.timer = @ \/ (t = s /\ Prepare(op, now).timer),
                             !.waiting = IF t = s THEN Append(@, OpContext("ack", op)) ELSE @]]
                 /\ Continue(Prepare(op, now).calls)
            /\ UNCHANGED <<px, routed>>
  /\ UNCHANGED <<role, log, uncommitted, acked, flushing, restarts, trims>>

\* propose_pending: the timer is canceled, the value goes into the transaction
Encode(s) ==
  svc' = [svc EXCEPT ![s].have_pending = FALSE, ![s].value = {}, ![s].proposing = TRUE,
                     ![s].timer = FALSE]

ProposePending ==
  /\ agenda # <<>> /\ Head(agenda).do \in {"propose", "plugged"}
  /\ LET s == Head(agenda).arg
         p == [px EXCEPT !.txn = Txn(px) \cup svc[s].value,
                         !.pending = Append(@, Context("committed", s))]
     IN  /\ MayPropose(s)
         /\ Encode(s)
         /\ px' = IF Head(agenda).do = "plugged" THEN p ELSE Triggered(p)
         /\ Accepts(px')
  /\ Continue(<<>>)
  /\ UNCHANGED <<role, log, acked, routed, flushing, restarts, trims>>

\* PaxosService::_active
Active ==
  /\ agenda # <<>> /\ Head(agenda).do = "active"
  /\ LET s == Head(agenda).arg
     IN  \/ /\ svc[s].proposing
            /\ Continue(<<>>) /\ UNCHANGED <<px, svc>>
         \/ /\ ~svc[s].proposing /\ ~IsActive(s)
            /\ WaitForActive(s, Context("active", s)) /\ Continue(<<>>)
         \/ /\ IsActive(s) /\ role = "leader" /\ ~Committed(s)
            /\ svc' = [svc EXCEPT ![s].have_pending = TRUE, ![s].value = @ \cup {Initial(s)}]
            /\ Continue(<<Call("propose", s)>>) /\ UNCHANGED px
         \/ /\ IsActive(s) /\ (role = "leader" => Committed(s))
            /\ svc' = [svc EXCEPT ![s].have_pending = @ \/ role = "leader", ![s].waiting = <<>>]
            /\ Continue(Finish(svc[s].waiting, TRUE)) /\ UNCHANGED px
  /\ UNCHANGED <<role, log, uncommitted, acked, routed, flushing, restarts, trims>>

\* A context ends, with 0 or with -EAGAIN: C_Active, C_Committed, C_RetryMessage,
\* C_Command
FinishContext ==
  /\ agenda # <<>> /\ Head(agenda).do \in {"finish", "again"}
  /\ LET c == Head(agenda).arg
         ok == Head(agenda).do = "finish"
     IN  /\ svc' = IF c.kind = "committed" THEN [svc EXCEPT ![c.svc].proposing = FALSE] ELSE svc
         /\ acked' = IF c.kind = "ack" /\ ok THEN acked \cup {c.op} ELSE acked
         /\ Continue(CASE c.kind \in {"active", "committed"} ->
                            IF ok THEN <<Call("active", c.svc)>> ELSE <<>>
                       [] c.kind = "retry" -> <<Call("dispatch", c.op)>>
                       [] c.kind = "ack" -> IF ok THEN <<>> ELSE <<Call("dispatch", c.op)>>)
  /\ UNCHANGED <<role, px, log, uncommitted, routed, flushing, restarts, trims>>

\* Mutant: those that wait to read are left
FinishRoundUnread ==
  /\ agenda # <<>> /\ Head(agenda).do = "round"
  /\ px' = [px EXCEPT !.state = "active", !.active = <<>>]
  /\ Continue(Finish(px.active, TRUE) \o <<Call("rest", None)>>)
  /\ UNCHANGED <<role, svc, log, uncommitted, acked, routed, flushing, restarts, trims>>

\* Paxos::finish_round
FinishRound ==
  /\ agenda # <<>> /\ Head(agenda).do = "round"
  /\ px' = [px EXCEPT !.state = "active", !.active = <<>>]
  /\ Continue(Finish(px.active, TRUE) \o <<Call("readable", None), Call("rest", None)>>)
  /\ UNCHANGED <<role, svc, log, uncommitted, acked, routed, flushing, restarts, trims>>

\* Those that wait for Paxos to be readable are woken.
KickReadable ==
  /\ agenda # <<>> /\ Head(agenda).do = "readable"
  /\ px' = [px EXCEPT !.readable = <<>>]
  /\ Continue(Finish(px.readable, TRUE))
  /\ UNCHANGED <<role, svc, log, uncommitted, acked, routed, flushing, restarts, trims>>

\* The rest of finish_round: what came in meanwhile is proposed.
RoundRest ==
  /\ agenda # <<>> /\ Head(agenda).do = "rest"
  /\ px' = IF px.state = "active" /\ px.txn # None THEN Proposed(px) ELSE px
  /\ Accepts(px')
  /\ Continue(<<>>)
  /\ UNCHANGED <<role, svc, log, acked, routed, flushing, restarts, trims>>

\* Mutant: the timer is not canceled
RestartKeepsTimer(t) == [t EXCEPT !.waiting = <<>>]

\* PaxosService::restart up to finish_contexts
Restarted(t) == [t EXCEPT !.timer = FALSE, !.waiting = <<>>]

\* Mutant: those that wait get 0, not -EAGAIN
RestartAcks ==
  /\ agenda # <<>> /\ Head(agenda).do = "restart"
  /\ LET s == Head(agenda).arg
     IN  /\ svc' = [svc EXCEPT ![s] = Restarted(@)]
         /\ Continue(Finish(svc[s].waiting, TRUE) \o <<Call("discard", s)>>)
  /\ UNCHANGED <<role, px, log, uncommitted, acked, routed, flushing, restarts, trims>>

Restart ==
  /\ agenda # <<>> /\ Head(agenda).do = "restart"
  /\ LET s == Head(agenda).arg
     IN  /\ svc' = [svc EXCEPT ![s] = Restarted(@)]
         /\ Continue(Finish(svc[s].waiting, FALSE) \o <<Call("discard", s)>>)
  /\ UNCHANGED <<role, px, log, uncommitted, acked, routed, flushing, restarts, trims>>

\* ... and the rest of it
Discard ==
  /\ agenda # <<>> /\ Head(agenda).do = "discard"
  /\ svc' = [svc EXCEPT ![Head(agenda).arg].have_pending = FALSE,
                        ![Head(agenda).arg].value = {},
                        ![Head(agenda).arg].proposing = FALSE]
  /\ Continue(<<>>)
  /\ UNCHANGED <<role, px, log, uncommitted, acked, routed, flushing, restarts, trims>>

\* PaxosService::election_finished; post_refresh at a peon is its first half
ElectionFinished ==
  /\ agenda # <<>> /\ Head(agenda).do \in {"elected", "refreshed"}
  /\ LET s == Head(agenda).arg
     IN  /\ svc' = [svc EXCEPT ![s].waiting = <<>>]
         /\ Continue(Finish(svc[s].waiting, FALSE) \o
                     (IF Head(agenda).do = "elected" THEN <<Call("active", s)>> ELSE <<>>))
  /\ UNCHANGED <<role, px, log, uncommitted, acked, routed, flushing, restarts, trims>>

\* The end of win_election: the metadata of the quorum wait in the transaction
\* for the first proposal, and the requests that were forwarded come back.
FinishElection ==
  /\ agenda # <<>> /\ Head(agenda).do = "finished"
  /\ px' = IF role = "leader" THEN [px EXCEPT !.txn = Txn(px)] ELSE px
  /\ routed' = IF role = "leader" THEN {} ELSE routed
  /\ Continue(IF role = "leader"
              THEN [i \in 1 .. Cardinality(routed) |-> Call("dispatch", SetToSeq(routed)[i])]
              ELSE <<>>)
  /\ UNCHANGED <<role, svc, log, uncommitted, acked, flushing, restarts, trims>>

\* start_election and join_election change the state after _reset
ChangeRole ==
  /\ agenda # <<>> /\ Head(agenda).do = "role"
  /\ role' = Head(agenda).arg
  /\ Continue(<<>>)
  /\ UNCHANGED <<px, svc, log, uncommitted, acked, routed, flushing, restarts, trims>>

Run ==
  \/ Dispatch \/ ProposePending \/ Active \/ FinishContext \/ FinishRound \/ KickReadable
  \/ RoundRest \/ Restart \/ Discard \/ ElectionFinished \/ FinishElection \/ ChangeRole

-----------------------------------------------------------------------------
(* What takes the lock *)

\* A request of a client
Request(op) ==
  /\ DispatchFree
  /\ op \notin acked \cup routed
  /\ ~Waits(op)
  /\ agenda' = <<Call("dispatch", op)>>
  /\ UNCHANGED <<role, px, svc, log, uncommitted, acked, routed, flushing, restarts, trims>>

\* The proposal_timer of s
ProposalTimer(s) ==
  /\ LockFree /\ svc[s].timer
  /\ svc' = [svc EXCEPT ![s].timer = FALSE]
  /\ agenda' = <<Call("propose", s)>>
  /\ UNCHANGED <<role, px, log, uncommitted, acked, routed, flushing, restarts, trims>>

\* Monitor::tick, maybe_trim
MaybeTrim(s) ==
  /\ LockFree /\ IsWriteable(s)
  /\ trims < MaxTrims /\ trims' = trims + 1
  /\ px' = Triggered([px EXCEPT !.txn = Txn(px) \cup {Trimmed(s)}])
  /\ Accepts(px')
  /\ UNCHANGED <<role, svc, log, acked, routed, agenda, flushing, restarts>>

\* Paxos::restart and the services' restart, in Monitor::_reset
Reset(then) ==
  /\ px' = [px EXCEPT !.state = "recovering", !.txn = None, !.value = None, !.active = <<>>,
                      !.committing = <<>>, !.pending = <<>>]
  /\ agenda' = Finish(px.committing \o px.pending \o px.active, FALSE)
               \o ForEach("restart") \o then

Bootstrap == role' = "probing" /\ Reset(<<>>)

\* The accept, the lease or the collect timer of Paxos goes off.  None runs while
\* the store writes.
Timeout ==
  /\ LockFree /\ role \in {"leader", "peon"} /\ px.state \notin {"writing", "writing_previous"}
  /\ restarts < MaxRestarts /\ restarts' = restarts + 1
  /\ Bootstrap
  /\ UNCHANGED <<svc, log, uncommitted, acked, routed, flushing, trims>>

\* start_election and join_election.  wait_for_paxos_write lets go of the lock if
\* the store writes.
Elect ==
  /\ IF px.state \in {"writing", "writing_previous"}
     THEN flushing' = "electing" /\ UNCHANGED <<px, agenda>>
     ELSE Reset(<<Call("role", "electing")>>) /\ UNCHANGED flushing
  /\ UNCHANGED <<role, svc, log, uncommitted, acked, routed, trims>>

\* A message of another monitor starts an election.
StartElection ==
  /\ DispatchFree /\ role \in {"leader", "peon"}
  /\ restarts < MaxRestarts /\ restarts' = restarts + 1
  /\ Elect

\* Enough monitors have answered the probes.
EndProbing == DispatchFree /\ role = "probing" /\ Elect /\ UNCHANGED restarts

\* The store is flushed: its last write is done, with all that follows it.
Flushed ==
  /\ LockFree /\ flushing # None /\ px.state \notin {"writing", "writing_previous"}
  /\ flushing' = None
  /\ Reset(<<Call("role", flushing)>>)
  /\ UNCHANGED <<role, svc, log, uncommitted, acked, routed, restarts, trims>>

\* win_election and leader_init: the monmap's service comes first
WinElection ==
  /\ DispatchFree /\ role = "electing" /\ role' = "leader"
  /\ agenda' = ForEach("elected") \o <<Call("finished", None)>>
  /\ UNCHANGED <<px, svc, log, uncommitted, acked, routed, flushing, restarts, trims>>

\* lose_election and peon_init
LoseElection ==
  /\ DispatchFree /\ role = "electing" /\ role' = "peon"
  /\ agenda' = ForEach("elected") \o <<Call("finished", None)>>
  /\ UNCHANGED <<px, svc, log, uncommitted, acked, routed, flushing, restarts, trims>>

\* handle_last: everyone has answered.  The old value is proposed again, or a
\* later leader has committed another one in its place.
CollectDone ==
  /\ DispatchFree /\ role = "leader" /\ px.state = "recovering"
  /\ \/ /\ uncommitted # None
        /\ px' = [px EXCEPT !.state = "updating_previous", !.value = uncommitted]
        /\ UNCHANGED <<agenda, uncommitted>>
     \/ /\ uncommitted' = None
        /\ agenda' = <<Call("round", None)>>
        /\ UNCHANGED px
  /\ UNCHANGED <<role, svc, log, acked, routed, flushing, restarts, trims>>

\* handle_accept of the last one: commit_start
CommitStart ==
  /\ DispatchFree /\ role = "leader" /\ px.state \in {"updating", "updating_previous"}
  /\ px' = [px EXCEPT !.state = IF @ = "updating" THEN "writing" ELSE "writing_previous"]
  /\ UNCHANGED <<role, svc, log, uncommitted, acked, routed, agenda, flushing, restarts, trims>>

\* The store has written: commit_finish.  A change of the monmap makes the
\* monitor bootstrap.
CommitFinish ==
  /\ LockFree /\ px.state \in {"writing", "writing_previous"}
  /\ log' = Append(log, px.value) /\ uncommitted' = None
  /\ \/ /\ px' = [px EXCEPT !.state = "refresh", !.value = None, !.committing = <<>>]
        /\ agenda' = Finish(px.committing, TRUE) \o <<Call("round", None)>>
        /\ UNCHANGED <<role, restarts>>
     \/ /\ restarts < MaxRestarts /\ restarts' = restarts + 1
        /\ Bootstrap
  /\ UNCHANGED <<svc, acked, routed, flushing, trims>>

\* A peon gets a lease: handle_lease
Lease ==
  /\ DispatchFree /\ role = "peon"
  /\ px.state # "active" \/ px.active # <<>> \/ px.readable # <<>>
  /\ px' = [px EXCEPT !.state = "active", !.active = <<>>]
  /\ agenda' = Finish(px.active, TRUE) \o <<Call("readable", None)>>
  /\ UNCHANGED <<role, svc, log, uncommitted, acked, routed, flushing, restarts, trims>>

\* A peon learns a commit: the value that it has accepted, the first values of
\* the services, or what a forwarded request made the leader propose, with the
\* reply to it.
LearnCommit ==
  /\ DispatchFree /\ role = "peon"
  /\ \/ /\ uncommitted # None /\ uncommitted' = None
        /\ log' = Append(log, uncommitted)
        /\ UNCHANGED <<acked, routed>>
     \/ /\ \E s \in Services : ~Committed(s)
        /\ log' = Append(log, {Initial(s) : s \in Services})
        /\ uncommitted' = None
        /\ UNCHANGED <<acked, routed>>
     \/ \E op \in routed :
          /\ log' = Append(log, {Change(op, s) : s \in Touched(op)})
          /\ acked' = acked \cup {op} /\ routed' = routed \ {op}
          /\ uncommitted' = None
  /\ agenda' = ForEach("refreshed")
  /\ UNCHANGED <<role, px, svc, flushing, restarts, trims>>

-----------------------------------------------------------------------------

Init ==
  /\ role = "probing"
  /\ px = [state |-> "recovering", txn |-> None, value |-> None, pending |-> <<>>,
           committing |-> <<>>, active |-> <<>>, readable |-> <<>>]
  /\ svc = [s \in Services |-> [have_pending |-> FALSE, value |-> {}, proposing |-> FALSE,
                                timer |-> FALSE, waiting |-> <<>>]]
  /\ log \in {<<>>, <<{Initial(s) : s \in Services}>>}
  /\ uncommitted = None
  /\ acked = {} /\ routed = {} /\ agenda = <<>> /\ flushing = None
  /\ restarts = 0 /\ trims = 0

DispatchThread ==
  \/ EndProbing \/ Flushed \/ WinElection \/ LoseElection \/ CollectDone \/ CommitStart
  \/ Lease \/ LearnCommit \/ \E op \in Ops : Request(op)

Next ==
  \/ Run \/ DispatchThread \/ StartElection \/ CommitFinish \/ Timeout
  \/ \E s \in Services : ProposalTimer(s) \/ MaybeTrim(s)

Spec == Init /\ [][Next]_vars

\* The threads go on, the other monitors answer and elections end.
Fairness ==
  /\ WF_vars(Run) /\ WF_vars(DispatchThread) /\ WF_vars(CommitFinish)
  /\ WF_vars(\E s \in Services : ProposalTimer(s))

LiveSpec == Spec /\ Fairness

-----------------------------------------------------------------------------
(* Properties *)

\* The assertions of propose_pending (there is a pending value, no proposal is
\* under way, the monitor leads and Paxos is active), of finish_round and of
\* commit_proposal: no timer goes off after a restart or during a proposal, no
\* context runs too early, and the store does not write for one that leads no
\* more.
AssertionsHold ==
  /\ agenda # <<>> /\ Head(agenda).do \in {"propose", "plugged"} => MayPropose(Head(agenda).arg)
  /\ agenda # <<>> /\ Head(agenda).do = "round" => role = "leader"
  /\ px.state \in {"writing", "writing_previous"} => role = "leader"

\* A client gets its answer (C_Command) only when the changes of its request are
\* committed, whatever elections, other proposals or values of old rounds came
\* between.
AckedIsCommitted ==
  \A op \in acked : \A s \in Touched(op) : \E i \in DOMAIN log : Change(op, s) \in log[i]

\* mds fail: the change of the other service (the blacklist of the osdmap) is
\* committed with the one of the service itself or before it.
OtherComesFirst ==
  \A op \in Ops : op.kind = "cross" =>
    \A i \in DOMAIN log : Change(op, op.svc) \in log[i] =>
      \E j \in 1 .. i : Change(op, op.other) \in log[j]

\* osd destroy, osd new: the changes of the two services are committed in one
\* transaction, or neither is.
BatchIsAtomic ==
  \A op \in Ops : op.kind = "batch" =>
    \A i \in DOMAIN log : Change(op, op.svc) \in log[i] <=> Change(op, op.other) \in log[i]

\* A service that is proposing hears of its end: its C_Committed waits, once, with
\* a transaction that is under way or that will be proposed.
ProposalIsHeardOf ==
  LockFree => \A s \in Services :
    LET n(l) == Cardinality({i \in DOMAIN l : l[i] = Context("committed", s)})
    IN  /\ n(px.pending) + n(px.committing) = IF svc[s].proposing THEN 1 ELSE 0
        /\ n(px.pending) > 0 => px.txn # None /\ px.state \in {"updating", "writing"}
        /\ n(px.committing) > 0 => px.state \in {"updating", "writing"}

\* The op waits for the next round of Paxos.
Parked(op) == OpContext("retry", op) \in Range(px.active)

\* Every request is answered at last.  One that needs a second service may wait
\* for the next round, which someone else has to propose: wait_for_writeable puts
\* it with those that wait for Paxos to become active when the second service
\* has no pending value yet, though Paxos is active (the second service's C_Active
\* comes later in the same list).
EventuallyAcked ==
  \A op \in Ops : IF op.kind = "plain" THEN <>(op \in acked)
                 ELSE <>[](op \in acked \/ Parked(op))
=============================================================================
