------------------------------- MODULE Elector -------------------------------
(***************************************************************************)
(* Leader election among the monitors of one monmap: src/src/mon/Elector.cc *)
(* together with the parts of src/src/mon/Monitor.cc that drive it          *)
(* (bootstrap, join_election, start_election, win_election, lose_election   *)
(* and the filtering in dispatch_op).                                       *)
(*                                                                          *)
(* A monitor is named by its rank; the lower rank wins.  An odd epoch is an *)
(* election in progress, an even one a quorum.  Messages travel on one FIFO *)
(* channel per ordered pair of monitors: the monitors talk over lossless    *)
(* connections, which lose messages only when an end restarts.              *)
(*                                                                          *)
(* A handler of the code is a chain of calls on one monitor's state.  The   *)
(* operators below that return a record [s, out] are those calls: s is the  *)
(* monitor's state after the call and out[d] the messages it sent to d.     *)
(***************************************************************************)
EXTENDS Integers, Sequences, FiniteSets

CONSTANTS
  N,             \* monmap->size()
  Old,           \* monitors without the required monitor features
  OldConns,      \* what oldConn may be
  MaxEarly,      \* bound: timers that fire while messages are in flight
  MaxFaults,     \* bound: bootstraps and operator commands
  MaxRestarts,   \* bound: restarts of a monitor
  MaxTroubles,   \* bound: all of these together
  MaxEpoch       \* bound: no step moves a monitor beyond this epoch

Rank == 0 .. N - 1

ASSUME NAssumption == N \in Nat \ {0}
ASSUME FeatureAssumption == Old \subseteq Rank /\ OldConns \subseteq SUBSET Rank
ASSUME BoundAssumption ==
  {MaxEarly, MaxFaults, MaxRestarts, MaxTroubles} \subseteq Nat /\ MaxEpoch \in Nat \ {0}

VARIABLES
  mon,      \* mon[m]: the state of monitor m
  net,      \* net[m][d]: messages in flight from m to d, oldest first
  regime,   \* history: who accepted which leader and quorum in which epoch
  oldConn,  \* monitors without the required connection features
  early,    \* number of timers that fired while messages were in flight
  faults,   \* number of bootstraps and commands so far
  restarts  \* number of restarts so far

bounds == <<early, faults, restarts>>
vars == <<mon, net, regime, oldConn, bounds>>

States == {"probing", "electing", "leader", "peon", "exited"}

\* The election timer is off, or set by reset_timer() or reset_timer(1.0)
Timers == {"off", "plain", "extended"}

Majority(Q) == 2 * Cardinality(Q) > N

Odd(e) == e % 2 = 1

MonitorState ==
  [state        : States,
   epoch        : Nat,             \* Elector::epoch
   stored       : Nat,             \* "election_epoch" in the store
   joined       : BOOLEAN,         \* has_ever_joined, persistent
   participating: BOOLEAN,
   electing_me  : BOOLEAN,
   acked_me     : SUBSET Rank,
   leader_acked : Rank \cup {-1},
   timer        : Timers,          \* expire_event
   leader       : Rank,
   quorum       : SUBSET Rank]

Message ==
  [op: {"PROPOSE", "ACK", "VICTORY", "NAK"}, epoch: Nat, quorum: SUBSET Rank]

Msg(op, e, Q) == [op |-> op, epoch |-> e, quorum |-> Q]

-----------------------------------------------------------------------------
(* The calls *)

Nothing == [d \in Rank |-> <<>>]
SendTo(D, msg) == [d \in Rank |-> IF d \in D THEN <<msg>> ELSE <<>>]
Done(s) == [s |-> s, out |-> Nothing]

\* r, then the call that returned q
Then(r, q) == [s |-> q.s, out |-> [d \in Rank |-> r.out[d] \o q.out[d]]]

\* Monitor::_reset: what it changes here is the quorum
Reset(s) == [s EXCEPT !.quorum = {}]

\* Elector::bump_epoch, with Monitor::join_election.  leader_acked is kept.
BumpEpoch(s, e) ==
  [Reset(s) EXCEPT !.epoch = e, !.stored = e, !.state = "electing",
                   !.electing_me = FALSE, !.acked_me = {}]

\* Mutant: the epoch read back is one too low
InitEpochLow(s) == [s EXCEPT !.epoch = s.stored - 1]

\* Elector::init: the epoch is read back from the store
InitEpoch(s) == [s EXCEPT !.epoch = IF s.stored = 0 THEN 1 ELSE s.stored]

\* Mutant: start() does not call init()
CandidateUnread(m, s) ==
  LET b == IF Odd(s.epoch) THEN s ELSE BumpEpoch(s, s.epoch + 1)
  IN  [b EXCEPT !.electing_me = TRUE, !.acked_me = {m},
                !.leader_acked = -1, !.timer = "plain"]

\* Elector::start
Candidate(m, s) ==
  LET i == InitEpoch(s)
      b == IF Odd(i.epoch) THEN i ELSE BumpEpoch(i, i.epoch + 1)
  IN  [b EXCEPT !.electing_me = TRUE, !.acked_me = {m},
                !.leader_acked = -1, !.timer = "plain"]

Start(m, s) ==
  IF s.participating
  THEN [s   |-> Candidate(m, s),
        out |-> SendTo(Rank \ {m}, Msg("PROPOSE", Candidate(m, s).epoch, {}))]
  ELSE Done(s)

\* Monitor::start_election
StartElection(m, s) == Start(m, [Reset(s) EXCEPT !.state = "electing"])

\* Monitor::bootstrap: the elector is left as it is, its timer included
BootstrapState(s) == [Reset(s) EXCEPT !.state = "probing"]

\* Mutant: the monitor does not note whom it acked
DeferForgets(s, who) ==
  [s   |-> [s EXCEPT !.acked_me = IF s.electing_me THEN {} ELSE @,
                     !.electing_me = FALSE, !.timer = "extended"],
   out |-> SendTo({who}, Msg("ACK", s.epoch, {}))]

\* Elector::defer
Defer(s, who) ==
  [s   |-> [s EXCEPT !.acked_me = IF s.electing_me THEN {} ELSE @,
                     !.electing_me = FALSE, !.leader_acked = who,
                     !.timer = "extended"],
   out |-> SendTo({who}, Msg("ACK", s.epoch, {}))]

\* Monitor::win_election
WinElection(m, s, Q) ==
  [s EXCEPT !.state = "leader", !.leader = m, !.quorum = Q]

\* Mutant: the quorum is copied after bump_epoch has cleared acked_me
VictoryCleared(m, s) ==
  LET Q == s.acked_me
      b == BumpEpoch([s EXCEPT !.leader_acked = -1, !.electing_me = FALSE,
                               !.timer = "off"], s.epoch + 1)
  IN  [s   |-> WinElection(m, b, Q),
       out |-> SendTo(Q \ {m}, Msg("VICTORY", b.epoch, b.acked_me))]

\* Elector::victory
Victory(m, s) ==
  LET Q == s.acked_me
      b == BumpEpoch([s EXCEPT !.leader_acked = -1, !.electing_me = FALSE,
                               !.timer = "off"], s.epoch + 1)
  IN  [s   |-> WinElection(m, b, Q),
       out |-> SendTo(Q \ {m}, Msg("VICTORY", b.epoch, Q))]

\* Monitor::lose_election
LoseElection(s, Q, l) ==
  [s EXCEPT !.state = "peon", !.leader = l, !.quorum = Q]

-----------------------------------------------------------------------------
(* The handlers, as the state and the messages they end with *)

\* nak_old_peer: sent by a monitor that has the features to one without them
Lacks(m, from, F) == from \in F /\ m \notin F

Nak(from, e) == SendTo({from}, Msg("NAK", e, {}))

\* Mutant: a later epoch is adopted and not written to the store
ProposeEpochVolatile(m, s, from, e) ==
  IF Lacks(m, from, Old) THEN [s |-> s, out |-> Nak(from, e)]
  ELSE IF e > s.epoch THEN Done([BumpEpoch(s, e) EXCEPT !.stored = s.stored])
  ELSE IF e < s.epoch THEN StartElection(m, s)
  ELSE Done(s)

\* handle_propose, up to the comparison of ranks.  A proposal without the
\* required monitor features is answered by a NAK and goes on to the
\* comparison, with the epochs left alone.
ProposeEpoch(m, s, from, e) ==
  IF Lacks(m, from, Old) THEN [s |-> s, out |-> Nak(from, e)]
  ELSE IF e > s.epoch THEN Done(BumpEpoch(s, e))
  ELSE IF e < s.epoch THEN StartElection(m, s)
  ELSE Done(s)

\* handle_propose: an old proposal, in an election or from within the quorum
IgnoresPropose(m, s, from, e) ==
  /\ ~Lacks(m, from, Old)
  /\ e < s.epoch
  /\ Odd(s.epoch) \/ from \in s.quorum

\* handle_propose: the comparison of ranks
Compare(m, s, from) ==
  IF m < from
  THEN IF s.leader_acked < 0 /\ ~s.electing_me THEN StartElection(m, s)
                                               ELSE Done(s)
  ELSE IF s.leader_acked < 0 \/ from <= s.leader_acked THEN Defer(s, from)
                                                       ELSE Done(s)

ProposeResult(m, s, from, e) ==
  IF Lacks(m, from, oldConn) THEN [s |-> s, out |-> Nak(from, e)]
  ELSE IF IgnoresPropose(m, s, from, e) THEN Done(s)
  ELSE LET r == ProposeEpoch(m, s, from, e)
       IN  Then(r, Compare(m, r.s, from))

AckResult(m, s, from, e) ==
  IF e > s.epoch THEN Start(m, BumpEpoch(s, e))
  ELSE IF Lacks(m, from, oldConn) \/ Lacks(m, from, Old) THEN Done(s)
  ELSE IF s.electing_me
       THEN LET a == [s EXCEPT !.acked_me = @ \cup {from}]
            IN  IF Cardinality(a.acked_me) = N THEN Victory(m, a) ELSE Done(a)
       ELSE Done(s)

\* Mutant: any victory is followed
VictoryResultAny(m, s, from, e, Q) ==
  Done([LoseElection(BumpEpoch([s EXCEPT !.leader_acked = -1], e), Q, from)
          EXCEPT !.timer = "off"])

VictoryResult(m, s, from, e, Q) ==
  LET d == [s EXCEPT !.leader_acked = -1]
  IN  IF e # s.epoch + 1
      THEN Start(m, BumpEpoch(d, e))
      ELSE Done([LoseElection(BumpEpoch(d, e), Q, from) EXCEPT !.timer = "off"])

\* Mutant: half of the monitors, rounded down, are enough
ExpireResultHalf(m, s) ==
  LET f == [s EXCEPT !.timer = "off"]
  IN  IF s.electing_me /\ Cardinality(s.acked_me) >= N \div 2 THEN Victory(m, f)
      ELSE IF s.joined THEN Start(m, f)
      ELSE Done(BootstrapState(f))

\* Mutant: nothing is started again when the election failed
ExpireResultGivesUp(m, s) ==
  LET f == [s EXCEPT !.timer = "off"]
  IN  IF s.electing_me /\ Majority(s.acked_me) THEN Victory(m, f) ELSE Done(f)

\* Elector::expire
ExpireResult(m, s) ==
  LET f == [s EXCEPT !.timer = "off"]
  IN  IF s.electing_me /\ Majority(s.acked_me) THEN Victory(m, f)
      ELSE IF s.joined THEN Start(m, f)
      ELSE Done(BootstrapState(f))

-----------------------------------------------------------------------------
(* Actions *)

Fresh ==
  [state |-> "probing", epoch |-> 0, stored |-> 0, joined |-> FALSE,
   participating |-> TRUE, electing_me |-> FALSE, acked_me |-> {},
   leader_acked |-> -1, timer |-> "off", leader |-> 0, quorum |-> {}]

Init ==
  /\ mon = [m \in Rank |-> Fresh]
  /\ net = [m \in Rank |-> [d \in Rank |-> <<>>]]
  /\ regime = {}
  /\ oldConn \in OldConns
  /\ early = 0
  /\ faults = 0
  /\ restarts = 0

\* Monitor m ends a step in state r.s; a winner or a follower enters history.
Enters(m, r) ==
  /\ r.s.epoch <= MaxEpoch
  /\ regime' = IF r.s.state \in {"leader", "peon"}
               THEN regime \cup {[mon |-> m, epoch |-> r.s.epoch,
                                  leader |-> r.s.leader, quorum |-> r.s.quorum]}
               ELSE regime

\* m sends r.out and has taken the oldest message of every monitor in From
Transmit(m, From, r) ==
  net' = [x \in Rank |-> [d \in Rank |->
            (IF x \in From /\ d = m THEN Tail(net[x][d]) ELSE net[x][d])
              \o (IF x = m THEN r.out[d] ELSE <<>>)]]

Step(m, From, r) ==
  mon' = [mon EXCEPT ![m] = r.s] /\ Enters(m, r) /\ Transmit(m, From, r)

Pending(m, from, op) ==
  net[from][m] # <<>> /\ Head(net[from][m]).op = op

\* dispatch_op hands election messages to the elector in these states only
Listening(m) == mon[m].state \notin {"probing", "exited"} /\ mon[m].participating

\* Elector::dispatch: all but proposals are dropped when they are old
Accepts(m, from, op) ==
  /\ Pending(m, from, op)
  /\ Listening(m)
  /\ op = "PROPOSE" \/ Head(net[from][m]).epoch >= mon[m].epoch

DropMessage(m, from) ==
  /\ net[from][m] # <<>>
  /\ ~Accepts(m, from, Head(net[from][m]).op)
  /\ net' = [net EXCEPT ![from][m] = Tail(@)]
  /\ UNCHANGED <<mon, regime, oldConn, bounds>>

HandlePropose(m, from) ==
  /\ Accepts(m, from, "PROPOSE")
  /\ Step(m, {from}, ProposeResult(m, mon[m], from, Head(net[from][m]).epoch))
  /\ UNCHANGED <<oldConn, bounds>>

HandleAck(m, from) ==
  /\ Accepts(m, from, "ACK")
  /\ Step(m, {from}, AckResult(m, mon[m], from, Head(net[from][m]).epoch))
  /\ UNCHANGED <<oldConn, bounds>>

HandleVictory(m, from) ==
  /\ Accepts(m, from, "VICTORY")
  /\ LET msg == Head(net[from][m])
     IN  Step(m, {from}, VictoryResult(m, mon[m], from, msg.epoch, msg.quorum))
  /\ UNCHANGED <<oldConn, bounds>>

\* handle_nak: the monitor cannot join this cluster and exits
HandleNak(m, from) ==
  /\ Accepts(m, from, "NAK")
  /\ Step(m, {from}, Done([mon[m] EXCEPT !.state = "exited", !.timer = "off"]))
  /\ UNCHANGED <<oldConn, bounds>>

\* handle_probe_probe: who answers a probe of m with a REPLY.  A peer that lacks
\* required connection features is told so at most, which it only logs.
Answering(m) == {x \in Rank \ {m} : mon[x].state # "exited" /\ ~Lacks(x, m, oldConn)}

\* The replies are enough for a quorum, or one of them is from within a quorum.
Probed(m) ==
  /\ mon[m].state = "probing"
  /\ \/ Majority(Answering(m) \cup {m})
     \/ \E x \in Answering(m) : mon[x].quorum # {}

\* handle_probe_reply, as the replies of one bootstrap come in
HandleProbeReply(m) ==
  /\ Probed(m)
  /\ Step(m, {}, StartElection(m, mon[m]))
  /\ UNCHANGED <<oldConn, bounds>>

\* No election message is in flight
Calm == \A x, d \in Rank : net[x][d] = <<>>

\* x takes part in the regime that m leads or follows
Follows(x, m) ==
  /\ mon[x].state = IF x = mon[m].leader THEN "leader" ELSE "peon"
  /\ mon[x].epoch = mon[m].epoch /\ mon[x].leader = mon[m].leader

\* The timeouts of Paxos: a leader hears from all its quorum and a peon from
\* its leader, or else they bootstrap.
PaxosTimeout(m) ==
  /\ Calm
  /\ \/ mon[m].state = "leader" /\ \E x \in mon[m].quorum : ~Follows(x, m)
     \/ mon[m].state = "peon" /\ ~Follows(mon[m].leader, m)
  /\ Step(m, {}, Done(BootstrapState(mon[m])))
  /\ UNCHANGED <<oldConn, bounds>>

\* The timer of m fires after the messages in flight have arrived and the
\* monitors that hear from enough others have ended probing, and an extended one
\* leaves the monitor that was acked the time to declare victory.
Timely(m) ==
  /\ Calm
  /\ \A x \in Rank : ~Probed(x)
  /\ mon[m].timer = "extended" => mon[mon[m].leader_acked].timer # "plain"

\* The extra time of an extended timer is over once another timer has fired.
Aged(s) == [s EXCEPT !.timer = IF @ = "extended" THEN "plain" ELSE @]

\* An early timer, a bootstrap, a command or a restart may still happen
MayTrouble == early + faults + restarts < MaxTroubles

\* The election timer fires, in any state of the monitor; it is not timely at
\* most MaxEarly times.
Expire(m) ==
  /\ mon[m].timer # "off" /\ mon[m].state # "exited"
  /\ IF Timely(m) THEN UNCHANGED early
                  ELSE MayTrouble /\ early < MaxEarly /\ early' = early + 1
  /\ LET r == ExpireResult(m, mon[m])
     IN  /\ mon' = [x \in Rank |-> IF x = m THEN r.s ELSE Aged(mon[x])]
         /\ Enters(m, r) /\ Transmit(m, {}, r)
  /\ UNCHANGED <<oldConn, faults, restarts>>

Fault == MayTrouble /\ faults < MaxFaults /\ faults' = faults + 1

\* bootstrap() called for another reason: a timeout of Paxos that comes too
\* early, a Paxos message of a later epoch, a sync that failed.
Bootstrap(m) ==
  /\ Fault /\ mon[m].state # "exited"
  /\ Step(m, {}, Done(BootstrapState(mon[m])))
  /\ UNCHANGED <<oldConn, early, restarts>>

\* The command "quorum exit"
QuorumExit(m) ==
  /\ Fault /\ mon[m].state # "exited"
  /\ LET r == StartElection(m, mon[m])
     IN  Step(m, {}, [r EXCEPT !.s.participating = FALSE])
  /\ UNCHANGED <<oldConn, early, restarts>>

\* The command "quorum enter"
QuorumEnter(m) ==
  /\ Fault /\ mon[m].state # "exited"
  /\ Step(m, {}, StartElection(m, [mon[m] EXCEPT !.participating = TRUE]))
  /\ UNCHANGED <<oldConn, early, restarts>>

\* The longest queue of messages from m
MaxLen(m) == CHOOSE k \in {Len(net[m][d]) : d \in Rank} :
               \A d \in Rank : Len(net[m][d]) <= k

\* The process dies and is started again.  What it had not yet put on the
\* wire is lost, and so is what was on its way to it.
Restart(m) ==
  /\ MayTrouble /\ restarts < MaxRestarts /\ restarts' = restarts + 1
  /\ mon[m].state # "exited"
  /\ mon' = [mon EXCEPT ![m] = [Fresh EXCEPT !.stored = mon[m].stored,
                                             !.joined = mon[m].joined]]
  /\ \E keep \in [Rank -> 0 .. MaxLen(m)] :
        /\ \A d \in Rank : keep[d] <= Len(net[m][d])
        /\ net' = [x \in Rank |-> [d \in Rank |->
                     IF x = m THEN SubSeq(net[x][d], 1, keep[d])
                     ELSE IF d = m THEN <<>> ELSE net[x][d]]]
  /\ UNCHANGED <<regime, oldConn, early, faults>>

\* MonmapMonitor::update_from_paxos: the first monmap of a quorum is on disk
NoteJoined(m) ==
  /\ mon[m].state \in {"leader", "peon"} /\ ~mon[m].joined
  /\ mon' = [mon EXCEPT ![m].joined = TRUE]
  /\ UNCHANGED <<net, regime, oldConn, bounds>>

Receive(m) ==
  \E from \in Rank : \/ DropMessage(m, from)
                     \/ HandlePropose(m, from)
                     \/ HandleAck(m, from)
                     \/ HandleVictory(m, from)
                     \/ HandleNak(m, from)

Next ==
  \E m \in Rank : \/ Receive(m)
                  \/ HandleProbeReply(m)
                  \/ Expire(m)
                  \/ PaxosTimeout(m)
                  \/ Bootstrap(m)
                  \/ QuorumExit(m)
                  \/ QuorumEnter(m)
                  \/ Restart(m)
                  \/ NoteJoined(m)

Spec == Init /\ [][Next]_vars

\* Messages are handled, timers fire, and probes are answered.  A pending timer is not
\* overtaken for ever, since it is due at a fixed time, whence strong fairness.
Fairness ==
  \A m \in Rank : /\ WF_vars(Receive(m)) /\ SF_vars(Expire(m)) /\ SF_vars(PaxosTimeout(m))
                  /\ WF_vars(NoteJoined(m)) /\ WF_vars(HandleProbeReply(m))

-----------------------------------------------------------------------------
(* Properties *)

\* Every field of the monitors, the channels and the history has its type.
TypeOK ==
  /\ mon \in [Rank -> MonitorState]
  /\ net \in [Rank -> [Rank -> Seq(Message)]]
  /\ regime \subseteq [mon: Rank, epoch: Nat, leader: Rank, quorum: SUBSET Rank]
  /\ oldConn \in OldConns
  /\ early \in Nat /\ faults \in Nat /\ restarts \in Nat

\* The epoch a monitor comes back with after a restart
Remembered(m) == IF mon[m].stored = 0 THEN 1 ELSE mon[m].stored

\* A monitor enters an epoch once: it never wins or follows, in one epoch, two
\* leaders or two quorums, whatever order victories arrive in and however it
\* restarts in between (handle_victory's test of the epoch).
FollowOnce ==
  \A r, q \in regime : r.mon = q.mon /\ r.epoch = q.epoch => r = q

\* Everyone in the quorum of r has accepted r
Effective(r) ==
  \A x \in r.quorum : [r EXCEPT !.mon = x] \in regime

\* Two monitors may declare victory in the same epoch, but only one of them can
\* ever have its whole quorum behind it, which is what Paxos waits for.
UniqueEffectiveLeader ==
  \A r, q \in regime :
     r.epoch = q.epoch /\ Effective(r) /\ Effective(q) => r.leader = q.leader

\* What a peon was told is what its leader declared, in this epoch, with a
\* majority, the peon in it and the leader first in it.
PeonAgreesWithLeader ==
  \A m \in Rank : mon[m].state = "peon" =>
     LET l == mon[m].leader
         Q == mon[m].quorum
     IN  /\ [mon |-> l, epoch |-> mon[m].epoch, leader |-> l, quorum |-> Q] \in regime
         /\ Majority(Q) /\ m \in Q /\ \A x \in Q : l <= x

\* An ack binds across restarts: whoever is counted by a candidate has this
\* epoch on disk, or a later one (bump_epoch writes it before the ack is sent).
AckersRemember ==
  \A m \in Rank : \A x \in mon[m].acked_me : Remembered(x) >= mon[m].epoch

\* The assertions of handle_propose, handle_ack and handle_victory hold for the
\* message each monitor would handle next.
AssertionsHold ==
  \A m, from \in Rank :
    /\ Accepts(m, from, "PROPOSE") => Odd(Head(net[from][m]).epoch)
    /\ Accepts(m, from, "PROPOSE") /\ m < from => mon[m].leader_acked < from
    /\ Accepts(m, from, "ACK") =>
          /\ Odd(Head(net[from][m]).epoch)
          /\ \/ Head(net[from][m]).epoch > mon[m].epoch
             \/ mon[m].electing_me
             \/ mon[m].leader_acked >= 0
    /\ Accepts(m, from, "VICTORY") =>
          from < m /\ ~Odd(Head(net[from][m]).epoch)

\* The epoch on disk never goes back, although a restarted elector begins with
\* epoch 0 and reads the disk only in start().
StoredEpochGrows ==
  [][\A m \in Rank : mon'[m].stored >= mon[m].stored]_vars

\* One regime with a majority of monitors in it, all of them present
Stable ==
  \E m \in Rank :
     mon[m].state = "leader" /\ \A x \in mon[m].quorum : Follows(x, m)

\* A quorum forms in the end and stays, however monitors probe, propose, defer and time
\* out (Elector.cc): nobody waits for ever for one that is dead or refused.
EventuallyStable == <>[]Stable

Mapped(m) == mon[m].state \in {"leader", "peon"}

Promise ==
  INSTANCE Election WITH
    epoch  <- [m \in Rank |-> Remembered(m)],
    role   <- [m \in Rank |-> IF Mapped(m) THEN mon[m].state ELSE "out"],
    leader <- [m \in Rank |-> IF Mapped(m) THEN mon[m].leader ELSE m],
    quorum <- [m \in Rank |-> IF Mapped(m) THEN mon[m].quorum ELSE {}],
    won    <- {[epoch |-> r.epoch, leader |-> r.leader, quorum |-> r.quorum] :
                  r \in {q \in regime : q.mon = q.leader}}

\* The elector keeps the promise of module Election.
ImplementsElection == Promise!Spec
=============================================================================
