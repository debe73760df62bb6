---------------------------- MODULE ElectorProofs ----------------------------
(***************************************************************************)
(* Proofs about module Elector, for every size of the monmap, every set of  *)
(* monitors without the required features and every value of the bounds.    *)
(*                                                                          *)
(* The argument: the epoch in memory and the epoch on disk are the same     *)
(* except between a restart and the first start(), and in that window the   *)
(* elector hears nothing and has no timer.  So whoever enters a regime does *)
(* so in an epoch later than any it remembered before, hence later than any *)
(* regime it was ever in.                                                   *)
(***************************************************************************)
EXTENDS Elector, FiniteSetTheorems, SequenceTheorems, TLAPS

\* The epoch a monitor in state s comes back with after a restart
Rem(s) == IF s.stored = 0 THEN 1 ELSE s.stored

\* The epoch in memory is the one on disk, or not yet read after a restart
InMemory(s) ==
  \/ s.epoch = Rem(s)
  \/ s.epoch = 0 /\ s.state = "probing" /\ s.timer = "off" /\ s.participating

Ruling == {"leader", "peon"}

\* Victories carry majorities, and no message carries epoch 0
GoodMsg ==
  {msg \in Message : msg.epoch >= 1 /\ (msg.op = "VICTORY" => Majority(msg.quorum))}

Continues(s, t) ==
  /\ s.state = t.state /\ s.epoch = t.epoch
  /\ s.leader = t.leader /\ s.quorum = t.quorum

\* What any call may do to the state of a monitor
Moves(s, t) ==
  /\ t.stored >= s.stored
  /\ t.state \in Ruling => \/ Continues(s, t)
                           \/ t.epoch > Rem(s) /\ Majority(t.quorum)

\* A call from state s that returns r is sound
Sound(s, r) ==
  /\ r.s \in MonitorState /\ InMemory(r.s)
  /\ r.out \in [Rank -> Seq(GoodMsg)]
  /\ Moves(s, r.s)

-----------------------------------------------------------------------------
(* The calls *)

\* Sending a good message, or none, is sending good messages.
LEMMA SendGood ==
  ASSUME NEW D, NEW msg \in GoodMsg
  PROVE  SendTo(D, msg) \in [Rank -> Seq(GoodMsg)] /\ Nothing \in [Rank -> Seq(GoodMsg)]
  BY DEF SendTo, Nothing

\* A message of a positive epoch that is no victory, or carries a majority.
LEMMA MsgGood ==
  ASSUME NEW e \in Nat, e >= 1, NEW Q \in SUBSET Rank,
         NEW op \in {"PROPOSE", "ACK", "VICTORY", "NAK"},
         op = "VICTORY" => Majority(Q)
  PROVE  Msg(op, e, Q) \in GoodMsg
  BY DEF Msg, GoodMsg, Message

\* bump_epoch leaves memory and disk in agreement, and no regime.
LEMMA BumpOk ==
  ASSUME NEW s \in MonitorState, NEW e \in Nat, e >= 1
  PROVE  LET b == BumpEpoch(s, e)
         IN  /\ b \in MonitorState
             /\ b.epoch = e /\ b.stored = e /\ b.state = "electing"
             /\ b.epoch = Rem(b)
             /\ b.participating = s.participating /\ b.leader_acked = s.leader_acked
             /\ b.leader = s.leader /\ b.timer = s.timer
<1> DEFINE r == Reset(s)
           b == BumpEpoch(s, e)
<1>1. /\ r \in MonitorState /\ r.participating = s.participating
      /\ r.leader_acked = s.leader_acked /\ r.leader = s.leader /\ r.timer = s.timer
  BY DEF Reset, MonitorState
<1>2. b = [r EXCEPT !.epoch = e, !.stored = e, !.state = "electing",
                    !.electing_me = FALSE, !.acked_me = {}]
  BY DEF BumpEpoch
<1> HIDE DEF r, b
<1>3. b \in MonitorState
  BY <1>1, <1>2 DEF MonitorState, States
<1>4. /\ b.epoch = e /\ b.stored = e /\ b.state = "electing"
      /\ b.participating = r.participating /\ b.leader_acked = r.leader_acked
      /\ b.leader = r.leader /\ b.timer = r.timer
  BY <1>1, <1>2 DEF MonitorState
<1>5. b.epoch = Rem(b)
  BY <1>4 DEF Rem
<1> QED BY <1>1, <1>3, <1>4, <1>5 DEF b

\* start() proposes an epoch that is on disk; a monitor in a regime stays in it
\* or leaves it.
LEMMA StartOk ==
  ASSUME NEW m \in Rank, NEW s \in MonitorState,
         s.participating \/ s.epoch = Rem(s),
         s.state \in Ruling => s.epoch = Rem(s)
  PROVE  LET r == Start(m, s)
         IN  /\ r.s \in MonitorState /\ r.s.epoch = Rem(r.s)
             /\ r.out \in [Rank -> Seq(GoodMsg)]
             /\ r.s.stored >= s.stored
             /\ r.s.state \in Ruling => Continues(s, r.s)
<1>1. CASE ~s.participating
  <2>1. Start(m, s).s = s /\ Start(m, s).out = Nothing
    BY <1>1 DEF Start, Done
  <2>2. Nothing \in [Rank -> Seq(GoodMsg)]
    BY DEF Nothing
  <2> QED BY <1>1, <2>1, <2>2 DEF Continues, MonitorState
<1>2. CASE s.participating
  <2> DEFINE i == InitEpoch(s)
             b == IF Odd(i.epoch) THEN i ELSE BumpEpoch(i, i.epoch + 1)
             c == Candidate(m, s)
  <2>1. /\ i \in MonitorState /\ i.epoch = Rem(s) /\ i.stored = s.stored
        /\ i.state = s.state /\ i.leader = s.leader /\ i.quorum = s.quorum
    BY DEF InitEpoch, MonitorState, Rem
  <2>2. Rem(s) \in Nat /\ Rem(s) >= 1 /\ Rem(s) >= s.stored
    BY DEF Rem, MonitorState
  <2> HIDE DEF i
  <2>3. i.epoch = Rem(i)
    BY <2>1 DEF Rem
  <2>4. LET d == BumpEpoch(i, i.epoch + 1)
        IN  /\ d \in MonitorState /\ d.epoch = Rem(d) /\ d.epoch = Rem(s) + 1
            /\ d.stored = Rem(s) + 1 /\ d.state = "electing"
    BY <2>1, <2>2, BumpOk
  <2>5. /\ b \in MonitorState /\ b.epoch = Rem(b) /\ b.epoch >= 1
        /\ b.stored >= s.stored
        /\ b.state \in Ruling => Continues(s, b)
    <3>1. CASE Odd(i.epoch)
      BY <3>1, <2>1, <2>2, <2>3 DEF Continues, MonitorState
    <3>2. CASE ~Odd(i.epoch)
      BY <3>2, <2>1, <2>2, <2>4 DEF Ruling, MonitorState
    <3> QED BY <3>1, <3>2
  <2>6. c = [b EXCEPT !.electing_me = TRUE, !.acked_me = {m},
                      !.leader_acked = -1, !.timer = "plain"]
    BY DEF Candidate, i
  <2> HIDE DEF b, c
  <2>7. /\ c \in MonitorState /\ c.epoch = b.epoch /\ c.stored = b.stored
        /\ c.state = b.state /\ c.leader = b.leader /\ c.quorum = b.quorum
    BY <2>5, <2>6 DEF MonitorState, Timers
  <2>8. c.epoch = Rem(c) /\ c.epoch >= 1 /\ c.epoch \in Nat
    BY <2>5, <2>7 DEF Rem, MonitorState
  <2>9. SendTo(Rank \ {m}, Msg("PROPOSE", c.epoch, {})) \in [Rank -> Seq(GoodMsg)]
    BY <2>8, MsgGood, SendGood
  <2>10. /\ Start(m, s).s = c
         /\ Start(m, s).out = SendTo(Rank \ {m}, Msg("PROPOSE", c.epoch, {}))
    BY <1>2 DEF Start, c
  <2> QED BY <2>5, <2>7, <2>8, <2>9, <2>10 DEF Continues
<1> QED BY <1>1, <1>2 DEF MonitorState

\* start_election() leaves every regime.
LEMMA StartElectionOk ==
  ASSUME NEW m \in Rank, NEW s \in MonitorState,
         s.participating \/ s.epoch = Rem(s)
  PROVE  LET r == StartElection(m, s)
         IN  /\ r.s \in MonitorState /\ r.s.epoch = Rem(r.s)
             /\ r.out \in [Rank -> Seq(GoodMsg)]
             /\ r.s.stored >= s.stored
             /\ r.s.state \notin Ruling
<1> DEFINE z == Reset(s)
           e == [z EXCEPT !.state = "electing"]
<1>1. /\ z \in MonitorState /\ z.epoch = s.epoch /\ z.stored = s.stored
      /\ z.participating = s.participating
  BY DEF Reset, MonitorState
<1> HIDE DEF z
<1>2. /\ e \in MonitorState /\ e.epoch = z.epoch /\ e.stored = z.stored
      /\ e.participating = z.participating /\ e.state = "electing"
  BY <1>1 DEF MonitorState, States
<1>3. StartElection(m, s) = Start(m, e)
  BY DEF StartElection, z
<1> HIDE DEF e
<1>4. e.participating \/ e.epoch = Rem(e)
  BY <1>1, <1>2 DEF Rem
<1>5. e.state \notin Ruling
  BY <1>2 DEF Ruling
<1> QED BY <1>1, <1>2, <1>3, <1>4, <1>5, StartOk DEF Continues

\* A call that returns the state it was given, or one that differs in nothing
\* that matters here, is sound.
LEMMA DoneSound ==
  ASSUME NEW s \in MonitorState, NEW t \in MonitorState, InMemory(t),
         t.stored = s.stored, t.state \in Ruling => Continues(s, t)
  PROVE  Sound(s, Done(t))
  BY DEF Sound, Done, Nothing, Moves, MonitorState

\* Two sound calls in a row, the second of which enters no new regime.
LEMMA ThenSound ==
  ASSUME NEW s \in MonitorState, NEW r, NEW q,
         r.out \in [Rank -> Seq(GoodMsg)], r.s.stored \in Nat, r.s.stored >= s.stored,
         r.s.state \in Ruling => Continues(s, r.s),
         q.s \in MonitorState, InMemory(q.s), q.out \in [Rank -> Seq(GoodMsg)],
         q.s.stored >= r.s.stored,
         q.s.state \in Ruling => Continues(r.s, q.s)
  PROVE  Sound(s, Then(r, q))
<1>1. Then(r, q).s = q.s /\ Then(r, q).out = [d \in Rank |-> r.out[d] \o q.out[d]]
  BY DEF Then
<1>2. Then(r, q).out \in [Rank -> Seq(GoodMsg)]
  <2> SUFFICES ASSUME NEW d \in Rank PROVE r.out[d] \o q.out[d] \in Seq(GoodMsg)
    BY <1>1
  <2> QED BY ConcatProperties
<1>3. Moves(s, q.s)
  BY DEF Moves, Continues, MonitorState
<1> QED BY <1>1, <1>2, <1>3 DEF Sound

\* defer() keeps epoch and regime, and acks with an epoch that is on disk.
LEMMA DeferOk ==
  ASSUME NEW s \in MonitorState, NEW who \in Rank, s.epoch = Rem(s)
  PROVE  LET r == Defer(s, who)
         IN  /\ r.s \in MonitorState /\ r.s.epoch = Rem(r.s)
             /\ r.out \in [Rank -> Seq(GoodMsg)]
             /\ r.s.stored = s.stored /\ Continues(s, r.s)
<1> DEFINE t == [s EXCEPT !.acked_me = IF s.electing_me THEN {} ELSE @,
                          !.electing_me = FALSE, !.leader_acked = who,
                          !.timer = "extended"]
<1>1. Defer(s, who).s = t /\ Defer(s, who).out = SendTo({who}, Msg("ACK", s.epoch, {}))
  BY DEF Defer
<1>2. t \in MonitorState
  BY DEF MonitorState, Timers
<1>3. t.stored = s.stored /\ t.epoch = s.epoch /\ Continues(s, t)
  BY DEF Continues, MonitorState
<1>4. t.epoch = Rem(t)
  BY <1>3 DEF Rem
<1>5. s.epoch \in Nat /\ s.epoch >= 1
  BY DEF Rem, MonitorState
<1>6. SendTo({who}, Msg("ACK", s.epoch, {})) \in [Rank -> Seq(GoodMsg)]
  BY <1>5, MsgGood, SendGood
<1> QED BY <1>1, <1>2, <1>3, <1>4, <1>6

\* victory() with a majority enters a regime of a new epoch.
LEMMA VictorySound ==
  ASSUME NEW m \in Rank, NEW s \in MonitorState, s.epoch = Rem(s),
         Majority(s.acked_me)
  PROVE  Sound(s, Victory(m, s))
<1> DEFINE Q == s.acked_me
           a == [s EXCEPT !.leader_acked = -1, !.electing_me = FALSE, !.timer = "off"]
           b == BumpEpoch(a, s.epoch + 1)
           w == WinElection(m, b, Q)
<1>1. a \in MonitorState /\ a.stored = s.stored
  BY DEF MonitorState, Timers
<1>2. s.epoch \in Nat /\ s.epoch + 1 >= 1 /\ s.epoch + 1 \in Nat
      /\ s.epoch + 1 > s.stored /\ Q \in SUBSET Rank
  BY DEF MonitorState, Rem
<1> HIDE DEF a, Q
<1>3. b \in MonitorState /\ b.epoch = s.epoch + 1 /\ b.stored = s.epoch + 1
      /\ b.epoch = Rem(b)
  BY <1>1, <1>2, BumpOk
<1> HIDE DEF b
<1>4. w = [b EXCEPT !.state = "leader", !.leader = m, !.quorum = Q]
  BY DEF WinElection
<1> HIDE DEF w
<1>5. /\ w \in MonitorState /\ w.epoch = s.epoch + 1 /\ w.stored = s.epoch + 1
      /\ w.quorum = Q
  BY <1>2, <1>3, <1>4 DEF MonitorState, States
<1>6. w.epoch = Rem(w)
  BY <1>2, <1>5 DEF Rem
<1>7. SendTo(Q \ {m}, Msg("VICTORY", b.epoch, Q)) \in [Rank -> Seq(GoodMsg)]
  BY <1>2, <1>3, MsgGood, SendGood DEF Q
<1>8. /\ Victory(m, s).s = w
      /\ Victory(m, s).out = SendTo(Q \ {m}, Msg("VICTORY", b.epoch, Q))
  BY DEF Victory, Q, a, b, w
<1>9. Moves(s, w)
  BY <1>2, <1>5 DEF Moves, Q, MonitorState
<1> QED BY <1>5, <1>6, <1>7, <1>8, <1>9 DEF Sound, InMemory

-----------------------------------------------------------------------------
(* The handlers *)

\* A monitor that hears messages has its epoch on disk
Awake(s) == s \in MonitorState /\ s.epoch = Rem(s)

\* A call that keeps a monitor awake and enters no new regime
Calmly(s, r) ==
  /\ Awake(r.s) /\ r.out \in [Rank -> Seq(GoodMsg)]
  /\ r.s.stored >= s.stored
  /\ r.s.state \in Ruling => Continues(s, r.s)

\* A call that enters no new regime is sound.
LEMMA CalmlySound ==
  ASSUME NEW s \in MonitorState, NEW r, Calmly(s, r)
  PROVE  Sound(s, r)
  BY DEF Calmly, Sound, Awake, InMemory, Moves

\* So are two of them in a row.
LEMMA CalmlyThen ==
  ASSUME NEW s \in MonitorState, NEW r, NEW q, Calmly(s, r), Calmly(r.s, q)
  PROVE  Sound(s, Then(r, q))
  BY ThenSound DEF Calmly, Awake, InMemory, MonitorState

\* A handler that returns early changes nothing.
LEMMA DoneCalmly ==
  ASSUME NEW s, Awake(s)
  PROVE  Calmly(s, Done(s))
  BY DEF Calmly, Awake, Done, Nothing, Continues, MonitorState

\* The first half of handle_propose
LEMMA ProposeEpochCalmly ==
  ASSUME NEW m \in Rank, NEW from \in Rank, NEW s, Awake(s), NEW e \in Nat, e >= 1
  PROVE  Calmly(s, ProposeEpoch(m, s, from, e))
<1>1. CASE Lacks(m, from, Old)
  <2>1. Nak(from, e) \in [Rank -> Seq(GoodMsg)]
    BY MsgGood, SendGood DEF Nak
  <2> QED BY <1>1, <2>1 DEF ProposeEpoch, Calmly, Continues, Awake, MonitorState
<1>2. CASE ~Lacks(m, from, Old) /\ e > s.epoch
  <2>1. ProposeEpoch(m, s, from, e) = Done(BumpEpoch(s, e))
    BY <1>2 DEF ProposeEpoch
  <2>2. e > s.stored
    BY <1>2 DEF Awake, Rem, MonitorState
  <2>3. /\ BumpEpoch(s, e) \in MonitorState
        /\ BumpEpoch(s, e).epoch = Rem(BumpEpoch(s, e))
        /\ BumpEpoch(s, e).stored = e /\ BumpEpoch(s, e).state = "electing"
    BY BumpOk DEF Awake
  <2> QED BY <2>1, <2>2, <2>3 DEF Done, Nothing, Calmly, Awake, Ruling, MonitorState
<1>3. CASE ~Lacks(m, from, Old) /\ e < s.epoch
  <2>1. ProposeEpoch(m, s, from, e) = StartElection(m, s)
    BY <1>3 DEF ProposeEpoch, Awake, MonitorState
  <2> QED BY <2>1, StartElectionOk DEF Calmly, Awake
<1>4. CASE ~Lacks(m, from, Old) /\ e = s.epoch
  <2>1. ProposeEpoch(m, s, from, e) = Done(s)
    BY <1>4 DEF ProposeEpoch, Awake, MonitorState
  <2> QED BY <2>1, DoneCalmly
<1> QED BY <1>1, <1>2, <1>3, <1>4 DEF Awake, MonitorState

\* The second half of handle_propose
LEMMA CompareCalmly ==
  ASSUME NEW m \in Rank, NEW from \in Rank, NEW s, Awake(s)
  PROVE  Calmly(s, Compare(m, s, from))
<1>1. Calmly(s, StartElection(m, s))
  BY StartElectionOk DEF Calmly, Awake
<1>2. Calmly(s, Defer(s, from))
  BY DeferOk DEF Calmly, Awake, MonitorState
<1>3. Calmly(s, Done(s))
  BY DoneCalmly
<1> QED BY <1>1, <1>2, <1>3 DEF Compare

\* handle_propose is sound, whoever sends whatever epoch.
LEMMA ProposeSound ==
  ASSUME NEW m \in Rank, NEW from \in Rank, NEW s, Awake(s), NEW e \in Nat, e >= 1
  PROVE  Sound(s, ProposeResult(m, s, from, e))
<1> s \in MonitorState
  BY DEF Awake
<1>1. Calmly(s, [s |-> s, out |-> Nak(from, e)])
  <2>1. Nak(from, e) \in [Rank -> Seq(GoodMsg)]
    BY MsgGood, SendGood DEF Nak
  <2> QED BY <2>1 DEF Calmly, Continues, Awake, MonitorState
<1>2. Calmly(s, Done(s))
  BY DoneCalmly
<1>3. LET r == ProposeEpoch(m, s, from, e)
      IN  Sound(s, Then(r, Compare(m, r.s, from)))
  <2> DEFINE r == ProposeEpoch(m, s, from, e)
  <2>1. Calmly(s, r)
    BY ProposeEpochCalmly
  <2>2. Calmly(r.s, Compare(m, r.s, from))
    BY <2>1, CompareCalmly DEF Calmly
  <2> QED BY <2>1, <2>2, CalmlyThen
<1> QED BY <1>1, <1>2, <1>3, CalmlySound DEF ProposeResult

\* After bump_epoch to an epoch no earlier than the own one, start()
LEMMA BumpStartCalmly ==
  ASSUME NEW m \in Rank, NEW s, Awake(s), NEW e \in Nat, e >= s.epoch,
         NEW t \in MonitorState, t.stored = s.stored
  PROVE  Calmly(s, Start(m, BumpEpoch(t, e)))
<1> DEFINE b == BumpEpoch(t, e)
<1>1. s.epoch \in Nat /\ s.epoch >= 1 /\ s.epoch >= s.stored /\ s.stored \in Nat
  BY DEF Awake, Rem, MonitorState
<1>2. b \in MonitorState /\ b.epoch = Rem(b) /\ b.stored = e /\ b.state = "electing"
  BY <1>1, BumpOk
<1> HIDE DEF b
<1>3. Awake(Start(m, b).s) /\ Start(m, b).out \in [Rank -> Seq(GoodMsg)]
      /\ Start(m, b).s.stored >= e /\ Start(m, b).s.state \notin Ruling
  BY <1>2, StartOk DEF Ruling, Continues, Awake
<1>4. Start(m, b).s.stored >= s.stored
  BY <1>1, <1>3 DEF Awake, MonitorState
<1> QED BY <1>3, <1>4 DEF Calmly, b

\* handle_ack is sound: it declares victory only with all monitors behind it.
LEMMA AckSound ==
  ASSUME NEW m \in Rank, NEW from \in Rank, NEW s, Awake(s), NEW e \in Nat, e >= 1
  PROVE  Sound(s, AckResult(m, s, from, e))
<1> s \in MonitorState
  BY DEF Awake
<1>1. e > s.epoch => Sound(s, Start(m, BumpEpoch(s, e)))
  BY BumpStartCalmly, CalmlySound DEF MonitorState
<1>2. Sound(s, Done(s))
  BY DoneCalmly, CalmlySound
<1> DEFINE a == [s EXCEPT !.acked_me = @ \cup {from}]
<1>3. a \in MonitorState /\ a.epoch = s.epoch /\ a.stored = s.stored
      /\ Continues(s, a) /\ a.acked_me = s.acked_me \cup {from}
  BY DEF MonitorState, Continues
<1>4. a.epoch = Rem(a)
  BY <1>3 DEF Awake, Rem
<1> HIDE DEF a
<1>5. Sound(s, Done(a))
  BY <1>3, <1>4, DoneSound DEF InMemory
<1>6. Cardinality(a.acked_me) = N => Sound(s, Victory(m, a))
  <2> SUFFICES ASSUME Cardinality(a.acked_me) = N PROVE Sound(s, Victory(m, a))
    OBVIOUS
  <2>1. Majority(a.acked_me)
    BY NAssumption DEF Majority
  <2>2. Sound(a, Victory(m, a))
    BY <1>3, <1>4, <2>1, VictorySound
  <2> QED BY <1>3, <2>2 DEF Sound, Moves, Continues, Rem
<1> QED BY <1>1, <1>2, <1>5, <1>6 DEF AckResult, a

\* handle_victory is sound: it follows only into the epoch after its own.
LEMMA VictoryResultSound ==
  ASSUME NEW m \in Rank, NEW from \in Rank, NEW s, Awake(s),
         NEW e \in Nat, e >= s.epoch, NEW Q \in SUBSET Rank, Majority(Q)
  PROVE  Sound(s, VictoryResult(m, s, from, e, Q))
<1> DEFINE d == [s EXCEPT !.leader_acked = -1]
           b == BumpEpoch(d, e)
           l == LoseElection(b, Q, from)
           t == [l EXCEPT !.timer = "off"]
<1> s \in MonitorState
  BY DEF Awake
<1>0. s.epoch \in Nat /\ s.epoch >= 1 /\ s.epoch >= s.stored /\ s.epoch = Rem(s)
  BY DEF Awake, Rem, MonitorState
<1>1. d \in MonitorState /\ d.stored = s.stored
  BY DEF MonitorState
<1> HIDE DEF d
<1>2. Sound(s, Start(m, b))
  BY <1>1, BumpStartCalmly, CalmlySound
<1>3. ASSUME e = s.epoch + 1
      PROVE  Sound(s, Done(t))
  <2>1. b \in MonitorState /\ b.epoch = e /\ b.stored = e
    BY <1>0, <1>1, <1>3, BumpOk, SMTT(30)
  <2>2. l = [b EXCEPT !.state = "peon", !.leader = from, !.quorum = Q]
    BY DEF LoseElection
  <2> HIDE DEF b, l
  <2>3. l \in MonitorState /\ l.epoch = e /\ l.stored = e /\ l.quorum = Q
    BY <2>1, <2>2 DEF MonitorState, States
  <2>4. t \in MonitorState /\ t.epoch = e /\ t.stored = e /\ t.quorum = Q
    BY <2>3 DEF MonitorState, Timers
  <2> HIDE DEF t
  <2>5. InMemory(t)
    BY <1>0, <1>3, <2>4 DEF InMemory, Rem
  <2>6. Moves(s, t)
    BY <1>0, <1>3, <2>4 DEF Moves, MonitorState
  <2> QED BY <2>4, <2>5, <2>6 DEF Sound, Done, Nothing
<1> QED BY <1>2, <1>3 DEF VictoryResult, d

\* bootstrap() is sound in any state, also before the epoch is read back.
LEMMA BootstrapSound ==
  ASSUME NEW s \in MonitorState, NEW t \in MonitorState, InMemory(t), t.stored = s.stored
  PROVE  Sound(s, Done(BootstrapState(t)))
<1> DEFINE z == Reset(t)
           p == [z EXCEPT !.state = "probing"]
<1>1. /\ z \in MonitorState /\ z.epoch = t.epoch /\ z.stored = t.stored
      /\ z.timer = t.timer /\ z.participating = t.participating
  BY DEF Reset, MonitorState
<1> HIDE DEF z
<1>2. /\ p \in MonitorState /\ p.epoch = t.epoch /\ p.stored = t.stored
      /\ p.timer = t.timer /\ p.participating = t.participating /\ p.state = "probing"
  BY <1>1 DEF MonitorState, States
<1> HIDE DEF p
<1>3. InMemory(p)
  BY <1>2 DEF InMemory, Rem
<1>4. BootstrapState(t) = p
  BY DEF BootstrapState, p, z
<1> QED BY <1>2, <1>3, <1>4, DoneSound DEF Ruling

\* expire() is sound: it declares victory only with a majority.
LEMMA ExpireSound ==
  ASSUME NEW m \in Rank, NEW s \in MonitorState, InMemory(s), s.timer # "off"
  PROVE  Sound(s, ExpireResult(m, s))
<1> DEFINE f == [s EXCEPT !.timer = "off"]
<1>1. s.epoch = Rem(s)
  BY DEF InMemory
<1>2. /\ f \in MonitorState /\ f.epoch = s.epoch /\ f.stored = s.stored
      /\ f.acked_me = s.acked_me /\ Continues(s, f)
  BY DEF MonitorState, Timers, Continues
<1>3. f.epoch = Rem(f)
  BY <1>1, <1>2 DEF Rem
<1> HIDE DEF f
<1>4. Majority(s.acked_me) => Sound(s, Victory(m, f))
  <2> SUFFICES ASSUME Majority(s.acked_me) PROVE Sound(s, Victory(m, f))
    OBVIOUS
  <2>1. Sound(f, Victory(m, f))
    BY <1>2, <1>3, VictorySound
  <2> QED BY <1>2, <2>1 DEF Sound, Moves, Continues, Rem
<1>5. Sound(s, Start(m, f))
  BY <1>2, <1>3, StartOk DEF Sound, Moves, Continues, InMemory
<1>6. Sound(s, Done(BootstrapState(f)))
  BY <1>2, <1>3, BootstrapSound DEF InMemory
<1> QED BY <1>4, <1>5, <1>6 DEF ExpireResult, f
-----------------------------------------------------------------------------
(* The inductive invariant *)

Typed ==
  /\ mon \in [Rank -> MonitorState]
  /\ net \in [Rank -> [Rank -> Seq(GoodMsg)]]
  /\ regime \subseteq [mon: Rank, epoch: Nat, leader: Rank, quorum: SUBSET Rank]

Counted == oldConn \in OldConns /\ early \in Nat /\ faults \in Nat /\ restarts \in Nat

InMemoryInv == \A m \in Rank : InMemory(mon[m])

\* A regime is no later than what its member remembers, and has a majority
PastInv == \A r \in regime : r.epoch <= Rem(mon[r.mon]) /\ Majority(r.quorum)

RegimeOf(m, s) ==
  [mon |-> m, epoch |-> s.epoch, leader |-> s.leader, quorum |-> s.quorum]

\* Whoever rules or follows is in the history
PresentInv ==
  \A m \in Rank : mon[m].state \in Ruling => RegimeOf(m, mon[m]) \in regime

Core == Typed /\ InMemoryInv /\ PastInv /\ PresentInv /\ FollowOnce
IInv == Core /\ Counted

\* The epochs on disk do not go back in this step
Grows == \A m \in Rank : mon'[m].stored >= mon[m].stored

\* The invariant holds after this step, which takes no epoch on disk back
Safely == Core' /\ Grows

\* What a step of one monitor may do to another: let its timer age
Same(s, t) ==
  t \in MonitorState /\ Continues(s, t) /\ t.stored = s.stored /\ InMemory(t)

\* A step of monitor m that is sound for m and leaves the others alone preserves
\* the invariant.
LEMMA StepCore ==
  ASSUME Core, NEW m \in Rank, NEW r, Sound(mon[m], r), Enters(m, r),
         mon' \in [Rank -> MonitorState], mon'[m] = r.s,
         \A x \in Rank \ {m} : Same(mon[x], mon'[x]),
         net' \in [Rank -> [Rank -> Seq(GoodMsg)]]
  PROVE  Safely
<1> DEFINE s == mon[m]
           t == r.s
           R == RegimeOf(m, t)
<1>1. /\ s \in MonitorState /\ t \in MonitorState /\ InMemory(s) /\ InMemory(t)
      /\ Moves(s, t) /\ t = mon'[m]
  BY DEF Core, Typed, InMemoryInv, Sound
<1>2. regime' = IF t.state \in Ruling THEN regime \cup {R} ELSE regime
  BY DEF Enters, Ruling, RegimeOf
<1>3. /\ s.epoch \in Nat /\ t.epoch \in Nat /\ s.stored \in Nat /\ t.stored \in Nat
      /\ t.stored >= s.stored /\ t.leader \in Rank /\ t.quorum \in SUBSET Rank
  BY <1>1 DEF MonitorState, Moves
<1>4. Rem(s) \in Nat /\ Rem(t) \in Nat /\ Rem(t) >= Rem(s)
  BY <1>3 DEF Rem
<1>5. /\ R.mon = m /\ R.epoch = t.epoch /\ R.leader = t.leader /\ R.quorum = t.quorum
      /\ R \in [mon: Rank, epoch: Nat, leader: Rank, quorum: SUBSET Rank]
  BY <1>3 DEF RegimeOf
<1>6. \A x \in Rank : Rem(mon[x]) \in Nat /\ Rem(mon'[x]) \in Nat
                      /\ Rem(mon'[x]) >= Rem(mon[x])
  <2> SUFFICES ASSUME NEW x \in Rank
               PROVE  Rem(mon[x]) \in Nat /\ Rem(mon'[x]) \in Nat
                      /\ Rem(mon'[x]) >= Rem(mon[x])
    OBVIOUS
  <2>1. CASE x = m
    BY <2>1, <1>1, <1>4
  <2>2. CASE x # m
    <3>1. mon[x].stored \in Nat /\ mon'[x].stored = mon[x].stored
      BY <2>2 DEF Same, Core, Typed, MonitorState
    <3> QED BY <3>1 DEF Rem
  <2> QED BY <2>1, <2>2
<1>7. \/ t.state \notin Ruling
      \/ s.state \in Ruling /\ R = RegimeOf(m, s) /\ R \in regime
      \/ t.state \in Ruling /\ t.epoch > Rem(s) /\ Majority(t.quorum)
  <2> SUFFICES ASSUME t.state \in Ruling, ~(t.epoch > Rem(s) /\ Majority(t.quorum))
               PROVE  s.state \in Ruling /\ R = RegimeOf(m, s) /\ R \in regime
    OBVIOUS
  <2>1. Continues(s, t)
    BY <1>1 DEF Moves
  <2>2. s.state \in Ruling /\ R = RegimeOf(m, s)
    BY <2>1 DEF Continues, RegimeOf
  <2> QED BY <2>2 DEF Core, PresentInv
<1> HIDE DEF s, t, R
<1>8. Typed'
  BY <1>2, <1>5 DEF Core, Typed
<1>9. InMemoryInv'
  <2> SUFFICES ASSUME NEW x \in Rank PROVE InMemory(mon'[x])
    BY DEF InMemoryInv, InMemory, Rem
  <2> QED BY <1>1 DEF Same
<1>10. PastInv'
  <2> SUFFICES ASSUME NEW q \in regime'
               PROVE  q.epoch <= Rem(mon'[q.mon]) /\ Majority(q.quorum)
    BY DEF PastInv, Rem
  <2>1. CASE q \in regime
    <3>1. q.epoch \in Nat /\ q.mon \in Rank
      BY <2>1 DEF Core, Typed
    <3>2. q.epoch <= Rem(mon[q.mon]) /\ Majority(q.quorum)
      BY <2>1 DEF Core, PastInv
    <3> QED BY <3>1, <3>2, <1>6
  <2>2. CASE q \notin regime
    <3>1. q = R /\ t.state \in Ruling /\ t.epoch > Rem(s) /\ Majority(t.quorum)
      BY <2>2, <1>2, <1>7
    <3>2. t.epoch = Rem(t)
      BY <3>1, <1>1 DEF InMemory, Ruling
    <3> QED BY <3>1, <3>2, <1>1, <1>3, <1>5
  <2> QED BY <2>1, <2>2
<1>11. PresentInv'
  <2> SUFFICES ASSUME NEW x \in Rank, mon'[x].state \in Ruling
               PROVE  RegimeOf(x, mon'[x]) \in regime'
    BY DEF PresentInv, RegimeOf
  <2>1. CASE x = m
    BY <2>1, <1>1, <1>2 DEF R
  <2>2. CASE x # m
    <3>1. Continues(mon[x], mon'[x])
      BY <2>2 DEF Same
    <3>2. mon[x].state \in Ruling /\ RegimeOf(x, mon[x]) = RegimeOf(x, mon'[x])
      BY <3>1 DEF Continues, RegimeOf
    <3>3. RegimeOf(x, mon[x]) \in regime
      BY <3>2 DEF Core, PresentInv
    <3> QED BY <3>2, <3>3, <1>2
  <2> QED BY <2>1, <2>2
<1>12. FollowOnce'
  <2>1. ASSUME t.state \in Ruling, t.epoch > Rem(s), NEW q \in regime, q.mon = m
        PROVE  q.epoch < R.epoch
    <3>1. q.epoch <= Rem(s) /\ q.epoch \in Nat
      BY <2>1 DEF Core, PastInv, Typed, s
    <3> QED BY <2>1, <3>1, <1>3, <1>4, <1>5
  <2> SUFFICES ASSUME NEW p \in regime', NEW q \in regime',
                      p.mon = q.mon, p.epoch = q.epoch
               PROVE  p = q
    BY DEF FollowOnce
  <2>2. CASE p \in regime /\ q \in regime
    BY <2>2 DEF Core, FollowOnce
  <2>3. CASE p \notin regime \/ q \notin regime
    <3>1. t.state \in Ruling /\ t.epoch > Rem(s) /\ R.mon = m
      BY <2>3, <1>2, <1>5, <1>7
    <3>2. p \in regime \cup {R} /\ q \in regime \cup {R}
      BY <1>2
    <3>3. R.epoch \in Nat
      BY <1>3, <1>5
    <3>4. \A z \in regime : z.mon = m => z.epoch # R.epoch
      <4> SUFFICES ASSUME NEW z \in regime, z.mon = m PROVE z.epoch # R.epoch
        OBVIOUS
      <4>1. z.epoch < R.epoch
        BY <3>1, <2>1
      <4>2. z.epoch \in Nat
        BY DEF Core, Typed
      <4> QED BY <4>1, <4>2, <3>3
    <3> QED BY <3>1, <3>2, <3>4, <2>3
  <2> QED BY <2>2, <2>3
<1>13. Grows
  <2> SUFFICES ASSUME NEW x \in Rank PROVE mon'[x].stored >= mon[x].stored
    BY DEF Grows
  <2>1. CASE x = m
    BY <2>1, <1>1, <1>3 DEF s, t
  <2>2. CASE x # m
    BY <2>2 DEF Same, Core, Typed, MonitorState
  <2> QED BY <2>1, <2>2
<1> QED BY <1>8, <1>9, <1>10, <1>11, <1>12, <1>13 DEF Core, Safely
\* The messages of a sound call keep the channels good.
LEMMA TransmitGood ==
  ASSUME net \in [Rank -> [Rank -> Seq(GoodMsg)]], NEW m \in Rank, NEW From,
         \A x \in From : net[x][m] # <<>>,
         NEW r, r.out \in [Rank -> Seq(GoodMsg)], Transmit(m, From, r)
  PROVE  net' \in [Rank -> [Rank -> Seq(GoodMsg)]]
<1> SUFFICES ASSUME NEW x \in Rank, NEW d \in Rank
             PROVE  (IF x \in From /\ d = m THEN Tail(net[x][d]) ELSE net[x][d])
                      \o (IF x = m THEN r.out[d] ELSE <<>>) \in Seq(GoodMsg)
  BY DEF Transmit
<1>1. net[x][d] \in Seq(GoodMsg) /\ r.out[d] \in Seq(GoodMsg)
  OBVIOUS
<1>2. (IF x \in From /\ d = m THEN Tail(net[x][d]) ELSE net[x][d]) \in Seq(GoodMsg)
  BY <1>1, HeadTailProperties
<1>3. (IF x = m THEN r.out[d] ELSE <<>>) \in Seq(GoodMsg)
  BY <1>1
<1> QED BY <1>2, <1>3, ConcatProperties

\* A step that is a sound call of m preserves the invariant.
LEMMA StepOk ==
  ASSUME Core, NEW m \in Rank, NEW From, \A x \in From : net[x][m] # <<>>,
         NEW r, Sound(mon[m], r), Step(m, From, r)
  PROVE  Safely
<1>1. net' \in [Rank -> [Rank -> Seq(GoodMsg)]]
  BY TransmitGood DEF Core, Typed, Sound, Step
<1>2. mon' = [mon EXCEPT ![m] = r.s] /\ mon \in [Rank -> MonitorState]
  BY DEF Core, Typed, Step
<1>3. mon' \in [Rank -> MonitorState] /\ mon'[m] = r.s
  BY <1>2 DEF Sound
<1>4. \A x \in Rank \ {m} : Same(mon[x], mon'[x])
  <2> SUFFICES ASSUME NEW x \in Rank \ {m} PROVE Same(mon[x], mon[x])
    BY <1>2
  <2> QED BY <1>2 DEF Same, Continues, Core, InMemoryInv
<1> QED BY <1>1, <1>3, <1>4, StepCore DEF Step

\* A monitor that hears messages is awake, and what it hears is good.
LEMMA AcceptsOk ==
  ASSUME Core, NEW m \in Rank, NEW from \in Rank, NEW op, Accepts(m, from, op)
  PROVE  /\ Awake(mon[m]) /\ net[from][m] # <<>>
         /\ Head(net[from][m]) \in GoodMsg /\ Head(net[from][m]).op = op
         /\ Head(net[from][m]).epoch \in Nat /\ Head(net[from][m]).epoch >= 1
         /\ Head(net[from][m]).quorum \in SUBSET Rank
         /\ op = "PROPOSE" \/ Head(net[from][m]).epoch >= mon[m].epoch
<1>1. net[from][m] \in Seq(GoodMsg) /\ net[from][m] # <<>>
      /\ Head(net[from][m]).op = op
  BY DEF Core, Typed, Accepts, Pending
<1>2. Head(net[from][m]) \in GoodMsg
  BY <1>1, HeadTailProperties
<1>3. Awake(mon[m])
  BY DEF Awake, Core, Typed, InMemoryInv, InMemory, Accepts, Listening
<1> QED BY <1>1, <1>2, <1>3 DEF GoodMsg, Message, Accepts

\* The epoch on disk is a number.
LEMMA StoredType == \A s \in MonitorState : s.stored \in Nat
  BY DEF MonitorState

\* A monitor that starts for the first time has not read its epoch yet.
LEMMA FreshOk ==
  /\ Fresh \in MonitorState /\ Fresh.epoch = 0 /\ Fresh.stored = 0
  /\ Fresh.state = "probing" /\ Fresh.timer = "off" /\ Fresh.participating = TRUE
<1>1. 0 \in Rank
  BY NAssumption DEF Rank
<1> QED BY <1>1 DEF Fresh, MonitorState, States, Timers

\* Every step preserves the invariant.
LEMMA NextCore ==
  ASSUME Core, NEW m \in Rank,
         \/ Receive(m) \/ HandleProbeReply(m) \/ Expire(m) \/ PaxosTimeout(m)
         \/ Bootstrap(m) \/ QuorumExit(m) \/ QuorumEnter(m) \/ Restart(m)
         \/ NoteJoined(m)
  PROVE  Safely
<1> DEFINE s == mon[m]
<1>0. s \in MonitorState /\ InMemory(s)
  BY DEF Core, Typed, InMemoryInv
<1>1. ASSUME NEW from \in Rank, DropMessage(m, from)
      PROVE  Safely
  <2>1. net[from][m] \in Seq(GoodMsg) /\ net[from][m] # <<>>
    BY <1>1 DEF DropMessage, Core, Typed
  <2>2. Tail(net[from][m]) \in Seq(GoodMsg)
    BY <2>1, HeadTailProperties
  <2>3. net' \in [Rank -> [Rank -> Seq(GoodMsg)]]
    BY <1>1, <2>2 DEF DropMessage, Core, Typed
  <2>4. Core'
    BY <1>1, <2>3 DEF DropMessage, Core, Typed, InMemoryInv, PastInv, PresentInv,
                      FollowOnce
  <2>5. Grows
    BY <1>1 DEF DropMessage, Core, Typed, MonitorState, Grows
  <2> QED BY <2>4, <2>5 DEF Safely
<1>2. ASSUME NEW from \in Rank, HandlePropose(m, from)
      PROVE  Safely
  <2>1. Sound(s, ProposeResult(m, s, from, Head(net[from][m]).epoch))
    BY <1>2, AcceptsOk, ProposeSound DEF HandlePropose
  <2> QED BY <1>2, <2>1, AcceptsOk, StepOk DEF HandlePropose
<1>3. ASSUME NEW from \in Rank, HandleAck(m, from)
      PROVE  Safely
  <2>1. Sound(s, AckResult(m, s, from, Head(net[from][m]).epoch))
    BY <1>3, AcceptsOk, AckSound DEF HandleAck
  <2> QED BY <1>3, <2>1, AcceptsOk, StepOk DEF HandleAck
<1>4. ASSUME NEW from \in Rank, HandleVictory(m, from)
      PROVE  Safely
  <2> DEFINE msg == Head(net[from][m])
  <2>1. Majority(msg.quorum)
    BY <1>4, AcceptsOk DEF HandleVictory, GoodMsg
  <2>2. Sound(s, VictoryResult(m, s, from, msg.epoch, msg.quorum))
    BY <1>4, <2>1, AcceptsOk, VictoryResultSound DEF HandleVictory
  <2>3. Step(m, {from}, VictoryResult(m, s, from, msg.epoch, msg.quorum))
    BY <1>4 DEF HandleVictory
  <2>4. net[from][m] # <<>>
    BY <1>4, AcceptsOk DEF HandleVictory
  <2> QED BY <2>2, <2>3, <2>4, StepOk
<1>5. ASSUME NEW from \in Rank, HandleNak(m, from)
      PROVE  Safely
  <2> DEFINE x == [s EXCEPT !.state = "exited", !.timer = "off"]
  <2>1. Awake(s) /\ net[from][m] # <<>>
    BY <1>5, AcceptsOk DEF HandleNak
  <2>2. /\ x \in MonitorState /\ x.epoch = s.epoch /\ x.stored = s.stored
        /\ x.state = "exited"
    BY <1>0 DEF MonitorState, States, Timers
  <2>3. Step(m, {from}, Done(x))
    BY <1>5 DEF HandleNak
  <2> HIDE DEF x
  <2>4. InMemory(x)
    BY <2>1, <2>2 DEF Awake, InMemory, Rem
  <2>5. Sound(s, Done(x))
    BY <1>0, <2>2, <2>4, DoneSound DEF Ruling
  <2> QED BY <2>1, <2>3, <2>5, StepOk
<1>6. CASE Receive(m)
  BY <1>1, <1>2, <1>3, <1>4, <1>5, <1>6 DEF Receive
<1>7. s.participating \/ s.epoch = Rem(s)
  BY <1>0 DEF InMemory
<1>8. CASE HandleProbeReply(m)
  <2>1. Sound(s, StartElection(m, s))
    BY <1>0, <1>7, StartElectionOk DEF Sound, Moves, InMemory
  <2> QED BY <1>8, <2>1, StepOk DEF HandleProbeReply
<1>9. CASE Expire(m)
  <2> DEFINE r == ExpireResult(m, s)
  <2>1. Sound(s, r)
    BY <1>0, <1>9, ExpireSound DEF Expire
  <2>2. /\ mon' = [x \in Rank |-> IF x = m THEN r.s ELSE Aged(mon[x])]
        /\ Enters(m, r) /\ Transmit(m, {}, r)
    BY <1>9 DEF Expire
  <2> HIDE DEF r
  <2>3. \A x \in Rank : Same(mon[x], Aged(mon[x]))
    <3> SUFFICES ASSUME NEW x \in Rank PROVE Same(mon[x], Aged(mon[x]))
      OBVIOUS
    <3> DEFINE u == mon[x]
               a == Aged(mon[x])
    <3>1. u \in MonitorState /\ InMemory(u)
      BY DEF Core, Typed, InMemoryInv
    <3> HIDE DEF u
    <3>2. a = [u EXCEPT !.timer = IF @ = "extended" THEN "plain" ELSE @]
      BY DEF Aged, u
    <3> HIDE DEF a
    <3>3. /\ a \in MonitorState /\ Continues(u, a) /\ a.stored = u.stored
          /\ a.participating = u.participating
          /\ u.timer = "off" => a.timer = "off"
      BY <3>1, <3>2 DEF MonitorState, Timers, Continues
    <3>4. InMemory(a)
      BY <3>1, <3>3 DEF InMemory, Rem, Continues
    <3> QED BY <3>3, <3>4 DEF Same, u, a
  <2>4. net' \in [Rank -> [Rank -> Seq(GoodMsg)]]
    BY <2>1, <2>2, TransmitGood DEF Core, Typed, Sound
  <2>5. mon' \in [Rank -> MonitorState] /\ mon'[m] = r.s
        /\ \A x \in Rank \ {m} : Same(mon[x], mon'[x])
    BY <2>1, <2>2, <2>3 DEF Sound, Same
  <2> QED BY <2>1, <2>2, <2>4, <2>5, StepCore
<1>10. Sound(s, Done(BootstrapState(s)))
  BY <1>0, BootstrapSound
<1>11. CASE PaxosTimeout(m)
  BY <1>10, <1>11, StepOk DEF PaxosTimeout
<1>12. CASE Bootstrap(m)
  BY <1>10, <1>12, StepOk DEF Bootstrap
<1>13. CASE QuorumExit(m)
  <2> DEFINE r == StartElection(m, s)
             q == [r EXCEPT !.s.participating = FALSE]
  <2>1. /\ r.s \in MonitorState /\ r.s.epoch = Rem(r.s)
        /\ r.out \in [Rank -> Seq(GoodMsg)]
        /\ r.s.stored >= s.stored /\ r.s.state \notin Ruling
    BY <1>0, <1>7, StartElectionOk
  <2>2. Step(m, {}, q)
    BY <1>13 DEF QuorumExit
  <2>3. q.s = [r.s EXCEPT !.participating = FALSE] /\ q.out = r.out
    BY DEF StartElection, Start, Done
  <2> HIDE DEF r, q
  <2>4. /\ q.s \in MonitorState /\ q.s.epoch = r.s.epoch
        /\ q.s.stored = r.s.stored /\ q.s.state = r.s.state
    BY <2>1, <2>3 DEF MonitorState
  <2>5. Sound(s, q)
    BY <2>1, <2>3, <2>4 DEF Sound, Moves, InMemory, Rem
  <2> QED BY <2>2, <2>5, StepOk
<1>14. CASE QuorumEnter(m)
  <2> DEFINE t == [s EXCEPT !.participating = TRUE]
  <2>1. t \in MonitorState /\ t.stored = s.stored /\ t.participating
    BY <1>0 DEF MonitorState
  <2>2. Step(m, {}, StartElection(m, t))
    BY <1>14 DEF QuorumEnter
  <2> HIDE DEF t
  <2>3. Sound(s, StartElection(m, t))
    BY <2>1, StartElectionOk DEF Sound, Moves, InMemory
  <2> QED BY <2>2, <2>3, StepOk
<1>15. CASE Restart(m)
  <2> DEFINE f == [Fresh EXCEPT !.stored = s.stored, !.joined = s.joined]
  <2>1. /\ f \in MonitorState /\ f.stored = s.stored /\ f.state = "probing"
        /\ InMemory(f)
    <3>1. /\ f \in MonitorState /\ f.stored = s.stored /\ f.state = "probing"
          /\ f.epoch = 0 /\ f.timer = "off" /\ f.participating = TRUE
      BY <1>0, FreshOk DEF MonitorState
    <3> QED BY <3>1 DEF InMemory
  <2>2. mon' = [mon EXCEPT ![m] = f] /\ regime' = regime
    BY <1>15 DEF Restart
  <2> HIDE DEF f
  <2>3. net' \in [Rank -> [Rank -> Seq(GoodMsg)]]
    <3>1. PICK keep \in [Rank -> 0 .. MaxLen(m)] :
            /\ \A d \in Rank : keep[d] <= Len(net[m][d])
            /\ net' = [x \in Rank |-> [d \in Rank |->
                         IF x = m THEN SubSeq(net[x][d], 1, keep[d])
                         ELSE IF d = m THEN <<>> ELSE net[x][d]]]
      BY <1>15 DEF Restart
    <3>2. \A d \in Rank : SubSeq(net[m][d], 1, keep[d]) \in Seq(GoodMsg)
      <4> SUFFICES ASSUME NEW d \in Rank
                   PROVE  SubSeq(net[m][d], 1, keep[d]) \in Seq(GoodMsg)
        OBVIOUS
      <4>1. net[m][d] \in Seq(GoodMsg) /\ keep[d] \in Int /\ keep[d] <= Len(net[m][d])
        BY <3>1 DEF Core, Typed
      <4> QED BY <4>1, SubSeqProperties
    <3> QED BY <3>1, <3>2 DEF Core, Typed
  <2>4. Typed'
    BY <2>1, <2>2, <2>3 DEF Core, Typed
  <2>5. \A x \in Rank : InMemory(mon'[x]) /\ Rem(mon'[x]) = Rem(mon[x])
    BY <2>1, <2>2 DEF Core, Typed, InMemoryInv, Rem
  <2>6. PastInv'
    BY <2>2, <2>5 DEF Core, PastInv, Typed
  <2>7. PresentInv'
    BY <2>1, <2>2 DEF Core, PresentInv, Typed, Ruling
  <2>8. InMemoryInv' /\ FollowOnce'
    BY <2>2, <2>5 DEF Core, FollowOnce, InMemoryInv
  <2>9. Grows
    <3>1. \A x \in Rank : mon[x].stored \in Nat /\ mon'[x].stored = mon[x].stored
      BY <2>1, <2>2, StoredType DEF Core, Typed
    <3> QED BY <3>1 DEF Grows
  <2> QED BY <2>4, <2>6, <2>7, <2>8, <2>9 DEF Core, Safely
<1>16. CASE NoteJoined(m)
  <2> DEFINE t == [s EXCEPT !.joined = TRUE]
  <2>1. /\ t \in MonitorState /\ t.stored = s.stored /\ Continues(s, t)
        /\ t.timer = s.timer /\ t.participating = s.participating
    BY <1>0 DEF MonitorState, Continues
  <2>2. mon' = [mon EXCEPT ![m] = t] /\ regime' = regime /\ net' = net
    BY <1>16 DEF NoteJoined, Core, Typed
  <2> HIDE DEF t
  <2>3. InMemory(t)
    BY <1>0, <2>1 DEF InMemory, Rem, Continues
  <2>4. Typed'
    BY <2>1, <2>2 DEF Core, Typed
  <2>5. \A x \in Rank : InMemory(mon'[x]) /\ Rem(mon'[x]) = Rem(mon[x])
    BY <2>1, <2>2, <2>3 DEF Core, Typed, InMemoryInv, Rem
  <2>6. PastInv'
    BY <2>2, <2>5 DEF Core, PastInv, Typed
  <2>7. PresentInv'
    BY <2>1, <2>2 DEF Core, PresentInv, Typed, Continues, RegimeOf
  <2>8. InMemoryInv' /\ FollowOnce'
    BY <2>2, <2>5 DEF Core, FollowOnce, InMemoryInv
  <2>9. Grows
    <3>1. \A x \in Rank : mon[x].stored \in Nat /\ mon'[x].stored = mon[x].stored
      BY <2>1, <2>2, StoredType DEF Core, Typed
    <3> QED BY <3>1 DEF Grows
  <2> QED BY <2>4, <2>6, <2>7, <2>8, <2>9 DEF Core, Safely
<1> QED BY <1>6, <1>8, <1>9, <1>11, <1>12, <1>13, <1>14, <1>15, <1>16
-----------------------------------------------------------------------------
(* The theorems *)

\* The inductive invariant holds in every reachable state.
THEOREM Inductive == Spec => []IInv
<1>1. Init => IInv
  <2> SUFFICES ASSUME Init PROVE IInv
    OBVIOUS
  <2>1. mon \in [Rank -> MonitorState] /\ \A m \in Rank : mon[m] = Fresh
    BY FreshOk DEF Init
  <2>2. InMemoryInv /\ PresentInv
    BY <2>1, FreshOk DEF InMemoryInv, InMemory, PresentInv, Ruling
  <2>3. Typed /\ PastInv /\ FollowOnce /\ Counted
    BY <2>1 DEF Init, Typed, PastInv, FollowOnce, Counted
  <2> QED BY <2>2, <2>3 DEF IInv, Core
<1>2. IInv /\ [Next]_vars => IInv'
  <2> SUFFICES ASSUME IInv, [Next]_vars PROVE IInv'
    OBVIOUS
  <2>1. CASE UNCHANGED vars
    BY <2>1 DEF vars, bounds, IInv, Core, Counted, Typed, InMemoryInv, PastInv,
                PresentInv, FollowOnce
  <2>2. CASE Next
    <3>1. PICK m \in Rank :
            \/ Receive(m) \/ HandleProbeReply(m) \/ Expire(m) \/ PaxosTimeout(m)
            \/ Bootstrap(m) \/ QuorumExit(m) \/ QuorumEnter(m) \/ Restart(m)
            \/ NoteJoined(m)
      BY <2>2 DEF Next
    <3>2. Core'
      BY <3>1, NextCore DEF IInv, Safely
    <3>3. Counted'
      <4>1. CASE UNCHANGED <<oldConn, bounds>>
        BY <4>1 DEF IInv, Counted, bounds
      <4>2. Receive(m) \/ HandleProbeReply(m) \/ PaxosTimeout(m) \/ NoteJoined(m)
              => UNCHANGED <<oldConn, bounds>>
        BY DEF Receive, DropMessage, HandlePropose, HandleAck, HandleVictory, HandleNak,
               HandleProbeReply, PaxosTimeout, NoteJoined
      <4>3. CASE Expire(m)
        BY <4>3 DEF IInv, Counted, Expire
      <4>4. CASE Bootstrap(m) \/ QuorumExit(m) \/ QuorumEnter(m)
        BY <4>4 DEF IInv, Counted, Fault, Bootstrap, QuorumExit, QuorumEnter
      <4>5. CASE Restart(m)
        BY <4>5 DEF IInv, Counted, Restart
      <4> QED BY <3>1, <4>1, <4>2, <4>3, <4>4, <4>5
    <3> QED BY <3>2, <3>3 DEF IInv
  <2> QED BY <2>1, <2>2
<1> QED BY <1>1, <1>2, PTL DEF Spec

\* Every handler keeps the elector's state, its messages and the history well
\* formed: TypeOK, for any number of monitors.
THEOREM TypeCorrect == Spec => []TypeOK
<1>1. IInv => TypeOK
  <2> SUFFICES ASSUME IInv PROVE TypeOK
    OBVIOUS
  <2>1. GoodMsg \subseteq Message
    BY DEF GoodMsg
  <2>2. \A x, d \in Rank : net[x][d] \in Seq(Message)
    BY <2>1 DEF IInv, Core, Typed
  <2>3. net \in [Rank -> [Rank -> Seq(Message)]]
    BY <2>2 DEF IInv, Core, Typed
  <2> QED BY <2>3 DEF IInv, Core, Typed, Counted, TypeOK
<1> QED BY <1>1, Inductive, PTL

\* A monitor never enters two regimes in one epoch, whatever is delayed, whoever
\* restarts and however often (handle_victory and victory() bump the epoch on
\* disk beyond any epoch the monitor was ever in).
THEOREM EnterOnce == Spec => []FollowOnce
<1>1. IInv => FollowOnce
  BY DEF IInv, Core
<1> QED BY <1>1, Inductive, PTL

\* Two majorities of the monmap share a monitor.
LEMMA MajoritiesMeet ==
  ASSUME NEW P \in SUBSET Rank, NEW Q \in SUBSET Rank, Majority(P), Majority(Q)
  PROVE  \E x \in Rank : x \in P /\ x \in Q
<1>1. IsFiniteSet(Rank) /\ Cardinality(Rank) = N
  BY NAssumption, FS_Interval DEF Rank
<1>2. /\ IsFiniteSet(P) /\ IsFiniteSet(Q) /\ IsFiniteSet(P \cup Q)
      /\ Cardinality(P \cup Q) <= N
  BY <1>1, FS_Subset, P \cup Q \subseteq Rank
<1>3. Cardinality(P \cup Q) = Cardinality(P) + Cardinality(Q) - Cardinality(P \cap Q)
  BY <1>2, FS_Union
<1>4. /\ IsFiniteSet(P \cap Q)
      /\ Cardinality(P) \in Nat /\ Cardinality(Q) \in Nat
      /\ Cardinality(P \cap Q) \in Nat /\ Cardinality(P \cup Q) \in Nat
  BY <1>2, FS_CardinalityType, FS_Subset, P \cap Q \subseteq P
<1>5. Cardinality(P \cap Q) # 0
  BY <1>2, <1>3, <1>4, NAssumption DEF Majority
<1>6. P \cap Q # {}
  BY <1>5, FS_EmptySet
<1> QED BY <1>6

\* In every epoch at most one leader ever has its whole quorum behind it, although
\* several monitors may declare victory in it.
THEOREM EffectiveLeader == Spec => []UniqueEffectiveLeader
<1>1. IInv => UniqueEffectiveLeader
  <2> SUFFICES ASSUME IInv, NEW r \in regime, NEW q \in regime, r.epoch = q.epoch,
                      Effective(r), Effective(q)
               PROVE  r.leader = q.leader
    BY DEF UniqueEffectiveLeader
  <2>1. /\ r \in [mon: Rank, epoch: Nat, leader: Rank, quorum: SUBSET Rank]
        /\ q \in [mon: Rank, epoch: Nat, leader: Rank, quorum: SUBSET Rank]
        /\ Majority(r.quorum) /\ Majority(q.quorum)
    BY DEF IInv, Core, Typed, PastInv
  <2>2. r.quorum \in SUBSET Rank /\ q.quorum \in SUBSET Rank
    BY <2>1
  <2>3. PICK x \in Rank : x \in r.quorum /\ x \in q.quorum
    BY <2>1, <2>2, MajoritiesMeet
  <2> DEFINE a == [r EXCEPT !.mon = x]
             b == [q EXCEPT !.mon = x]
  <2>4. a \in regime /\ b \in regime
    BY <2>3 DEF Effective
  <2>5. /\ a.mon = x /\ a.epoch = r.epoch /\ a.leader = r.leader
        /\ b.mon = x /\ b.epoch = q.epoch /\ b.leader = q.leader
    BY <2>1
  <2> HIDE DEF a, b
  <2>6. a = b
    BY <2>4, <2>5 DEF IInv, Core, FollowOnce
  <2> QED BY <2>5, <2>6
<1> QED BY <1>1, Inductive, PTL
\* No step of any monitor, a restart included, takes the epoch on its disk back.
THEOREM StoredGrows == Spec => StoredEpochGrows
<1>1. IInv /\ [Next]_vars => [\A m \in Rank : mon'[m].stored >= mon[m].stored]_vars
  <2> SUFFICES ASSUME IInv, Next PROVE Grows
    BY DEF Grows
  <2> QED BY NextCore DEF IInv, Next, Safely
<1> QED BY <1>1, Inductive, PTL DEF Spec, StoredEpochGrows

-----------------------------------------------------------------------------
(***************************************************************************)
(* The elector implements module Election, and what a candidate and a peon  *)
(* may rely on, for every size of the monmap and every value of the bounds. *)
(*                                                                          *)
(* The argument is about messages.  An ACK binds its sender: the epoch in   *)
(* it is on the sender's disk, whatever happens to the sender afterwards.   *)
(* A VICTORY repeats what its sender has entered.  So a candidate counts    *)
(* monitors that remember its epoch, and a peon enters what was declared.   *)
(***************************************************************************)

Declared(l, e, Q) == [mon |-> l, epoch |-> e, leader |-> l, quorum |-> Q]

First(l, Q) == \A x \in Q : l <= x

\* What is true of a message on its way from x to d
Truth(x, d) ==
  {msg \in GoodMsg :
     /\ msg.op = "ACK" => msg.epoch <= Rem(mon[x]) /\ d <= x
     /\ msg.op = "VICTORY" => /\ d \in msg.quorum /\ First(x, msg.quorum)
                              /\ Declared(x, msg.epoch, msg.quorum) \in regime}

TruthInv == \A x, d \in Rank : net[x][d] \in Seq(Truth(x, d))

\* A candidate has voted for itself, in an odd epoch
Candidacy(m, s) == s.electing_me => Odd(s.epoch) /\ m \in s.acked_me

CandidateInv == \A m \in Rank : Candidacy(m, mon[m])

\* Those counted by m come after it and remember its epoch
Bound(m, s, x) == m <= x /\ Rem(mon[x]) >= s.epoch

AckInv == \A m \in Rank : \A x \in mon[m].acked_me : Bound(m, mon[m], x)

\* A peon in state s has been told what its leader entered
Told(m, s) ==
  /\ m \in s.quorum /\ First(s.leader, s.quorum)
  /\ Declared(s.leader, s.epoch, s.quorum) \in regime

PeonInv == \A m \in Rank : mon[m].state = "peon" => Told(m, mon[m])

\* No epoch is beyond the bound
LowInv == \A m \in Rank : Rem(mon[m]) <= MaxEpoch

Bond == TruthInv /\ CandidateInv /\ AckInv /\ PeonInv /\ LowInv
BInv == IInv /\ Bond

-----------------------------------------------------------------------------
(* The calls *)

\* What a monitor in state t may send to d without declaring victory
Plain(m, t, d) ==
  {msg \in GoodMsg : /\ msg.op # "VICTORY"
                     /\ msg.op = "ACK" => msg.epoch <= Rem(t) /\ d <= m}

\* A monitor has its epoch in memory, or still has the one it had on disk
Kept(s, t) == t.epoch >= 1 \/ t.stored = s.stored

\* A call of m that counts nobody new and enters no regime
Humble(m, s, r) ==
  /\ Kept(s, r.s)
  /\ Candidacy(m, r.s)
  /\ \A x \in r.s.acked_me : x = m \/ (x \in s.acked_me /\ r.s.epoch = s.epoch)
  /\ r.s.state \in Ruling => Continues(s, r.s)
  /\ \A d \in Rank : r.out[d] \in Seq(Plain(m, r.s, d))

\* bump_epoch ends the candidacy.
LEMMA BumpClears ==
  ASSUME NEW s \in MonitorState, NEW e \in Nat, e >= 1
  PROVE  LET b == BumpEpoch(s, e)
         IN  /\ b \in MonitorState /\ b.electing_me = FALSE /\ b.acked_me = {}
             /\ b.state = "electing" /\ b.epoch = e /\ b.epoch = Rem(b)
<1> DEFINE r == Reset(s)
           b == BumpEpoch(s, e)
<1>1. r \in MonitorState
  BY DEF Reset, MonitorState
<1>2. b = [r EXCEPT !.epoch = e, !.stored = e, !.state = "electing",
                    !.electing_me = FALSE, !.acked_me = {}]
  BY DEF BumpEpoch
<1>3. b \in MonitorState /\ b.state = "electing" /\ b.epoch = e /\ b.epoch = Rem(b)
  BY BumpOk
<1> HIDE DEF r, b
<1>4. b.electing_me = FALSE /\ b.acked_me = {}
  BY <1>1, <1>2 DEF MonitorState
<1> QED BY <1>3, <1>4 DEF b

\* A call that sends nothing and counts nobody new is humble.
LEMMA DoneHumble ==
  ASSUME NEW m \in Rank, NEW s, NEW t, Candidacy(m, t), Kept(s, t),
         t.acked_me = {} \/ (t.acked_me = s.acked_me /\ t.epoch = s.epoch),
         t.state \in Ruling => Continues(s, t)
  PROVE  Humble(m, s, Done(t))
<1>1. Done(t).s = t /\ \A d \in Rank : Done(t).out[d] = <<>>
  BY DEF Done, Nothing
<1>2. \A d \in Rank : <<>> \in Seq(Plain(m, t, d))
  OBVIOUS
<1> QED BY <1>1, <1>2 DEF Humble

\* One message, sent to whom it may be sent to.
LEMMA SendHumble ==
  ASSUME NEW S, NEW D, NEW msg, NEW d \in Rank, d \in D => msg \in S
  PROVE  SendTo(D, msg)[d] \in Seq(S)
  BY DEF SendTo

\* One of two numbers in a row is odd.
LEMMA NextOdd == \A e \in Nat : ~Odd(e) => Odd(e + 1)
  BY DEF Odd

\* start() makes a candidate of an odd epoch that has one vote, its own.
LEMMA StartHumble ==
  ASSUME NEW m \in Rank, NEW s \in MonitorState, Candidacy(m, s),
         s.participating \/ s.epoch = Rem(s),
         s.state \in Ruling => s.epoch = Rem(s)
  PROVE  Humble(m, s, Start(m, s))
<1>0. /\ Start(m, s).s \in MonitorState /\ Start(m, s).s.epoch = Rem(Start(m, s).s)
      /\ Start(m, s).s.state \in Ruling => Continues(s, Start(m, s).s)
  BY StartOk
<1>1. CASE ~s.participating
  <2>1. Start(m, s) = Done(s)
    BY <1>1 DEF Start
  <2> QED BY <2>1, <1>0, DoneHumble DEF Done, Kept
<1>2. CASE s.participating
  <2> DEFINE i == InitEpoch(s)
             b == IF Odd(i.epoch) THEN i ELSE BumpEpoch(i, i.epoch + 1)
             c == Candidate(m, s)
  <2>1. i \in MonitorState /\ i.epoch \in Nat
    BY DEF InitEpoch, MonitorState
  <2> HIDE DEF i
  <2>2. b \in MonitorState /\ Odd(b.epoch)
    <3>1. ASSUME ~Odd(i.epoch)
          PROVE  /\ BumpEpoch(i, i.epoch + 1) \in MonitorState
                 /\ Odd(BumpEpoch(i, i.epoch + 1).epoch)
      <4>1. i.epoch + 1 \in Nat /\ i.epoch + 1 >= 1 /\ Odd(i.epoch + 1)
        BY <2>1, <3>1, NextOdd
      <4> QED BY <2>1, <4>1, BumpClears
    <3> QED BY <2>1, <3>1
  <2>3. c = [b EXCEPT !.electing_me = TRUE, !.acked_me = {m},
                      !.leader_acked = -1, !.timer = "plain"]
    BY DEF Candidate, i
  <2> HIDE DEF b
  <2>4. c.epoch = b.epoch /\ c.acked_me = {m}
    BY <2>2, <2>3 DEF MonitorState
  <2>5. /\ Start(m, s).s = c
        /\ Start(m, s).out = SendTo(Rank \ {m}, Msg("PROPOSE", c.epoch, {}))
    BY <1>2 DEF Start
  <2> HIDE DEF c
  <2>6. Msg("PROPOSE", c.epoch, {}) \in GoodMsg
    <3>1. c.epoch \in Nat /\ c.epoch >= 1
      BY <2>5, <1>0 DEF MonitorState, Rem
    <3> QED BY <3>1, MsgGood
  <2>7. \A d \in Rank : Msg("PROPOSE", c.epoch, {}) \in Plain(m, c, d)
    BY <2>6 DEF Plain, Msg
  <2>8. \A d \in Rank : Start(m, s).out[d] \in Seq(Plain(m, c, d))
    BY <2>5, <2>7, SendHumble
  <2>9. Candidacy(m, c)
    BY <2>2, <2>4 DEF Candidacy
  <2>10. c.epoch >= 1
    BY <2>5, <1>0 DEF MonitorState, Rem
  <2> QED BY <1>0, <2>4, <2>5, <2>8, <2>9, <2>10 DEF Humble, Kept
<1> QED BY <1>1, <1>2

\* start_election() too.
LEMMA StartElectionHumble ==
  ASSUME NEW m \in Rank, NEW s \in MonitorState, Candidacy(m, s),
         s.participating \/ s.epoch = Rem(s)
  PROVE  Humble(m, s, StartElection(m, s))
<1> DEFINE z == Reset(s)
           e == [z EXCEPT !.state = "electing"]
<1>1. /\ z \in MonitorState /\ z.epoch = s.epoch /\ z.stored = s.stored
      /\ z.participating = s.participating /\ z.acked_me = s.acked_me
      /\ z.electing_me = s.electing_me
  BY DEF Reset, MonitorState
<1> HIDE DEF z
<1>2. /\ e \in MonitorState /\ e.epoch = s.epoch /\ e.stored = s.stored
      /\ e.participating = s.participating /\ e.state = "electing"
      /\ e.acked_me = s.acked_me /\ e.electing_me = s.electing_me
  BY <1>1 DEF MonitorState, States
<1>3. StartElection(m, s) = Start(m, e)
  BY DEF StartElection, z
<1> HIDE DEF e
<1>4. e.participating \/ e.epoch = Rem(e)
  BY <1>2 DEF Rem
<1>5. e.state \notin Ruling /\ Candidacy(m, e)
  BY <1>2 DEF Ruling, Candidacy
<1>6. Humble(m, e, Start(m, e))
  BY <1>2, <1>4, <1>5, StartHumble
<1>7. StartElection(m, s).s.state \notin Ruling
  BY StartElectionOk
<1> QED BY <1>2, <1>3, <1>6, <1>7 DEF Humble, Kept

\* defer() ends the candidacy and acks with the epoch on disk, a lower rank only.
LEMMA DeferHumble ==
  ASSUME NEW m \in Rank, NEW s \in MonitorState, s.epoch = Rem(s), Candidacy(m, s),
         NEW who \in Rank, who <= m
  PROVE  Humble(m, s, Defer(s, who))
<1> DEFINE t == [s EXCEPT !.acked_me = IF s.electing_me THEN {} ELSE @,
                          !.electing_me = FALSE, !.leader_acked = who,
                          !.timer = "extended"]
           msg == Msg("ACK", s.epoch, {})
<1>1. Defer(s, who).s = t /\ Defer(s, who).out = SendTo({who}, msg)
  BY DEF Defer
<1>2. /\ t.electing_me = FALSE /\ t.epoch = s.epoch /\ t.stored = s.stored
      /\ t.acked_me = {} \/ t.acked_me = s.acked_me
      /\ Continues(s, t)
  BY DEF MonitorState, Continues
<1> HIDE DEF t
<1>3. s.epoch \in Nat /\ s.epoch >= 1 /\ s.epoch <= Rem(t)
  BY <1>2 DEF Rem, MonitorState
<1>4. msg \in Plain(m, t, who)
  BY <1>3, MsgGood DEF Plain, Msg
<1> HIDE DEF msg
<1>5. \A d \in Rank : SendTo({who}, msg)[d] \in Seq(Plain(m, t, d))
  BY <1>4, SendHumble
<1> QED BY <1>1, <1>2, <1>5 DEF Humble, Candidacy, Kept

\* Two humble calls in a row, of which the second does not take the epoch on disk back
\* and has it in memory.
LEMMA ThenHumble ==
  ASSUME NEW m \in Rank, NEW s, NEW r, NEW q, Humble(m, s, r), Humble(m, r.s, q),
         r.s \in MonitorState, q.s \in MonitorState, q.s.stored >= r.s.stored,
         q.s.epoch >= 1
  PROVE  Humble(m, s, Then(r, q))
<1>1. Then(r, q).s = q.s /\ \A d \in Rank : Then(r, q).out[d] = r.out[d] \o q.out[d]
  BY DEF Then
<1>2. Rem(r.s) \in Nat /\ Rem(q.s) \in Nat /\ Rem(r.s) <= Rem(q.s)
  BY DEF Rem, MonitorState
<1>3. \A d \in Rank : Plain(m, r.s, d) \subseteq Plain(m, q.s, d)
  BY <1>2 DEF Plain, GoodMsg, Message
<1>4. ASSUME NEW d \in Rank
      PROVE  r.out[d] \o q.out[d] \in Seq(Plain(m, q.s, d))
  <2>1. r.out[d] \in Seq(Plain(m, r.s, d)) /\ q.out[d] \in Seq(Plain(m, q.s, d))
    BY DEF Humble
  <2>2. r.out[d] \in Seq(Plain(m, q.s, d))
    BY <2>1, <1>3
  <2> QED BY <2>1, <2>2, ConcatProperties
<1>5. \A x \in q.s.acked_me : x = m \/ (x \in s.acked_me /\ q.s.epoch = s.epoch)
  BY DEF Humble
<1>6. q.s.state \in Ruling => Continues(s, q.s)
  BY DEF Humble, Continues
<1> QED BY <1>1, <1>4, <1>5, <1>6 DEF Humble, Kept

-----------------------------------------------------------------------------
(* The handlers *)

\* A monitor that hears messages, with a candidacy that is in order
Ready(m, s) == Awake(s) /\ Candidacy(m, s)

\* The first half of handle_propose
LEMMA ProposeEpochHumble ==
  ASSUME NEW m \in Rank, NEW from \in Rank, NEW s, Ready(m, s), NEW e \in Nat, e >= 1
  PROVE  Humble(m, s, ProposeEpoch(m, s, from, e))
<1> s \in MonitorState /\ s.epoch = Rem(s) /\ Candidacy(m, s)
  BY DEF Ready, Awake
<1>1. Humble(m, s, [s |-> s, out |-> Nak(from, e)])
  <2>1. \A d \in Rank : Msg("NAK", e, {}) \in Plain(m, s, d)
    BY MsgGood DEF Plain, Msg
  <2>2. \A d \in Rank : Nak(from, e)[d] \in Seq(Plain(m, s, d))
    BY <2>1, SendHumble DEF Nak
  <2> QED BY <2>2 DEF Humble, Continues, Kept
<1>2. Humble(m, s, Done(BumpEpoch(s, e)))
  <2>1. /\ BumpEpoch(s, e).electing_me = FALSE /\ BumpEpoch(s, e).acked_me = {}
        /\ BumpEpoch(s, e).state = "electing" /\ BumpEpoch(s, e).epoch = e
    BY BumpClears
  <2> QED BY <2>1, DoneHumble DEF Candidacy, Ruling, Kept
<1>3. Humble(m, s, StartElection(m, s))
  BY StartElectionHumble
<1>4. Humble(m, s, Done(s))
  BY DoneHumble DEF Continues, Kept
<1> QED BY <1>1, <1>2, <1>3, <1>4 DEF ProposeEpoch

\* The second half of handle_propose
LEMMA CompareHumble ==
  ASSUME NEW m \in Rank, NEW from \in Rank, NEW s, Ready(m, s)
  PROVE  Humble(m, s, Compare(m, s, from))
<1> s \in MonitorState /\ s.epoch = Rem(s) /\ Candidacy(m, s)
  BY DEF Ready, Awake
<1>1. Humble(m, s, StartElection(m, s))
  BY StartElectionHumble
<1>2. ~(m < from) => Humble(m, s, Defer(s, from))
  BY DeferHumble, NAssumption DEF Rank
<1>3. Humble(m, s, Done(s))
  BY DoneHumble DEF Continues, Kept
<1> QED BY <1>1, <1>2, <1>3 DEF Compare

\* handle_propose counts nobody and enters no regime.
LEMMA ProposeHumble ==
  ASSUME NEW m \in Rank, NEW from \in Rank, NEW s, Ready(m, s), NEW e \in Nat, e >= 1
  PROVE  Humble(m, s, ProposeResult(m, s, from, e))
<1> s \in MonitorState /\ Candidacy(m, s) /\ Awake(s)
  BY DEF Ready, Awake
<1>1. Humble(m, s, [s |-> s, out |-> Nak(from, e)])
  <2>1. \A d \in Rank : Msg("NAK", e, {}) \in Plain(m, s, d)
    BY MsgGood DEF Plain, Msg
  <2>2. \A d \in Rank : Nak(from, e)[d] \in Seq(Plain(m, s, d))
    BY <2>1, SendHumble DEF Nak
  <2> QED BY <2>2 DEF Humble, Continues, Kept
<1>2. Humble(m, s, Done(s))
  BY DoneHumble DEF Continues, Kept
<1>3. LET r == ProposeEpoch(m, s, from, e)
      IN  Humble(m, s, Then(r, Compare(m, r.s, from)))
  <2> DEFINE r == ProposeEpoch(m, s, from, e)
             q == Compare(m, r.s, from)
  <2>1. Calmly(s, r) /\ Humble(m, s, r)
    BY ProposeEpochCalmly, ProposeEpochHumble
  <2> HIDE DEF r
  <2>2. Awake(r.s) /\ Ready(m, r.s)
    BY <2>1 DEF Calmly, Humble, Ready
  <2>3. Calmly(r.s, q) /\ Humble(m, r.s, q)
    BY <2>2, CompareCalmly, CompareHumble
  <2> HIDE DEF q
  <2>4. q.s.epoch >= 1
    BY <2>3 DEF Calmly, Awake, MonitorState, Rem
  <2>5. Humble(m, s, Then(r, q))
    BY <2>1, <2>2, <2>3, <2>4, ThenHumble DEF Calmly, Awake
  <2> QED BY <2>5 DEF r, q
<1> QED BY <1>1, <1>2, <1>3 DEF ProposeResult

\* After bump_epoch, start() is humble whatever the state was before.
LEMMA BumpStartHumble ==
  ASSUME NEW m \in Rank, NEW s, NEW t \in MonitorState, NEW e \in Nat, e >= 1
  PROVE  Humble(m, s, Start(m, BumpEpoch(t, e)))
<1> DEFINE b == BumpEpoch(t, e)
<1>1. /\ b \in MonitorState /\ b.electing_me = FALSE /\ b.acked_me = {}
      /\ b.state = "electing" /\ b.epoch = Rem(b)
  BY BumpClears
<1> HIDE DEF b
<1>2. Humble(m, b, Start(m, b))
  BY <1>1, StartHumble DEF Candidacy
<1>3. Start(m, b).s.epoch >= 1
  <2>1. Start(m, b).s \in MonitorState /\ Start(m, b).s.epoch = Rem(Start(m, b).s)
    BY <1>1, StartOk
  <2> QED BY <2>1 DEF MonitorState, Rem
<1> QED BY <1>1, <1>2, <1>3 DEF Humble, Continues, Ruling, Kept, b

\* bootstrap() leaves the candidacy alone.
LEMMA BootstrapHumble ==
  ASSUME NEW m \in Rank, NEW s, NEW t \in MonitorState, Candidacy(m, t),
         t.acked_me = s.acked_me, t.epoch = s.epoch, t.stored = s.stored
  PROVE  Humble(m, s, Done(BootstrapState(t)))
<1> DEFINE z == Reset(t)
           p == [z EXCEPT !.state = "probing"]
<1>1. /\ z \in MonitorState /\ z.epoch = t.epoch /\ z.stored = t.stored
      /\ z.acked_me = t.acked_me /\ z.electing_me = t.electing_me
  BY DEF Reset, MonitorState
<1> HIDE DEF z
<1>2. /\ p.epoch = t.epoch /\ p.acked_me = t.acked_me /\ p.electing_me = t.electing_me
      /\ p.state = "probing" /\ p.stored = t.stored
  BY <1>1 DEF MonitorState
<1> HIDE DEF p
<1>3. BootstrapState(t) = p
  BY DEF BootstrapState, p, z
<1> QED BY <1>2, <1>3, DoneHumble DEF Candidacy, Ruling, Kept

-----------------------------------------------------------------------------
(* Entering a regime *)

\* m may enter the regime of t as its leader
Wins(m, t) ==
  /\ t.state = "leader" /\ t.leader = m
  /\ Odd(Rem(mon[m])) /\ t.epoch = Rem(mon[m]) + 1
  /\ m \in t.quorum /\ Majority(t.quorum) /\ First(m, t.quorum)
  /\ \A x \in t.quorum : Rem(mon[x]) >= Rem(mon[m])

\* m may enter the regime of t as a peon
Joins(m, t) == t.state = "peon" /\ t.epoch = Rem(mon[m]) + 1 /\ Told(m, t)

\* What m in state t may send to d
Says(m, t, d) ==
  {msg \in GoodMsg :
     /\ msg.op = "ACK" => msg.epoch <= Rem(t) /\ d <= m
     /\ msg.op = "VICTORY" =>
          /\ t.state = "leader" /\ t.leader = m /\ d \in t.quorum /\ First(m, t.quorum)
          /\ msg.epoch = t.epoch /\ msg.quorum = t.quorum}

\* A call of m that counts only those that are bound, enters only what it may, and
\* says nothing that is not so
Fair(m, r) ==
  /\ Kept(mon[m], r.s)
  /\ Candidacy(m, r.s)
  /\ \A x \in r.s.acked_me : x = m \/ Bound(m, r.s, x)
  /\ r.s.state \in Ruling => \/ Continues(mon[m], r.s)
                             \/ Wins(m, r.s)
                             \/ Joins(m, r.s)
  /\ \A d \in Rank : r.out[d] \in Seq(Says(m, r.s, d))

\* A humble call is fair.
LEMMA HumbleFair ==
  ASSUME AckInv, NEW m \in Rank, NEW r, Humble(m, mon[m], r)
  PROVE  Fair(m, r)
<1>1. \A x \in r.s.acked_me : x = m \/ Bound(m, r.s, x)
  BY DEF Humble, AckInv, Bound
<1>2. \A d \in Rank : Plain(m, r.s, d) \subseteq Says(m, r.s, d)
  BY DEF Plain, Says
<1>3. \A d \in Rank : r.out[d] \in Seq(Says(m, r.s, d))
  BY <1>2 DEF Humble
<1> QED BY <1>1, <1>3 DEF Humble, Fair

\* victory() of a candidate in an odd epoch, whose voters are all bound, is fair.
LEMMA VictoryFair ==
  ASSUME NEW m \in Rank, NEW a \in MonitorState, a.epoch = Rem(mon[m]), a.epoch >= 1,
         Odd(a.epoch), m \in a.acked_me, Majority(a.acked_me),
         \A x \in a.acked_me : Bound(m, a, x)
  PROVE  Fair(m, Victory(m, a))
<1> DEFINE Q == a.acked_me
           c == [a EXCEPT !.leader_acked = -1, !.electing_me = FALSE, !.timer = "off"]
           b == BumpEpoch(c, a.epoch + 1)
           w == WinElection(m, b, Q)
           msg == Msg("VICTORY", b.epoch, Q)
<1>1. c \in MonitorState /\ a.epoch + 1 \in Nat /\ a.epoch + 1 >= 1 /\ Q \in SUBSET Rank
  <2>1. c \in MonitorState
    BY DEF MonitorState, Timers
  <2>2. a.epoch \in Nat /\ Q \in SUBSET Rank
    BY DEF MonitorState
  <2> QED BY <2>1, <2>2
<1> HIDE DEF c, Q
<1>2. /\ b \in MonitorState /\ b.epoch = a.epoch + 1 /\ b.electing_me = FALSE
      /\ b.acked_me = {}
  BY <1>1, BumpClears, ZenonT(40)
<1> HIDE DEF b
<1>3. w = [b EXCEPT !.state = "leader", !.leader = m, !.quorum = Q]
  BY DEF WinElection
<1> HIDE DEF w
<1>4. /\ w.state = "leader" /\ w.leader = m /\ w.quorum = Q /\ w.epoch = a.epoch + 1
      /\ w.electing_me = FALSE /\ w.acked_me = {}
  BY <1>2, <1>3 DEF MonitorState
<1>5. /\ Victory(m, a).s = w
      /\ Victory(m, a).out = SendTo(Q \ {m}, msg)
  BY DEF Victory, Q, c, b, w
<1>6. First(m, Q)
  BY DEF First, Bound, Q
<1>7. msg \in GoodMsg /\ msg.op = "VICTORY" /\ msg.epoch = w.epoch /\ msg.quorum = w.quorum
  <2>1. msg \in GoodMsg
    BY <1>1, <1>2, MsgGood DEF Q
  <2> QED BY <2>1, <1>2, <1>4 DEF Msg
<1> HIDE DEF msg
<1>8. \A d \in Q : msg \in Says(m, w, d)
  BY <1>4, <1>6, <1>7 DEF Says
<1>9. \A d \in Rank : SendTo(Q \ {m}, msg)[d] \in Seq(Says(m, w, d))
  BY <1>8, SendHumble
<1>10. Wins(m, w)
  BY <1>4, <1>6 DEF Wins, Q, Bound
<1> QED BY <1>1, <1>4, <1>5, <1>9, <1>10 DEF Fair, Candidacy, Kept

\* handle_ack is fair: the sender of an ack for this epoch is bound.
LEMMA AckFair ==
  ASSUME AckInv, NEW m \in Rank, NEW from \in Rank, Ready(m, mon[m]),
         NEW e \in Nat, e >= mon[m].epoch, e <= Rem(mon[from]), m <= from
  PROVE  Fair(m, AckResult(m, mon[m], from, e))
<1> DEFINE s == mon[m]
           a == [s EXCEPT !.acked_me = @ \cup {from}]
<1>0. /\ s \in MonitorState /\ s.epoch = Rem(s) /\ s.epoch \in Nat /\ s.epoch >= 1
      /\ Candidacy(m, s)
  BY DEF Ready, Awake, MonitorState, Rem
<1>1. e > s.epoch => Fair(m, Start(m, BumpEpoch(s, e)))
  BY <1>0, BumpStartHumble, HumbleFair
<1>2. Fair(m, Done(s))
  BY <1>0, DoneHumble, HumbleFair DEF Continues, Kept
<1>3. ASSUME e = s.epoch, s.electing_me
      PROVE  Fair(m, IF Cardinality(a.acked_me) = N THEN Victory(m, a) ELSE Done(a))
  <2>1. /\ a \in MonitorState /\ a.epoch = s.epoch /\ Continues(s, a)
        /\ a.acked_me = s.acked_me \cup {from} /\ a.electing_me = s.electing_me
    BY <1>0 DEF MonitorState, Continues
  <2> HIDE DEF a
  <2>2. Candidacy(m, a) /\ Odd(a.epoch) /\ m \in a.acked_me
    BY <1>0, <1>3, <2>1 DEF Candidacy
  <2>3. \A x \in a.acked_me : Bound(m, a, x)
    <3>1. Bound(m, a, from)
      BY <1>3, <2>1 DEF Bound
    <3>2. \A x \in s.acked_me : Bound(m, a, x)
      BY <2>1 DEF AckInv, Bound
    <3> QED BY <2>1, <3>1, <3>2
  <2>4. Fair(m, Done(a))
    <3>1. Done(a).s = a /\ \A d \in Rank : Done(a).out[d] = <<>>
      BY DEF Done, Nothing
    <3>2. \A d \in Rank : <<>> \in Seq(Says(m, a, d))
      OBVIOUS
    <3> QED BY <1>0, <2>1, <2>2, <2>3, <3>1, <3>2 DEF Fair, Kept
  <2>5. Cardinality(a.acked_me) = N => Fair(m, Victory(m, a))
    <3> SUFFICES ASSUME Cardinality(a.acked_me) = N PROVE Fair(m, Victory(m, a))
      OBVIOUS
    <3>1. Majority(a.acked_me)
      BY NAssumption DEF Majority
    <3>2. a.epoch = Rem(mon[m]) /\ a.epoch >= 1
      BY <1>0, <2>1
    <3> QED BY <2>1, <2>2, <2>3, <3>1, <3>2, VictoryFair
  <2> QED BY <2>4, <2>5
<1> HIDE DEF a
<1>4. e > s.epoch \/ e = s.epoch
  BY <1>0
<1>5. AckResult(m, s, from, e) =
        IF e > s.epoch THEN Start(m, BumpEpoch(s, e))
        ELSE IF Lacks(m, from, oldConn) \/ Lacks(m, from, Old) THEN Done(s)
        ELSE IF s.electing_me
             THEN IF Cardinality(a.acked_me) = N THEN Victory(m, a) ELSE Done(a)
             ELSE Done(s)
  BY DEF AckResult, a
<1> QED BY <1>1, <1>2, <1>3, <1>4, <1>5

\* handle_victory is fair: what it enters, the sender has entered.
LEMMA VictoryResultFair ==
  ASSUME AckInv, NEW m \in Rank, NEW from \in Rank, Ready(m, mon[m]),
         NEW e \in Nat, e >= mon[m].epoch, NEW Q \in SUBSET Rank,
         m \in Q, First(from, Q), Declared(from, e, Q) \in regime
  PROVE  Fair(m, VictoryResult(m, mon[m], from, e, Q))
<1> DEFINE s == mon[m]
           d == [s EXCEPT !.leader_acked = -1]
           b == BumpEpoch(d, e)
           l == LoseElection(b, Q, from)
           t == [l EXCEPT !.timer = "off"]
<1>0. s \in MonitorState /\ s.epoch = Rem(s) /\ s.epoch \in Nat /\ s.epoch >= 1
  BY DEF Ready, Awake, MonitorState, Rem
<1>1. d \in MonitorState /\ e >= 1
  BY <1>0 DEF MonitorState
<1> HIDE DEF d
<1>2. Fair(m, Start(m, b))
  BY <1>0, <1>1, BumpStartHumble, HumbleFair
<1>3. ASSUME e = s.epoch + 1
      PROVE  Fair(m, Done(t))
  <2>1. b \in MonitorState /\ b.epoch = e /\ b.electing_me = FALSE /\ b.acked_me = {}
    BY <1>1, BumpClears
  <2>2. l = [b EXCEPT !.state = "peon", !.leader = from, !.quorum = Q]
    BY DEF LoseElection
  <2> HIDE DEF b, l
  <2>3. /\ l \in MonitorState /\ l.epoch = e /\ l.state = "peon" /\ l.leader = from
        /\ l.quorum = Q /\ l.electing_me = FALSE /\ l.acked_me = {}
    BY <2>1, <2>2 DEF MonitorState, States
  <2>4. /\ t.epoch = e /\ t.state = "peon" /\ t.leader = from
        /\ t.quorum = Q /\ t.electing_me = FALSE /\ t.acked_me = {}
    BY <2>3 DEF MonitorState
  <2> HIDE DEF t
  <2>5. Joins(m, t)
    BY <1>0, <1>3, <2>4 DEF Joins, Told
  <2>6. Done(t).s = t /\ \A x \in Rank : Done(t).out[x] = <<>>
    BY DEF Done, Nothing
  <2>7. \A x \in Rank : <<>> \in Seq(Says(m, t, x))
    OBVIOUS
  <2> QED BY <1>1, <2>4, <2>5, <2>6, <2>7 DEF Fair, Candidacy, Kept
<1>4. VictoryResult(m, s, from, e, Q) = IF e # s.epoch + 1 THEN Start(m, b) ELSE Done(t)
  BY DEF VictoryResult, d
<1> QED BY <1>2, <1>3, <1>4

\* expire() is fair: whoever it counts is bound.
LEMMA ExpireFair ==
  ASSUME AckInv, NEW m \in Rank, mon[m] \in MonitorState, InMemory(mon[m]),
         Candidacy(m, mon[m]), mon[m].timer # "off"
  PROVE  Fair(m, ExpireResult(m, mon[m]))
<1> DEFINE s == mon[m]
           f == [s EXCEPT !.timer = "off"]
<1>1. s.epoch = Rem(s) /\ s.epoch >= 1
  BY DEF InMemory, Rem, MonitorState
<1>2. /\ f \in MonitorState /\ f.epoch = s.epoch /\ f.stored = s.stored
      /\ f.acked_me = s.acked_me /\ f.electing_me = s.electing_me /\ Continues(s, f)
  BY DEF MonitorState, Timers, Continues
<1> HIDE DEF f
<1>3. Candidacy(m, f) /\ f.epoch = Rem(f)
  BY <1>1, <1>2 DEF Candidacy, Rem
<1>4. s.electing_me /\ Majority(s.acked_me) => Fair(m, Victory(m, f))
  <2> SUFFICES ASSUME s.electing_me, Majority(s.acked_me) PROVE Fair(m, Victory(m, f))
    OBVIOUS
  <2>1. Odd(f.epoch) /\ m \in f.acked_me
    BY <1>2, <1>3 DEF Candidacy
  <2>2. \A x \in f.acked_me : Bound(m, f, x)
    BY <1>2 DEF AckInv, Bound
  <2> QED BY <1>1, <1>2, <2>1, <2>2, VictoryFair
<1>5. Fair(m, Start(m, f))
  <2>1. Humble(m, f, Start(m, f))
    BY <1>2, <1>3, StartHumble
  <2>2. Humble(m, s, Start(m, f))
    BY <1>2, <2>1 DEF Humble, Continues, Kept
  <2> QED BY <2>2, HumbleFair
<1>6. Fair(m, Done(BootstrapState(f)))
  BY <1>2, <1>3, BootstrapHumble, HumbleFair
<1> QED BY <1>4, <1>5, <1>6 DEF ExpireResult, f

-----------------------------------------------------------------------------
(* Steps *)

\* What every monitor remembers grows with the epochs on disk.
LEMMA RemGrows ==
  ASSUME Core, Safely
  PROVE  \A x \in Rank : /\ Rem(mon[x]) \in Nat /\ Rem(mon'[x]) \in Nat
                         /\ Rem(mon[x]) <= Rem(mon'[x])
<1> SUFFICES ASSUME NEW x \in Rank
             PROVE  /\ Rem(mon[x]) \in Nat /\ Rem(mon'[x]) \in Nat
                    /\ Rem(mon[x]) <= Rem(mon'[x])
  OBVIOUS
<1>1. mon[x].stored \in Nat /\ mon'[x].stored \in Nat /\ mon[x].stored <= mon'[x].stored
  BY StoredType DEF Core, Typed, Safely, Grows
<1> QED BY <1>1 DEF Rem

\* What was true of a message stays true.
LEMMA TruthGrows ==
  ASSUME Core, Safely, regime \subseteq regime', NEW x \in Rank, NEW d \in Rank
  PROVE  Truth(x, d) \subseteq Truth(x, d)'
<1> SUFFICES ASSUME NEW msg \in Truth(x, d) PROVE msg \in Truth(x, d)'
  OBVIOUS
<1>1. msg \in GoodMsg /\ msg.epoch \in Nat
  BY DEF Truth, GoodMsg, Message
<1>2. msg.op = "ACK" => msg.epoch <= Rem(mon'[x]) /\ d <= x
  BY <1>1, RemGrows DEF Truth
<1>3. msg.op = "VICTORY" => /\ d \in msg.quorum /\ First(x, msg.quorum)
                            /\ Declared(x, msg.epoch, msg.quorum) \in regime'
  BY DEF Truth
<1>4. GoodMsg' = GoodMsg /\ Rem(mon[x])' = Rem(mon'[x])
  BY DEF Rem
<1> QED BY <1>1, <1>2, <1>3, <1>4 DEF Truth

\* The history only grows, and has the regime that m is in after the step.
LEMMA EntersGrows ==
  ASSUME NEW m \in Rank, NEW r, Enters(m, r)
  PROVE  /\ regime \subseteq regime'
         /\ r.s.state \in Ruling => RegimeOf(m, r.s) \in regime'
         /\ regime' \subseteq regime \cup {RegimeOf(m, r.s)}
         /\ r.s.epoch <= MaxEpoch
  BY DEF Enters, Ruling, RegimeOf

\* What m says in a fair call is true after the step.
LEMMA SaysTruth ==
  ASSUME NEW m \in Rank, NEW r, Enters(m, r), mon'[m] = r.s, NEW d \in Rank
  PROVE  Says(m, r.s, d) \subseteq Truth(m, d)'
<1> SUFFICES ASSUME NEW msg \in Says(m, r.s, d) PROVE msg \in Truth(m, d)'
  OBVIOUS
<1>1. msg \in GoodMsg /\ (msg.op = "ACK" => msg.epoch <= Rem(mon'[m]) /\ d <= m)
  BY DEF Says
<1>2. ASSUME msg.op = "VICTORY"
      PROVE  /\ d \in msg.quorum /\ First(m, msg.quorum)
             /\ Declared(m, msg.epoch, msg.quorum) \in regime'
  <2>1. /\ r.s.state = "leader" /\ r.s.leader = m /\ d \in r.s.quorum
        /\ First(m, r.s.quorum) /\ msg.epoch = r.s.epoch /\ msg.quorum = r.s.quorum
    BY <1>2 DEF Says
  <2>2. RegimeOf(m, r.s) = Declared(m, msg.epoch, msg.quorum)
    BY <2>1 DEF RegimeOf, Declared
  <2>3. RegimeOf(m, r.s) \in regime'
    BY <2>1, EntersGrows DEF Ruling
  <2> QED BY <2>1, <2>2, <2>3
<1>3. GoodMsg' = GoodMsg /\ Rem(mon[m])' = Rem(mon'[m])
  BY DEF Rem
<1> QED BY <1>1, <1>2, <1>3 DEF Truth

\* The messages of a fair call keep the channels true.
LEMMA TransmitTruth ==
  ASSUME Core, Safely, TruthInv, NEW m \in Rank, NEW From,
         \A x \in From : net[x][m] # <<>>,
         NEW r, Fair(m, r), Enters(m, r), mon'[m] = r.s, Transmit(m, From, r)
  PROVE  TruthInv'
<1> SUFFICES ASSUME NEW x \in Rank, NEW d \in Rank
             PROVE  net'[x][d] \in Seq(Truth(x, d)')
  BY DEF TruthInv
<1> DEFINE old == IF x \in From /\ d = m THEN Tail(net[x][d]) ELSE net[x][d]
           new == IF x = m THEN r.out[d] ELSE <<>>
           T   == Truth(x, d)'
<1>1. net'[x][d] = old \o new
  BY DEF Transmit
<1>2. net[x][d] \in Seq(T)
  <2>1. Truth(x, d) \subseteq T
    BY EntersGrows, TruthGrows
  <2>2. net[x][d] \in Seq(Truth(x, d))
    BY DEF TruthInv
  <2> HIDE DEF T
  <2> QED BY <2>1, <2>2
<1>3. x = m => r.out[d] \in Seq(T)
  <2> SUFFICES ASSUME x = m PROVE r.out[d] \in Seq(T)
    OBVIOUS
  <2>1. Says(m, r.s, d) \subseteq T
    BY SaysTruth
  <2>2. r.out[d] \in Seq(Says(m, r.s, d))
    BY DEF Fair
  <2> HIDE DEF T
  <2> QED BY <2>1, <2>2
<1> HIDE DEF T
<1>4. old \in Seq(T)
  BY <1>2, HeadTailProperties
<1>5. new \in Seq(T)
  BY <1>3
<1> HIDE DEF old, new
<1>6. old \o new \in Seq(T)
  BY <1>4, <1>5, ConcatProperties
<1> QED BY <1>1, <1>6 DEF T

\* What a step of one monitor may do to another
Alike(s, t) == Same(s, t) /\ t.electing_me = s.electing_me /\ t.acked_me = s.acked_me

\* m may be in state t after a step: it counts only those that are bound, and is only
\* in a regime that it was in or may enter
Proper(m, t) ==
  /\ Kept(mon[m], t) /\ Candidacy(m, t)
  /\ \A x \in t.acked_me : x = m \/ Bound(m, t, x)
  /\ t.state \in Ruling => Continues(mon[m], t) \/ Wins(m, t) \/ Joins(m, t)

\* A step that is proper for m, and leaves the others alone, preserves what a candidate
\* and a peon rely on.
LEMMA StepBond ==
  ASSUME Core, Bond, Safely, TruthInv', regime \subseteq regime',
         NEW m \in Rank, Proper(m, mon'[m]), mon'[m].epoch <= MaxEpoch,
         \A x \in Rank \ {m} : Alike(mon[x], mon'[x])
  PROVE  Bond'
<1> DEFINE s == mon[m]
           t == mon'[m]
<1>0. /\ \A x \in Rank : mon[x] \in MonitorState /\ mon'[x] \in MonitorState
      /\ \A x \in Rank : InMemory(mon'[x])
  BY DEF Core, Typed, Safely, InMemoryInv, InMemory, Rem
<1>1. CandidateInv'
  <2> SUFFICES ASSUME NEW x \in Rank PROVE Candidacy(x, mon'[x])
    BY DEF CandidateInv, Candidacy
  <2>1. CASE x = m
    BY <2>1 DEF Proper
  <2>2. CASE x # m
    BY <2>2 DEF Alike, Same, Continues, Bond, CandidateInv, Candidacy
  <2> QED BY <2>1, <2>2
<1>2. ASSUME NEW x \in Rank, NEW y \in mon'[x].acked_me
      PROVE  x <= y /\ Rem(mon'[y]) >= mon'[x].epoch
  <2>0. y \in Rank /\ x \in Int /\ mon'[x].epoch \in Nat
    BY <1>0, NAssumption DEF MonitorState, Rank
  <2>1. CASE x = m /\ y = m
    <3>1. Rem(t) >= t.epoch
      BY <1>0 DEF InMemory, Rem, MonitorState
    <3> QED BY <2>0, <2>1, <3>1
  <2>2. CASE x = m /\ y # m
    <3>1. Bound(m, t, y)
      BY <2>2 DEF Proper
    <3>2. Rem(mon[y]) \in Nat /\ Rem(mon'[y]) \in Nat /\ Rem(mon[y]) <= Rem(mon'[y])
      BY <2>0, RemGrows
    <3> QED BY <2>0, <2>2, <3>1, <3>2 DEF Bound
  <2>3. CASE x # m
    <3>1. y \in mon[x].acked_me /\ mon'[x].epoch = mon[x].epoch
      BY <2>3 DEF Alike, Same, Continues
    <3>2. Bound(x, mon[x], y)
      BY <3>1 DEF Bond, AckInv
    <3> QED BY <2>0, <3>1, <3>2, RemGrows DEF Bound
  <2> QED BY <2>1, <2>2, <2>3
<1>3. AckInv'
  BY <1>2 DEF AckInv, Bound, Rem
<1>4. ASSUME NEW x \in Rank, mon'[x].state = "peon"
      PROVE  /\ x \in mon'[x].quorum /\ First(mon'[x].leader, mon'[x].quorum)
             /\ Declared(mon'[x].leader, mon'[x].epoch, mon'[x].quorum) \in regime'
  <2>1. CASE Continues(mon[x], mon'[x])
    BY <1>4, <2>1 DEF Continues, Bond, PeonInv, Told
  <2>2. CASE x = m /\ Joins(m, t)
    BY <2>2 DEF Joins, Told
  <2> QED BY <1>4, <2>1, <2>2 DEF Proper, Wins, Ruling, Alike, Same
<1>5. PeonInv'
  BY <1>4 DEF PeonInv, Told
<1>6. ASSUME NEW x \in Rank
      PROVE  Rem(mon'[x]) <= MaxEpoch
  <2>1. CASE mon'[x].stored = mon[x].stored
    BY <2>1 DEF Bond, LowInv, Rem
  <2>2. CASE x = m /\ t.epoch >= 1
    BY <1>0, <2>2 DEF InMemory
  <2> QED BY <2>1, <2>2 DEF Proper, Kept, Alike, Same
<1>7. LowInv'
  BY <1>6 DEF LowInv, Rem
<1> QED BY <1>1, <1>3, <1>5, <1>7 DEF Bond

-----------------------------------------------------------------------------
(* The refinement *)

\* What module Election sees of a monitor in state s
Role(s) == IF s.state \in Ruling THEN s.state ELSE "out"
LeaderOf(m, s) == IF s.state \in Ruling THEN s.leader ELSE m
QuorumOf(s) == IF s.state \in Ruling THEN s.quorum ELSE {}
Won(R) == {[epoch |-> r.epoch, leader |-> r.leader, quorum |-> r.quorum] :
             r \in {q \in R : q.mon = q.leader}}

\* A step of m, as module Election sees it
Seen(m, e, role, l, Q, W) ==
  /\ [x \in Rank |-> Rem(mon'[x])] = [[x \in Rank |-> Rem(mon[x])] EXCEPT ![m] = e]
  /\ [x \in Rank |-> Role(mon'[x])] = [[x \in Rank |-> Role(mon[x])] EXCEPT ![m] = role]
  /\ [x \in Rank |-> LeaderOf(x, mon'[x])]
       = [[x \in Rank |-> LeaderOf(x, mon[x])] EXCEPT ![m] = l]
  /\ [x \in Rank |-> QuorumOf(mon'[x])]
       = [[x \in Rank |-> QuorumOf(mon[x])] EXCEPT ![m] = Q]
  /\ Won(regime') = W

\* Module Election sees the others unchanged.
LEMMA SeenOk ==
  ASSUME NEW m \in Rank, \A x \in Rank \ {m} : Same(mon[x], mon'[x])
  PROVE  LET t == mon'[m]
         IN  Seen(m, Rem(t), Role(t), LeaderOf(m, t), QuorumOf(t), Won(regime'))
<1>1. \A x \in Rank \ {m} : /\ Rem(mon'[x]) = Rem(mon[x]) /\ Role(mon'[x]) = Role(mon[x])
                            /\ LeaderOf(x, mon'[x]) = LeaderOf(x, mon[x])
                            /\ QuorumOf(mon'[x]) = QuorumOf(mon[x])
  BY DEF Same, Continues, Rem, Role, LeaderOf, QuorumOf
<1> QED BY <1>1 DEF Seen

\* The variables of module Election, and what they are after a step.
LEMMA PromiseVars ==
  /\ Promise!Monitors = Rank
  /\ Promise!vars = <<[x \in Rank |-> Rem(mon[x])], [x \in Rank |-> Role(mon[x])],
                      [x \in Rank |-> LeaderOf(x, mon[x])],
                      [x \in Rank |-> QuorumOf(mon[x])], Won(regime)>>
  /\ Promise!vars' = <<[x \in Rank |-> Rem(mon'[x])], [x \in Rank |-> Role(mon'[x])],
                       [x \in Rank |-> LeaderOf(x, mon'[x])],
                       [x \in Rank |-> QuorumOf(mon'[x])], Won(regime')>>
  BY DEF Promise!Monitors, Rank, Promise!vars, Remembered, Rem, Mapped, Ruling, Role,
         LeaderOf, QuorumOf, Won

\* A step that leaves m out of any regime is a step Leave of module Election.
LEMMA SeenLeave ==
  ASSUME NEW m \in Rank, NEW e \in Rem(mon[m]) .. MaxEpoch,
         Seen(m, e, "out", m, {}, Won(regime))
  PROVE  Promise!Leave(m)
  BY DEF Seen, Promise!Leave, Promise!Monitors, Rank, Remembered, Rem, Mapped, Ruling, Role,
         LeaderOf, QuorumOf, Won

\* A monitor that enters a regime as its leader takes a step Win.
LEMMA SeenWin ==
  ASSUME NEW m \in Rank, NEW Q \in SUBSET Rank, NEW e, e = Rem(mon[m]), Odd(e),
         m \in Q, Majority(Q), First(m, Q), \A x \in Q : Rem(mon[x]) >= e,
         Seen(m, e + 1, "leader", m, Q,
              Won(regime) \cup {[epoch |-> e + 1, leader |-> m, quorum |-> Q]})
  PROVE  Promise!Win(m)
<1>1. Promise!Monitors = Rank
  BY DEF Promise!Monitors, Rank
<1>2. [x \in Rank |-> Remembered(x)][m] = e
  BY DEF Remembered, Rem
<1>3. [x \in Rank |-> Remembered(x)][m] % 2 = 1
  BY <1>2 DEF Odd
<1>4. m \in Q /\ 2 * Cardinality(Q) > N /\ \A x \in Q : m <= x
  BY DEF Majority, First
<1>5. \A x \in Q : [y \in Rank |-> Remembered(y)][x] >= [y \in Rank |-> Remembered(y)][m]
  BY DEF Remembered, Rem
<1>6. Promise!Enter(m, [x \in Rank |-> Remembered(x)][m] + 1, m, Q)
  BY <1>2 DEF Seen, Promise!Enter, Promise!Monitors, Rank, Remembered, Rem, Mapped, Ruling,
              LeaderOf, QuorumOf
<1>7. [x \in Rank |-> IF Mapped(x) THEN mon[x].state ELSE "out"]'
        = [[x \in Rank |-> IF Mapped(x) THEN mon[x].state ELSE "out"] EXCEPT ![m] = "leader"]
  BY DEF Seen, Mapped, Role, Ruling
<1>8. {[epoch |-> r.epoch, leader |-> r.leader, quorum |-> r.quorum] :
          r \in {q \in regime : q.mon = q.leader}}'
        = {[epoch |-> r.epoch, leader |-> r.leader, quorum |-> r.quorum] :
             r \in {q \in regime : q.mon = q.leader}}
          \cup {Promise!Regime([x \in Rank |-> Remembered(x)][m] + 1, m, Q)}
  BY <1>2 DEF Seen, Won, Promise!Regime
<1>9. Q \in SUBSET Promise!Monitors
  BY <1>1
<1>10. 2 * Promise!Cardinality(Q) > N
  BY <1>4 DEF Promise!Cardinality, Cardinality
<1> QED BY <1>3, <1>4, <1>5, <1>6, <1>7, <1>8, <1>9, <1>10, Zenon DEF Promise!Win

\* A monitor that enters a regime as a peon takes a step Follow.
LEMMA SeenFollow ==
  ASSUME NEW m \in Rank, NEW w \in Won(regime), m \in w.quorum,
         Rem(mon[m]) + 1 = w.epoch,
         Seen(m, w.epoch, "peon", w.leader, w.quorum, Won(regime))
  PROVE  Promise!Follow(m)
<1>1. Promise!Enter(m, w.epoch, w.leader, w.quorum)
  BY DEF Seen, Promise!Enter, Promise!Monitors, Rank, Remembered, Rem, Mapped, Ruling,
         LeaderOf, QuorumOf
<1>2. [x \in Rank |-> IF Mapped(x) THEN mon[x].state ELSE "out"]'
        = [[x \in Rank |-> IF Mapped(x) THEN mon[x].state ELSE "out"] EXCEPT ![m] = "peon"]
  BY DEF Seen, Mapped, Role, Ruling
<1>3. UNCHANGED {[epoch |-> r.epoch, leader |-> r.leader, quorum |-> r.quorum] :
                    r \in {q \in regime : q.mon = q.leader}}
  BY DEF Seen, Won
<1> QED BY <1>1, <1>2, <1>3 DEF Promise!Follow, Won

\* A step that is proper for m is a step of module Election, or changes nothing in it.
LEMMA Simulates ==
  ASSUME Core, Bond, Safely, Bond', NEW m \in Rank, Proper(m, mon'[m]),
         regime \subseteq regime', regime' \subseteq regime \cup {RegimeOf(m, mon'[m])},
         mon'[m].state \notin Ruling => regime' = regime,
         \A x \in Rank \ {m} : Same(mon[x], mon'[x])
  PROVE  [Promise!Next]_Promise!vars
<1> DEFINE s == mon[m]
           t == mon'[m]
           R == RegimeOf(m, t)
<1>1. Seen(m, Rem(t), Role(t), LeaderOf(m, t), QuorumOf(t), Won(regime'))
  BY SeenOk
<1>2. /\ Rem(s) \in Nat /\ Rem(t) \in Nat /\ Rem(s) <= Rem(t) /\ Rem(t) <= MaxEpoch
      /\ s \in MonitorState /\ t \in MonitorState /\ InMemory(s) /\ InMemory(t)
  BY RemGrows DEF Bond, LowInv, Core, Typed, Safely, InMemoryInv, InMemory, Rem
<1>3. /\ R.mon = m /\ R.epoch = t.epoch /\ R.leader = t.leader /\ R.quorum = t.quorum
      /\ t.quorum \in SUBSET Rank
  BY <1>2 DEF RegimeOf, MonitorState
<1>0. regime \subseteq regime' /\ regime' \subseteq regime \cup {R}
  OBVIOUS
<1>4. t.state \in Ruling => R \in regime' /\ t.epoch = Rem(t)
  <2>1. t.state \in Ruling => R \in regime'
    BY DEF Safely, Core, PresentInv, RegimeOf
  <2> QED BY <1>2, <2>1 DEF InMemory, Ruling
<1>5. ASSUME t.state \notin Ruling
      PROVE  Promise!Next
  <2>1. Seen(m, Rem(t), "out", m, {}, Won(regime))
    BY <1>1, <1>5 DEF Role, LeaderOf, QuorumOf
  <2>2. Rem(t) \in Rem(s) .. MaxEpoch
    BY <1>2, BoundAssumption
  <2>3. Promise!Leave(m)
    BY <2>1, <2>2, SeenLeave
  <2> QED BY <2>3, PromiseVars DEF Promise!Next
<1>6. ASSUME t.state \in Ruling, Continues(s, t)
      PROVE  UNCHANGED Promise!vars
  <2>1. s.state \in Ruling /\ s.epoch = Rem(s) /\ RegimeOf(m, s) = R
    BY <1>2, <1>6 DEF Continues, InMemory, Ruling, RegimeOf
  <2>2. R \in regime
    BY <2>1 DEF Core, PresentInv
  <2>3. regime' = regime
    BY <2>2
  <2>4. /\ Rem(t) = Rem(s) /\ Role(t) = Role(s) /\ LeaderOf(m, t) = LeaderOf(m, s)
        /\ QuorumOf(t) = QuorumOf(s)
    BY <1>4, <1>6, <2>1 DEF Continues, Role, LeaderOf, QuorumOf
  <2>5. Seen(m, Rem(s), Role(s), LeaderOf(m, s), QuorumOf(s), Won(regime))
    BY <1>1, <2>3, <2>4
  <2> HIDE DEF R
  <2> QED BY <2>5, PromiseVars DEF Seen
<1>7. ASSUME Wins(m, t)
      PROVE  Promise!Next
  <2>1. t.state \in Ruling /\ Role(t) = "leader" /\ LeaderOf(m, t) = m
        /\ QuorumOf(t) = t.quorum /\ t.epoch = Rem(s) + 1 /\ t.leader = m
    BY <1>7 DEF Wins, Ruling, Role, LeaderOf, QuorumOf
  <2>2. regime' = regime \cup {R}
    BY <1>4, <2>1
  <2>3. Won(regime') =
          Won(regime) \cup {[epoch |-> Rem(s) + 1, leader |-> m, quorum |-> t.quorum]}
    <3>1. R.mon = R.leader
      BY <1>3, <2>1
    <3> HIDE DEF R
    <3> QED BY <1>3, <2>1, <2>2, <3>1 DEF Won
  <2>4. Promise!Win(m)
    BY <1>1, <1>3, <1>4, <1>7, <2>1, <2>3, SeenWin DEF Wins
  <2> QED BY <2>4, PromiseVars DEF Promise!Next
<1>8. ASSUME Joins(m, t)
      PROVE  Promise!Next
  <2>1. t.state \in Ruling /\ Role(t) = "peon" /\ LeaderOf(m, t) = t.leader
        /\ QuorumOf(t) = t.quorum /\ t.epoch = Rem(s) + 1 /\ m \in t.quorum
        /\ Declared(t.leader, t.epoch, t.quorum) \in regime
    BY <1>8 DEF Joins, Told, Ruling, Role, LeaderOf, QuorumOf
  <2> DEFINE D == Declared(t.leader, t.epoch, t.quorum)
             w == [epoch |-> t.epoch, leader |-> t.leader, quorum |-> t.quorum]
  <2>2. D.mon = D.leader /\ D.epoch = t.epoch /\ D.leader = t.leader /\ D.quorum = t.quorum
    BY DEF Declared
  <2>3. w \in Won(regime)
    <3> HIDE DEF D
    <3> QED BY <2>1, <2>2 DEF Won, D
  <2>4. R.mon = R.leader => R = D
    BY <1>3 DEF Declared, RegimeOf
  <2>5. Won(regime') = Won(regime)
    <3>1. \A q : (q \in regime' /\ q.mon = q.leader) <=> (q \in regime /\ q.mon = q.leader)
      <4> HIDE DEF R
      <4> QED BY <1>0, <2>1, <2>4
    <3>2. {q \in regime' : q.mon = q.leader} = {q \in regime : q.mon = q.leader}
      BY <3>1
    <3> QED BY <3>2 DEF Won
  <2>6. w.epoch = t.epoch /\ w.leader = t.leader /\ w.quorum = t.quorum
    OBVIOUS
  <2> HIDE DEF w
  <2>7. Promise!Follow(m)
    BY <1>1, <1>4, <2>1, <2>3, <2>5, <2>6, SeenFollow
  <2> QED BY <2>7, PromiseVars DEF Promise!Next
<1> QED BY <1>5, <1>6, <1>7, <1>8 DEF Proper

\* This step preserves what candidates and peons rely on, and is a step of module
\* Election or changes nothing in it
Upheld == Bond' /\ [Promise!Next]_Promise!vars

\* A fair call of m that leaves the others alone upholds the promise.
LEMMA CallUpheld ==
  ASSUME Core, Bond, Safely, NEW m \in Rank, NEW From, \A x \in From : net[x][m] # <<>>,
         NEW r, Fair(m, r), Enters(m, r), mon'[m] = r.s, Transmit(m, From, r),
         \A x \in Rank \ {m} : Alike(mon[x], mon'[x])
  PROVE  Upheld
<1>1. TruthInv'
  BY TransmitTruth DEF Bond
<1>2. Proper(m, mon'[m])
  BY DEF Fair, Proper
<1>3. /\ regime \subseteq regime' /\ regime' \subseteq regime \cup {RegimeOf(m, mon'[m])}
      /\ mon'[m].epoch <= MaxEpoch
  BY EntersGrows
<1>4. mon'[m].state \notin Ruling => regime' = regime
  BY DEF Enters, Ruling
<1>5. Bond'
  BY <1>1, <1>2, <1>3, StepBond
<1> QED BY <1>2, <1>3, <1>4, <1>5, Simulates DEF Upheld, Alike

\* The same for an action that is a step of m alone.
LEMMA StepUpheld ==
  ASSUME Core, Bond, Safely, NEW m \in Rank, NEW From, \A x \in From : net[x][m] # <<>>,
         NEW r, Fair(m, r), Step(m, From, r)
  PROVE  Upheld
<1>1. mon' = [mon EXCEPT ![m] = r.s] /\ mon \in [Rank -> MonitorState]
  BY DEF Core, Typed, Step
<1>2. mon'[m] = r.s
  BY <1>1
<1>3. \A x \in Rank \ {m} : Alike(mon[x], mon'[x])
  <2> SUFFICES ASSUME NEW x \in Rank \ {m} PROVE Alike(mon[x], mon[x])
    BY <1>1
  <2> QED BY <1>1 DEF Alike, Same, Continues, Core, InMemoryInv
<1> QED BY <1>2, <1>3, CallUpheld DEF Step

\* A step that sends nothing and leaves m with the regime it had or without one.
LEMMA QuietUpheld ==
  ASSUME Core, Bond, Safely, NEW m \in Rank, NEW t, mon' = [mon EXCEPT ![m] = t],
         regime' = regime, Proper(m, t), t.epoch <= MaxEpoch,
         t.state \in Ruling => Continues(mon[m], t),
         \A x, d \in Rank : net'[x][d] \in Seq(Truth(x, d))
  PROVE  Upheld
<1>1. mon'[m] = t /\ \A x \in Rank \ {m} : Alike(mon[x], mon'[x])
  <2>1. mon'[m] = t /\ \A x \in Rank \ {m} : mon'[x] = mon[x] /\ mon[x] \in MonitorState
    BY DEF Core, Typed
  <2> QED BY <2>1 DEF Alike, Same, Continues, Core, InMemoryInv
<1>2. TruthInv'
  <2> SUFFICES ASSUME NEW x \in Rank, NEW d \in Rank
               PROVE  net'[x][d] \in Seq(Truth(x, d)')
    BY DEF TruthInv
  <2> DEFINE T == Truth(x, d)'
  <2>1. Truth(x, d) \subseteq T
    BY TruthGrows
  <2> HIDE DEF T
  <2>2. net'[x][d] \in Seq(T)
    BY <2>1
  <2> QED BY <2>2 DEF T
<1>3. Bond'
  BY <1>1, <1>2, StepBond
<1> QED BY <1>1, <1>3, Simulates DEF Upheld, Alike

\* What a monitor hears is true, and its candidacy is in order.
LEMMA AcceptsTruth ==
  ASSUME Core, Bond, NEW m \in Rank, NEW from \in Rank, NEW op, Accepts(m, from, op)
  PROVE  Ready(m, mon[m]) /\ Head(net[from][m]) \in Truth(from, m)
<1>1. Awake(mon[m]) /\ net[from][m] # <<>>
  BY AcceptsOk
<1>2. net[from][m] \in Seq(Truth(from, m))
  BY DEF Bond, TruthInv
<1>3. Head(net[from][m]) \in Truth(from, m)
  BY <1>1, <1>2, HeadTailProperties
<1> QED BY <1>1, <1>3 DEF Ready, Bond, CandidateInv

\* Every step upholds the promise.
LEMMA NextUpheld ==
  ASSUME Core, Bond, Safely, NEW m \in Rank,
         \/ Receive(m) \/ HandleProbeReply(m) \/ Expire(m) \/ PaxosTimeout(m)
         \/ Bootstrap(m) \/ QuorumExit(m) \/ QuorumEnter(m) \/ Restart(m)
         \/ NoteJoined(m)
  PROVE  Upheld
<1> DEFINE s == mon[m]
<1>0. /\ s \in MonitorState /\ InMemory(s) /\ Candidacy(m, s) /\ AckInv
      /\ s.participating \/ s.epoch = Rem(s)
      /\ s.epoch \in Nat
  <2>1. s \in MonitorState /\ InMemory(s) /\ Candidacy(m, s) /\ AckInv
    BY DEF Core, Typed, InMemoryInv, Bond, CandidateInv
  <2> QED BY <2>1 DEF InMemory, MonitorState
<1>1. ASSUME NEW from \in Rank, DropMessage(m, from)
      PROVE  Upheld
  <2>1. mon' = [mon EXCEPT ![m] = s] /\ regime' = regime
    BY <1>1 DEF DropMessage, Core, Typed
  <2>2. \A x, d \in Rank : net'[x][d] \in Seq(Truth(x, d))
    <3>1. net[from][m] \in Seq(Truth(from, m)) /\ net[from][m] # <<>>
      BY <1>1 DEF DropMessage, Bond, TruthInv
    <3>2. Tail(net[from][m]) \in Seq(Truth(from, m))
      BY <3>1, HeadTailProperties
    <3> QED BY <1>1, <3>2 DEF DropMessage, Bond, TruthInv, Core, Typed
  <2>3. Proper(m, s)
    BY <1>0 DEF Proper, Kept, Continues, AckInv
  <2>4. s.epoch <= MaxEpoch
    BY <1>0, BoundAssumption DEF InMemory, Bond, LowInv
  <2> QED BY <2>1, <2>2, <2>3, <2>4, QuietUpheld DEF Continues
<1>2. ASSUME NEW from \in Rank, HandlePropose(m, from)
      PROVE  Upheld
  <2>1. Humble(m, s, ProposeResult(m, s, from, Head(net[from][m]).epoch))
    BY <1>2, AcceptsOk, AcceptsTruth, ProposeHumble DEF HandlePropose
  <2>2. Fair(m, ProposeResult(m, s, from, Head(net[from][m]).epoch))
    BY <1>0, <2>1, HumbleFair
  <2> QED BY <1>2, <2>2, AcceptsOk, StepUpheld DEF HandlePropose
<1>3. ASSUME NEW from \in Rank, HandleAck(m, from)
      PROVE  Upheld
  <2> DEFINE msg == Head(net[from][m])
  <2>1. /\ Ready(m, s) /\ msg \in Truth(from, m) /\ msg.op = "ACK"
        /\ msg.epoch \in Nat /\ msg.epoch >= s.epoch /\ net[from][m] # <<>>
    BY <1>3, AcceptsOk, AcceptsTruth DEF HandleAck
  <2>2. Step(m, {from}, AckResult(m, s, from, msg.epoch))
    BY <1>3 DEF HandleAck
  <2> HIDE DEF msg
  <2>3. msg.epoch <= Rem(mon[from]) /\ m <= from
    BY <2>1 DEF Truth
  <2>4. Fair(m, AckResult(m, s, from, msg.epoch))
    BY <1>0, <2>1, <2>3, AckFair
  <2> QED BY <2>1, <2>2, <2>4, StepUpheld
<1>4. ASSUME NEW from \in Rank, HandleVictory(m, from)
      PROVE  Upheld
  <2> DEFINE msg == Head(net[from][m])
  <2>1. /\ Ready(m, s) /\ msg \in Truth(from, m) /\ msg.op = "VICTORY"
        /\ msg.epoch \in Nat /\ msg.epoch >= s.epoch /\ net[from][m] # <<>>
        /\ msg.quorum \in SUBSET Rank
    BY <1>4, AcceptsOk, AcceptsTruth DEF HandleVictory
  <2>2. Step(m, {from}, VictoryResult(m, s, from, msg.epoch, msg.quorum))
    BY <1>4 DEF HandleVictory
  <2> HIDE DEF msg
  <2>3. /\ m \in msg.quorum /\ First(from, msg.quorum)
        /\ Declared(from, msg.epoch, msg.quorum) \in regime
    BY <2>1 DEF Truth
  <2>4. Fair(m, VictoryResult(m, s, from, msg.epoch, msg.quorum))
    BY <1>0, <2>1, <2>3, VictoryResultFair
  <2> QED BY <2>1, <2>2, <2>4, StepUpheld
<1>5. ASSUME NEW from \in Rank, HandleNak(m, from)
      PROVE  Upheld
  <2> DEFINE x == [s EXCEPT !.state = "exited", !.timer = "off"]
  <2>1. net[from][m] # <<>>
    BY <1>5, AcceptsOk DEF HandleNak
  <2>2. /\ x.epoch = s.epoch /\ x.stored = s.stored /\ x.state = "exited"
        /\ x.electing_me = s.electing_me /\ x.acked_me = s.acked_me
    BY <1>0 DEF MonitorState
  <2>3. Step(m, {from}, Done(x))
    BY <1>5 DEF HandleNak
  <2> HIDE DEF x
  <2>4. Humble(m, s, Done(x))
    BY <1>0, <2>2, DoneHumble DEF Candidacy, Kept, Ruling
  <2> QED BY <1>0, <2>1, <2>3, <2>4, HumbleFair, StepUpheld
<1>6. CASE Receive(m)
  BY <1>1, <1>2, <1>3, <1>4, <1>5, <1>6 DEF Receive
<1>7. CASE HandleProbeReply(m)
  <2>1. Fair(m, StartElection(m, s))
    BY <1>0, StartElectionHumble, HumbleFair
  <2> QED BY <1>7, <2>1, StepUpheld DEF HandleProbeReply
<1>8. CASE Expire(m)
  <2> DEFINE r == ExpireResult(m, s)
  <2>1. Fair(m, r)
    BY <1>0, <1>8, ExpireFair DEF Expire
  <2>2. /\ mon' = [x \in Rank |-> IF x = m THEN r.s ELSE Aged(mon[x])]
        /\ Enters(m, r) /\ Transmit(m, {}, r)
    BY <1>8 DEF Expire
  <2> HIDE DEF r
  <2>3. \A x \in Rank \ {m} : Alike(mon[x], mon'[x])
    <3> SUFFICES ASSUME NEW x \in Rank \ {m} PROVE Alike(mon[x], Aged(mon[x]))
      BY <2>2
    <3> DEFINE u == mon[x]
               a == Aged(mon[x])
    <3>1. u \in MonitorState /\ InMemory(u)
      BY DEF Core, Typed, InMemoryInv
    <3> HIDE DEF u
    <3>2. a = [u EXCEPT !.timer = IF @ = "extended" THEN "plain" ELSE @]
      BY DEF Aged, u
    <3> HIDE DEF a
    <3>3. /\ a \in MonitorState /\ Continues(u, a) /\ a.stored = u.stored
          /\ a.participating = u.participating
          /\ u.timer = "off" => a.timer = "off"
          /\ a.electing_me = u.electing_me /\ a.acked_me = u.acked_me
      BY <3>1, <3>2 DEF MonitorState, Timers, Continues
    <3>4. InMemory(a)
      BY <3>1, <3>3 DEF InMemory, Rem, Continues
    <3> QED BY <3>3, <3>4 DEF Alike, Same, u, a
  <2>4. mon'[m] = r.s
    BY <2>2
  <2> QED BY <2>1, <2>2, <2>3, <2>4, CallUpheld
<1>9. Fair(m, Done(BootstrapState(s)))
  BY <1>0, BootstrapHumble, HumbleFair
<1>10. CASE PaxosTimeout(m)
  BY <1>9, <1>10, StepUpheld DEF PaxosTimeout
<1>11. CASE Bootstrap(m)
  BY <1>9, <1>11, StepUpheld DEF Bootstrap
<1>12. CASE QuorumExit(m)
  <2> DEFINE r == StartElection(m, s)
             q == [r EXCEPT !.s.participating = FALSE]
  <2>1. r.s \in MonitorState /\ Humble(m, s, r)
    BY <1>0, StartElectionOk, StartElectionHumble
  <2>2. Step(m, {}, q)
    BY <1>12 DEF QuorumExit
  <2>3. q.s = [r.s EXCEPT !.participating = FALSE] /\ q.out = r.out
    BY DEF StartElection, Start, Done
  <2> HIDE DEF r, q
  <2>4. /\ q.s.epoch = r.s.epoch /\ q.s.stored = r.s.stored /\ q.s.state = r.s.state
        /\ q.s.leader = r.s.leader /\ q.s.quorum = r.s.quorum
        /\ q.s.electing_me = r.s.electing_me /\ q.s.acked_me = r.s.acked_me
    BY <2>1, <2>3 DEF MonitorState
  <2>5. \A d \in Rank : Plain(m, q.s, d) = Plain(m, r.s, d)
    BY <2>4 DEF Plain, Rem
  <2>6. Humble(m, s, q)
    BY <2>1, <2>3, <2>4, <2>5 DEF Humble, Candidacy, Kept, Continues
  <2> QED BY <1>0, <2>2, <2>6, HumbleFair, StepUpheld
<1>13. CASE QuorumEnter(m)
  <2> DEFINE t == [s EXCEPT !.participating = TRUE]
  <2>1. /\ t \in MonitorState /\ t.stored = s.stored /\ t.participating
        /\ t.epoch = s.epoch /\ t.electing_me = s.electing_me /\ t.acked_me = s.acked_me
    BY <1>0 DEF MonitorState
  <2>2. Step(m, {}, StartElection(m, t))
    BY <1>13 DEF QuorumEnter
  <2> HIDE DEF t
  <2>3. Humble(m, t, StartElection(m, t)) /\ StartElection(m, t).s.state \notin Ruling
    BY <1>0, <2>1, StartElectionHumble, StartElectionOk DEF Candidacy
  <2>4. Humble(m, s, StartElection(m, t))
    BY <2>1, <2>3 DEF Humble, Kept
  <2> QED BY <1>0, <2>2, <2>4, HumbleFair, StepUpheld
<1>14. CASE Restart(m)
  <2> DEFINE f == [Fresh EXCEPT !.stored = s.stored, !.joined = s.joined]
  <2>1. /\ f.stored = s.stored /\ f.state = "probing" /\ f.epoch = 0
        /\ f.electing_me = FALSE /\ f.acked_me = {}
    BY DEF Fresh
  <2>2. mon' = [mon EXCEPT ![m] = f] /\ regime' = regime
    BY <1>14 DEF Restart
  <2> HIDE DEF f
  <2>3. \A x, d \in Rank : net'[x][d] \in Seq(Truth(x, d))
    <3>1. PICK keep \in [Rank -> 0 .. MaxLen(m)] :
            /\ \A d \in Rank : keep[d] <= Len(net[m][d])
            /\ net' = [x \in Rank |-> [d \in Rank |->
                         IF x = m THEN SubSeq(net[x][d], 1, keep[d])
                         ELSE IF d = m THEN <<>> ELSE net[x][d]]]
      BY <1>14 DEF Restart
    <3>2. \A d \in Rank : SubSeq(net[m][d], 1, keep[d]) \in Seq(Truth(m, d))
      <4> SUFFICES ASSUME NEW d \in Rank
                   PROVE  SubSeq(net[m][d], 1, keep[d]) \in Seq(Truth(m, d))
        OBVIOUS
      <4>1. /\ net[m][d] \in Seq(Truth(m, d))
            /\ keep[d] \in Int /\ keep[d] <= Len(net[m][d])
        BY <3>1 DEF Bond, TruthInv
      <4> QED BY <4>1, SubSeqProperties
    <3> QED BY <3>1, <3>2 DEF Bond, TruthInv
  <2>4. Proper(m, f) /\ f.epoch <= MaxEpoch /\ f.state \notin Ruling
    BY <2>1, BoundAssumption DEF Proper, Kept, Candidacy, Ruling
  <2> QED BY <2>2, <2>3, <2>4, QuietUpheld
<1>15. CASE NoteJoined(m)
  <2> DEFINE t == [s EXCEPT !.joined = TRUE]
  <2>1. /\ t.stored = s.stored /\ Continues(s, t) /\ t.epoch = s.epoch
        /\ t.electing_me = s.electing_me /\ t.acked_me = s.acked_me
    BY <1>0 DEF MonitorState, Continues
  <2>2. mon' = [mon EXCEPT ![m] = t] /\ regime' = regime /\ net' = net
    BY <1>15 DEF NoteJoined, Core, Typed
  <2> HIDE DEF t
  <2>3. Proper(m, t)
    BY <1>0, <2>1 DEF Proper, Kept, Candidacy, AckInv, Bound
  <2>4. t.epoch <= MaxEpoch
    BY <1>0, <2>1, BoundAssumption DEF InMemory, Bond, LowInv
  <2>5. \A x, d \in Rank : net'[x][d] \in Seq(Truth(x, d))
    BY <2>2 DEF Bond, TruthInv
  <2> QED BY <2>1, <2>2, <2>3, <2>4, <2>5, QuietUpheld
<1> QED BY <1>6, <1>7, <1>8, <1>10, <1>11, <1>12, <1>13, <1>14, <1>15

-----------------------------------------------------------------------------
(* The theorems *)

\* The first state has no messages, no candidates and no regimes.
LEMMA InitBond == Init => Bond
<1> SUFFICES ASSUME Init PROVE Bond
  OBVIOUS
<1>1. /\ \A m \in Rank : mon[m] = Fresh
      /\ Fresh.electing_me = FALSE /\ Fresh.acked_me = {} /\ Fresh.state = "probing"
      /\ Fresh.stored = 0
  BY DEF Init, Fresh
<1>2. TruthInv
  BY DEF Init, TruthInv
<1>3. CandidateInv /\ AckInv /\ PeonInv
  BY <1>1 DEF CandidateInv, Candidacy, AckInv, PeonInv
<1>4. LowInv
  BY <1>1, BoundAssumption DEF LowInv, Rem
<1> QED BY <1>2, <1>3, <1>4 DEF Bond

\* Every step of the elector that starts in a state of the invariant upholds the promise.
LEMMA NextBond == BInv /\ [Next]_vars => Bond' /\ [Promise!Next]_Promise!vars
<1> SUFFICES ASSUME BInv, [Next]_vars PROVE Bond' /\ [Promise!Next]_Promise!vars
  OBVIOUS
<1>1. CASE UNCHANGED vars
  <2>1. mon' = mon /\ net' = net /\ regime' = regime
    BY <1>1 DEF vars
  <2>2. Bond'
    BY <2>1 DEF BInv, Bond, TruthInv, Truth, CandidateInv, Candidacy, AckInv, Bound, PeonInv,
                Told, LowInv, Rem
  <2>3. UNCHANGED Promise!vars
    BY <2>1, PromiseVars
  <2> QED BY <2>2, <2>3
<1>2. CASE Next
  BY <1>2, NextCore, NextUpheld DEF Next, BInv, IInv, Upheld
<1> QED BY <1>1, <1>2

\* The invariant holds in every reachable state.
THEOREM Bonds == Spec => []Bond
<1>1. IInv /\ Bond /\ [Next]_vars => Bond'
  BY NextBond DEF BInv
<1> QED BY <1>1, InitBond, Inductive, PTL DEF Spec

\* An ack binds across restarts: whoever a candidate counts has its epoch on disk, or a
\* later one, for any number of monitors and of restarts (bump_epoch writes the epoch
\* before defer() sends the ack).
THEOREM AcksBind == Spec => []AckersRemember
<1>1. Bond => AckersRemember
  BY DEF Bond, AckInv, Bound, AckersRemember, Remembered, Rem
<1> QED BY <1>1, Bonds, PTL

\* A peon was told what its leader declared, with a majority, the peon in it and the
\* leader first in it, whatever victories are late (handle_victory).
THEOREM PeonsAgree == Spec => []PeonAgreesWithLeader
<1>1. IInv /\ Bond => PeonAgreesWithLeader
  <2> SUFFICES ASSUME IInv, Bond, NEW m \in Rank, mon[m].state = "peon"
               PROVE  LET l == mon[m].leader
                          Q == mon[m].quorum
                      IN  /\ Declared(l, mon[m].epoch, Q) \in regime
                          /\ Majority(Q) /\ m \in Q /\ \A x \in Q : l <= x
    BY DEF PeonAgreesWithLeader, Declared
  <2> DEFINE D == Declared(mon[m].leader, mon[m].epoch, mon[m].quorum)
  <2>1. D \in regime /\ m \in mon[m].quorum /\ First(mon[m].leader, mon[m].quorum)
    BY DEF Bond, PeonInv, Told
  <2>2. D.quorum = mon[m].quorum
    BY DEF Declared
  <2>3. Majority(mon[m].quorum)
    BY <2>1, <2>2 DEF IInv, Core, PastInv
  <2> QED BY <2>1, <2>3 DEF First
<1> QED BY <1>1, Inductive, Bonds, PTL

\* The elector implements module Election: every handler, timer, command and restart
\* leaves an election, wins one with a majority that remembers its epoch, or follows a
\* declared winner into the next epoch.
THEOREM Implements == Spec => ImplementsElection
<1>1. Init => Promise!Init
  <2> SUFFICES ASSUME Init PROVE Promise!Init
    OBVIOUS
  <2>1. /\ \A m \in Rank : mon[m] = Fresh
        /\ Fresh.state = "probing" /\ Fresh.stored = 0
    BY DEF Init, Fresh
  <2> QED BY <2>1 DEF Init, Promise!Init, Promise!Monitors, Rank, Remembered, Mapped
<1>2. IInv /\ Bond /\ [Next]_vars => [Promise!Next]_Promise!vars
  BY NextBond DEF BInv
<1> QED BY <1>1, <1>2, Inductive, Bonds, PTL DEF Spec, ImplementsElection, Promise!Spec

-----------------------------------------------------------------------------
(* The assertions.  A proposal and an ack are of an odd epoch and a victory   *)
(* of an even one, and a monitor that hears messages in an odd epoch is a     *)
(* candidate or has acked one.  This needs every monitor to have the monitor  *)
(* features: a proposal refused for want of them is answered all the same,    *)
(* in the epoch of the one that refuses it.                                   *)

\* What a message on its way from x to d may say of its epoch
Honest(x, d) ==
  {msg \in GoodMsg : /\ msg.op \in {"PROPOSE", "ACK"} => Odd(msg.epoch)
                     /\ msg.op = "VICTORY" => ~Odd(msg.epoch) /\ x # d}

HonestInv == \A x, d \in Rank : net[x][d] \in Seq(Honest(x, d))

\* m has acked none but a lower rank, or itself, and in an election it hears of it has
\* a candidate
Engaged(m, s) ==
  /\ s.leader_acked <= m
  /\ s.state \notin {"probing", "exited"} /\ s.participating /\ Odd(s.epoch)
        => s.electing_me \/ s.leader_acked >= 0

EngagedInv == \A m \in Rank : Engaged(m, mon[m])

OrderInv == HonestInv /\ EngagedInv

\* A call of m that leaves it engaged and sends honest messages
Orderly(m, r) ==
  Engaged(m, r.s) /\ \A d \in Rank : r.out[d] \in Seq(Honest(m, d))

\* A call that sends nothing.
LEMMA DoneOrderly ==
  ASSUME NEW m \in Rank, NEW t, Engaged(m, t)
  PROVE  Orderly(m, Done(t))
<1>1. Done(t).s = t /\ \A d \in Rank : Done(t).out[d] = <<>>
  BY DEF Done, Nothing
<1>2. \A d \in Rank : <<>> \in Seq(Honest(m, d))
  OBVIOUS
<1> QED BY <1>1, <1>2 DEF Orderly

\* A NAK says nothing of its epoch.
LEMMA NakHonest ==
  ASSUME NEW m \in Rank, NEW from \in Rank, NEW e \in Nat, e >= 1
  PROVE  \A d \in Rank : Nak(from, e)[d] \in Seq(Honest(m, d))
<1>1. \A d \in Rank : Msg("NAK", e, {}) \in Honest(m, d)
  BY MsgGood DEF Honest, Msg
<1> QED BY <1>1, SendHumble DEF Nak

\* start() makes a candidate, in an odd epoch, and proposes that epoch.
LEMMA StartOrderly ==
  ASSUME NEW m \in Rank, NEW s \in MonitorState, s.leader_acked <= m
  PROVE  LET r == Start(m, s)
         IN  /\ Orderly(m, r)
             /\ r.s \in MonitorState /\ r.s.leader_acked <= m
             /\ s.participating => r.s.participating /\ Odd(r.s.epoch)
<1>1. CASE ~s.participating
  <2>1. Start(m, s) = Done(s) /\ Done(s).s = s
    BY <1>1 DEF Start, Done
  <2>2. Engaged(m, s)
    BY <1>1 DEF Engaged
  <2> QED BY <1>1, <2>1, <2>2, DoneOrderly
<1>2. CASE s.participating
  <2> DEFINE i == InitEpoch(s)
             b == IF Odd(i.epoch) THEN i ELSE BumpEpoch(i, i.epoch + 1)
             c == Candidate(m, s)
             msg == Msg("PROPOSE", c.epoch, {})
  <2>1. i \in MonitorState /\ i.epoch \in Nat /\ i.participating
    BY <1>2 DEF InitEpoch, MonitorState
  <2> HIDE DEF i
  <2>2. b \in MonitorState /\ Odd(b.epoch) /\ b.participating
    <3>1. ASSUME ~Odd(i.epoch)
          PROVE  /\ BumpEpoch(i, i.epoch + 1) \in MonitorState
                 /\ Odd(BumpEpoch(i, i.epoch + 1).epoch)
                 /\ BumpEpoch(i, i.epoch + 1).participating
      <4>1. i.epoch + 1 \in Nat /\ i.epoch + 1 >= 1 /\ Odd(i.epoch + 1)
        BY <2>1, <3>1, NextOdd
      <4> QED BY <2>1, <4>1, BumpOk
    <3> QED BY <2>1, <3>1
  <2>3. c = [b EXCEPT !.electing_me = TRUE, !.acked_me = {m},
                      !.leader_acked = -1, !.timer = "plain"]
    BY DEF Candidate, i
  <2> HIDE DEF b, c
  <2>4. c \in MonitorState
    BY <2>2, <2>3 DEF MonitorState, Timers
  <2>5. /\ c.epoch = b.epoch /\ c.electing_me /\ c.leader_acked = -1
        /\ c.participating = b.participating
    BY <2>2, <2>3 DEF MonitorState
  <2>6. Start(m, s).s = c /\ Start(m, s).out = SendTo(Rank \ {m}, msg)
    BY <1>2 DEF Start, c
  <2>7. c.epoch \in Nat /\ Odd(c.epoch) /\ c.participating
    BY <2>2, <2>4, <2>5 DEF MonitorState
  <2>8. c.epoch >= 1
    BY <2>7 DEF Odd
  <2>9. msg \in GoodMsg /\ msg.op = "PROPOSE" /\ msg.epoch = c.epoch
    <3>1. msg \in GoodMsg
      BY <2>7, <2>8, MsgGood
    <3> QED BY <3>1 DEF Msg
  <2> HIDE DEF msg
  <2>10. \A d \in Rank : msg \in Honest(m, d)
    BY <2>7, <2>9 DEF Honest
  <2>11. \A d \in Rank : SendTo(Rank \ {m}, msg)[d] \in Seq(Honest(m, d))
    BY <2>10, SendHumble
  <2>12. c.leader_acked <= m
    BY <2>5, NAssumption DEF Rank
  <2>13. Engaged(m, c)
    BY <2>5, <2>12 DEF Engaged
  <2> QED BY <2>4, <2>6, <2>7, <2>11, <2>12, <2>13 DEF Orderly
<1> QED BY <1>1, <1>2

\* start_election() too.
LEMMA StartElectionOrderly ==
  ASSUME NEW m \in Rank, NEW s \in MonitorState, s.leader_acked <= m
  PROVE  LET r == StartElection(m, s)
         IN  /\ Orderly(m, r)
             /\ r.s \in MonitorState /\ r.s.leader_acked <= m
             /\ s.participating => r.s.participating /\ Odd(r.s.epoch)
<1> DEFINE z == Reset(s)
           e == [z EXCEPT !.state = "electing"]
<1>1. /\ z \in MonitorState /\ z.participating = s.participating
      /\ z.leader_acked = s.leader_acked
  BY DEF Reset, MonitorState
<1> HIDE DEF z
<1>2. /\ e \in MonitorState /\ e.participating = s.participating
      /\ e.leader_acked = s.leader_acked
  BY <1>1 DEF MonitorState, States
<1>3. StartElection(m, s) = Start(m, e)
  BY DEF StartElection, z
<1> HIDE DEF e
<1> QED BY <1>2, <1>3, StartOrderly

\* defer() acks a lower rank, or itself, in an odd epoch.
LEMMA DeferOrderly ==
  ASSUME NEW m \in Rank, NEW s \in MonitorState, Odd(s.epoch), NEW who \in Rank, who <= m
  PROVE  Orderly(m, Defer(s, who))
<1> DEFINE t == [s EXCEPT !.acked_me = IF s.electing_me THEN {} ELSE @,
                          !.electing_me = FALSE, !.leader_acked = who,
                          !.timer = "extended"]
           msg == Msg("ACK", s.epoch, {})
<1>1. Defer(s, who).s = t /\ Defer(s, who).out = SendTo({who}, msg)
  BY DEF Defer
<1>2. t.leader_acked = who
  BY DEF MonitorState
<1> HIDE DEF t
<1>3. s.epoch \in Nat
  BY DEF MonitorState
<1>4. s.epoch >= 1
  BY <1>3 DEF Odd
<1>5. msg \in GoodMsg /\ msg.op = "ACK" /\ msg.epoch = s.epoch
  <2>1. msg \in GoodMsg
    BY <1>3, <1>4, MsgGood
  <2> QED BY <2>1 DEF Msg
<1> HIDE DEF msg
<1>6. \A d \in Rank : msg \in Honest(m, d)
  BY <1>5 DEF Honest
<1>7. \A d \in Rank : SendTo({who}, msg)[d] \in Seq(Honest(m, d))
  BY <1>6, SendHumble
<1>8. Engaged(m, t)
  BY <1>2, NAssumption DEF Engaged, Rank
<1> QED BY <1>1, <1>7, <1>8 DEF Orderly

\* After the comparison of ranks, a monitor in an election has a candidate.
LEMMA CompareOrderly ==
  ASSUME NEW m \in Rank, NEW from \in Rank, NEW s \in MonitorState,
         Odd(s.epoch), s.leader_acked <= m
  PROVE  Orderly(m, Compare(m, s, from))
<1>1. Orderly(m, StartElection(m, s))
  BY StartElectionOrderly
<1>2. ~(m < from) => Orderly(m, Defer(s, from))
  BY DeferOrderly, NAssumption DEF Rank
<1>3. ASSUME s.leader_acked >= 0 \/ s.electing_me
      PROVE  Orderly(m, Done(s))
  <2>1. Engaged(m, s)
    BY <1>3 DEF Engaged
  <2> QED BY <2>1, DoneOrderly
<1>4. s.leader_acked \in Int
  BY NAssumption DEF MonitorState, Rank
<1>5. ~(s.leader_acked < 0) => s.leader_acked >= 0
  BY <1>4
<1> QED BY <1>1, <1>2, <1>3, <1>5 DEF Compare

\* handle_propose.
LEMMA ProposeOrderly ==
  ASSUME Old = {}, NEW m \in Rank, NEW from \in Rank, NEW s \in MonitorState,
         s.participating, Engaged(m, s), NEW e \in Nat, Odd(e)
  PROVE  Orderly(m, ProposeResult(m, s, from, e))
<1> DEFINE r == ProposeEpoch(m, s, from, e)
           q == Compare(m, r.s, from)
<1>0. e >= 1 /\ s.epoch \in Nat /\ s.leader_acked <= m
  <2>1. e >= 1
    BY DEF Odd
  <2> QED BY <2>1 DEF MonitorState, Engaged
<1>1. Orderly(m, [s |-> s, out |-> Nak(from, e)])
  BY <1>0, NakHonest DEF Orderly
<1>2. Orderly(m, Done(s))
  BY DoneOrderly
<1>3. ASSUME ~IgnoresPropose(m, s, from, e)
      PROVE  /\ r.s \in MonitorState /\ Odd(r.s.epoch) /\ r.s.leader_acked <= m
             /\ \A d \in Rank : r.out[d] \in Seq(Honest(m, d))
  <2>1. ~Lacks(m, from, Old)
    BY DEF Lacks
  <2>2. CASE e > s.epoch
    <3>1. r = Done(BumpEpoch(s, e))
      BY <2>1, <2>2 DEF ProposeEpoch
    <3>2. /\ BumpEpoch(s, e) \in MonitorState /\ BumpEpoch(s, e).epoch = e
          /\ BumpEpoch(s, e).leader_acked = s.leader_acked
      BY <1>0, BumpOk
    <3>3. r.s = BumpEpoch(s, e) /\ \A d \in Rank : r.out[d] = <<>>
      BY <3>1 DEF Done, Nothing
    <3>4. \A d \in Rank : <<>> \in Seq(Honest(m, d))
      OBVIOUS
    <3> HIDE DEF r
    <3> QED BY <1>0, <3>2, <3>3, <3>4
  <2>3. CASE e < s.epoch
    <3>1. r = StartElection(m, s)
      BY <1>0, <2>1, <2>3 DEF ProposeEpoch
    <3> HIDE DEF r
    <3> QED BY <1>0, <3>1, StartElectionOrderly DEF Orderly
  <2>4. CASE e = s.epoch
    <3>1. r = Done(s)
      BY <1>0, <2>1, <2>4 DEF ProposeEpoch
    <3>2. r.s = s
      BY <3>1 DEF Done
    <3> HIDE DEF r
    <3> QED BY <1>0, <1>2, <2>4, <3>1, <3>2 DEF Orderly
  <2> QED BY <1>0, <2>2, <2>3, <2>4
<1>4. ASSUME ~IgnoresPropose(m, s, from, e)
      PROVE  Orderly(m, Then(r, q))
  <2>1. Orderly(m, q)
    BY <1>3, <1>4, CompareOrderly
  <2>2. \A d \in Rank : r.out[d] \in Seq(Honest(m, d))
    BY <1>3, <1>4
  <2> HIDE DEF r, q
  <2>3. Then(r, q).s = q.s /\ \A d \in Rank : Then(r, q).out[d] = r.out[d] \o q.out[d]
    BY DEF Then
  <2>4. ASSUME NEW d \in Rank
        PROVE  r.out[d] \o q.out[d] \in Seq(Honest(m, d))
    <3>1. q.out[d] \in Seq(Honest(m, d)) /\ r.out[d] \in Seq(Honest(m, d))
      BY <2>1, <2>2 DEF Orderly
    <3> QED BY <3>1, ConcatProperties
  <2> QED BY <2>1, <2>3, <2>4 DEF Orderly
<1> QED BY <1>1, <1>2, <1>4 DEF ProposeResult

\* victory() moves from an odd epoch to an even one.
LEMMA VictoryOrderly ==
  ASSUME NEW m \in Rank, NEW a \in MonitorState, Odd(a.epoch), Majority(a.acked_me)
  PROVE  Orderly(m, Victory(m, a))
<1> DEFINE Q == a.acked_me
           c == [a EXCEPT !.leader_acked = -1, !.electing_me = FALSE, !.timer = "off"]
           e == a.epoch + 1
           b == BumpEpoch(c, e)
           w == WinElection(m, b, Q)
           msg == Msg("VICTORY", b.epoch, Q)
<1>1. a.epoch \in Nat /\ Q \in SUBSET Rank
  BY DEF MonitorState
<1>2. e \in Nat /\ e >= 1 /\ ~Odd(e)
  BY <1>1 DEF Odd
<1>3. c \in MonitorState /\ c.leader_acked = -1
  BY DEF MonitorState, Timers
<1> HIDE DEF c, e
<1>4. b \in MonitorState /\ b.epoch = e /\ b.leader_acked = -1
  BY <1>2, <1>3, BumpOk
<1> HIDE DEF b
<1>5. w = [b EXCEPT !.state = "leader", !.leader = m, !.quorum = Q]
  BY DEF WinElection
<1> HIDE DEF w
<1>6. w.epoch = e /\ w.leader_acked = -1
  BY <1>4, <1>5 DEF MonitorState
<1>7. Victory(m, a).s = w /\ Victory(m, a).out = SendTo(Q \ {m}, msg)
  BY DEF Victory, c, b, w, e
<1>8. msg \in GoodMsg /\ msg.op = "VICTORY" /\ msg.epoch = e
  <2>1. msg \in GoodMsg
    BY <1>1, <1>2, <1>4, MsgGood
  <2> QED BY <2>1, <1>4 DEF Msg
<1> HIDE DEF msg, Q
<1>9. \A d \in Q \ {m} : msg \in Honest(m, d)
  BY <1>2, <1>8 DEF Honest
<1>10. \A d \in Rank : SendTo(Q \ {m}, msg)[d] \in Seq(Honest(m, d))
  BY <1>9, SendHumble
<1>11. Engaged(m, w)
  <2>1. w.leader_acked <= m
    BY <1>6, NAssumption DEF Rank
  <2> QED BY <1>2, <1>6, <2>1 DEF Engaged
<1> QED BY <1>7, <1>10, <1>11 DEF Orderly

\* handle_ack: a candidate is in an odd epoch.
LEMMA AckOrderly ==
  ASSUME NEW m \in Rank, NEW from \in Rank, NEW s, Ready(m, s), Engaged(m, s),
         NEW e \in Nat, Odd(e)
  PROVE  Orderly(m, AckResult(m, s, from, e))
<1> DEFINE a == [s EXCEPT !.acked_me = @ \cup {from}]
<1>0. s \in MonitorState /\ Candidacy(m, s) /\ s.leader_acked <= m
  BY DEF Ready, Awake, Engaged
<1>1. Orderly(m, Start(m, BumpEpoch(s, e)))
  <2>1. e >= 1
    BY DEF Odd
  <2>2. BumpEpoch(s, e) \in MonitorState /\ BumpEpoch(s, e).leader_acked = s.leader_acked
    BY <1>0, <2>1, BumpOk
  <2> QED BY <1>0, <2>2, StartOrderly
<1>2. Orderly(m, Done(s))
  BY DoneOrderly
<1>3. ASSUME s.electing_me
      PROVE  Orderly(m, IF Cardinality(a.acked_me) = N THEN Victory(m, a) ELSE Done(a))
  <2>1. /\ a \in MonitorState /\ a.epoch = s.epoch /\ a.electing_me
        /\ a.leader_acked = s.leader_acked
    BY <1>0, <1>3 DEF MonitorState
  <2> HIDE DEF a
  <2>2. Orderly(m, Done(a))
    <3>1. Engaged(m, a)
      BY <1>0, <2>1 DEF Engaged
    <3> QED BY <3>1, DoneOrderly
  <2>3. Odd(a.epoch)
    BY <1>0, <1>3, <2>1 DEF Candidacy
  <2>4. Cardinality(a.acked_me) = N => Majority(a.acked_me)
    BY NAssumption DEF Majority
  <2> QED BY <2>1, <2>2, <2>3, <2>4, VictoryOrderly
<1> HIDE DEF a
<1>4. AckResult(m, s, from, e) =
        IF e > s.epoch THEN Start(m, BumpEpoch(s, e))
        ELSE IF Lacks(m, from, oldConn) \/ Lacks(m, from, Old) THEN Done(s)
        ELSE IF s.electing_me
             THEN IF Cardinality(a.acked_me) = N THEN Victory(m, a) ELSE Done(a)
             ELSE Done(s)
  BY DEF AckResult, a
<1> QED BY <1>1, <1>2, <1>3, <1>4

\* handle_victory: the epoch that it follows is even.
LEMMA VictoryResultOrderly ==
  ASSUME NEW m \in Rank, NEW from \in Rank, NEW s \in MonitorState,
         NEW e \in Nat, e >= 1, ~Odd(e), NEW Q \in SUBSET Rank
  PROVE  Orderly(m, VictoryResult(m, s, from, e, Q))
<1> DEFINE d == [s EXCEPT !.leader_acked = -1]
           b == BumpEpoch(d, e)
           l == LoseElection(b, Q, from)
           t == [l EXCEPT !.timer = "off"]
<1>0. \A x : x = -1 => x <= m
  BY NAssumption DEF Rank
<1>1. d \in MonitorState /\ d.leader_acked = -1
  BY DEF MonitorState
<1> HIDE DEF d
<1>2. b \in MonitorState /\ b.epoch = e /\ b.leader_acked = -1
  BY <1>1, BumpOk
<1> HIDE DEF b
<1>3. Orderly(m, Start(m, b))
  BY <1>0, <1>2, StartOrderly
<1>4. l = [b EXCEPT !.state = "peon", !.leader = from, !.quorum = Q]
  BY DEF LoseElection
<1> HIDE DEF l
<1>5. l \in MonitorState /\ l.epoch = e /\ l.leader_acked = -1
  BY <1>2, <1>4 DEF MonitorState, States
<1>6. t.epoch = e /\ t.leader_acked = -1
  BY <1>5 DEF MonitorState
<1>7. VictoryResult(m, s, from, e, Q) = IF e # s.epoch + 1 THEN Start(m, b) ELSE Done(t)
  BY DEF VictoryResult, d, b, l
<1> HIDE DEF t
<1>8. Engaged(m, t)
  BY <1>0, <1>6 DEF Engaged
<1> QED BY <1>3, <1>7, <1>8, DoneOrderly

\* A monitor that probes hears no proposal.
LEMMA BootstrapOrderly ==
  ASSUME NEW m \in Rank, NEW s \in MonitorState, s.leader_acked <= m
  PROVE  Orderly(m, Done(BootstrapState(s)))
<1> DEFINE z == Reset(s)
           p == [z EXCEPT !.state = "probing"]
<1>1. z \in MonitorState /\ z.leader_acked = s.leader_acked
  BY DEF Reset, MonitorState
<1> HIDE DEF z
<1>2. p.leader_acked = s.leader_acked /\ p.state = "probing"
  BY <1>1 DEF MonitorState
<1> HIDE DEF p
<1>3. BootstrapState(s) = p
  BY DEF BootstrapState, p, z
<1>4. Engaged(m, p)
  BY <1>2 DEF Engaged
<1> QED BY <1>3, <1>4, DoneOrderly

\* expire().
LEMMA ExpireOrderly ==
  ASSUME NEW m \in Rank, NEW s \in MonitorState, Candidacy(m, s), s.leader_acked <= m
  PROVE  Orderly(m, ExpireResult(m, s))
<1> DEFINE f == [s EXCEPT !.timer = "off"]
<1>1. /\ f \in MonitorState /\ f.epoch = s.epoch /\ f.acked_me = s.acked_me
      /\ f.leader_acked = s.leader_acked
  BY DEF MonitorState, Timers
<1> HIDE DEF f
<1>2. s.electing_me /\ Majority(s.acked_me) => Orderly(m, Victory(m, f))
  BY <1>1, VictoryOrderly DEF Candidacy
<1>3. Orderly(m, Start(m, f)) /\ Orderly(m, Done(BootstrapState(f)))
  BY <1>1, StartOrderly, BootstrapOrderly
<1> QED BY <1>2, <1>3 DEF ExpireResult, f

\* What is in flight after a call of m is honest.
LEMMA TransmitHonest ==
  ASSUME HonestInv, NEW m \in Rank, NEW From, \A x \in From : net[x][m] # <<>>,
         NEW r, Orderly(m, r), Transmit(m, From, r)
  PROVE  HonestInv'
<1> SUFFICES ASSUME NEW x \in Rank, NEW d \in Rank
             PROVE  net'[x][d] \in Seq(Honest(x, d))
  BY DEF HonestInv
<1>1. net[x][d] \in Seq(Honest(x, d)) /\ r.out[d] \in Seq(Honest(m, d))
  BY DEF HonestInv, Orderly
<1> DEFINE u == IF x \in From /\ d = m THEN Tail(net[x][d]) ELSE net[x][d]
           v == IF x = m THEN r.out[d] ELSE <<>>
<1>2. net'[x][d] = u \o v
  BY DEF Transmit
<1>3. u \in Seq(Honest(x, d))
  BY <1>1, HeadTailProperties
<1>4. v \in Seq(Honest(x, d))
  BY <1>1
<1> HIDE DEF u, v
<1>5. u \o v \in Seq(Honest(x, d))
  BY <1>3, <1>4, ConcatProperties
<1> QED BY <1>2, <1>5

\* An orderly step of m alone.
LEMMA StepOrder ==
  ASSUME Core, OrderInv, NEW m \in Rank, NEW From, \A x \in From : net[x][m] # <<>>,
         NEW r, Orderly(m, r), Step(m, From, r)
  PROVE  OrderInv'
<1>1. mon' = [mon EXCEPT ![m] = r.s] /\ mon \in [Rank -> MonitorState]
  BY DEF Core, Typed, Step
<1>2. EngagedInv'
  BY <1>1 DEF EngagedInv, Orderly, OrderInv
<1>3. HonestInv'
  BY TransmitHonest DEF OrderInv, Step
<1> QED BY <1>2, <1>3 DEF OrderInv

\* What a monitor hears is honest, and it takes part.
LEMMA AcceptsHonest ==
  ASSUME OrderInv, NEW m \in Rank, NEW from \in Rank, NEW op, Accepts(m, from, op)
  PROVE  /\ Head(net[from][m]) \in Honest(from, m)
         /\ mon[m].participating /\ mon[m].state \notin {"probing", "exited"}
         /\ Engaged(m, mon[m])
<1>1. net[from][m] \in Seq(Honest(from, m)) /\ net[from][m] # <<>>
  BY DEF OrderInv, HonestInv, Accepts, Pending
<1>2. Head(net[from][m]) \in Honest(from, m)
  BY <1>1, HeadTailProperties
<1> QED BY <1>2 DEF OrderInv, EngagedInv, Accepts, Listening

\* Every step keeps the messages honest and the monitors engaged.
LEMMA NextOrder ==
  ASSUME Old = {}, Core, Bond, OrderInv, NEW m \in Rank,
         \/ Receive(m) \/ HandleProbeReply(m) \/ Expire(m) \/ PaxosTimeout(m)
         \/ Bootstrap(m) \/ QuorumExit(m) \/ QuorumEnter(m) \/ Restart(m)
         \/ NoteJoined(m)
  PROVE  OrderInv'
<1> DEFINE s == mon[m]
<1>0. /\ s \in MonitorState /\ Candidacy(m, s) /\ Engaged(m, s) /\ s.leader_acked <= m
      /\ mon \in [Rank -> MonitorState]
  BY DEF Core, Typed, Bond, CandidateInv, OrderInv, EngagedInv, Engaged
<1>1. ASSUME NEW from \in Rank, DropMessage(m, from)
      PROVE  OrderInv'
  <2>1. net[from][m] \in Seq(Honest(from, m)) /\ net[from][m] # <<>>
    BY <1>1 DEF DropMessage, OrderInv, HonestInv
  <2>2. Tail(net[from][m]) \in Seq(Honest(from, m))
    BY <2>1, HeadTailProperties
  <2>3. HonestInv'
    BY <1>1, <2>2 DEF DropMessage, OrderInv, HonestInv, Core, Typed
  <2>4. EngagedInv'
    BY <1>1 DEF DropMessage, OrderInv, EngagedInv
  <2> QED BY <2>3, <2>4 DEF OrderInv
<1>2. ASSUME NEW from \in Rank, HandlePropose(m, from)
      PROVE  OrderInv'
  <2> DEFINE msg == Head(net[from][m])
  <2>1. /\ net[from][m] # <<>> /\ msg.op = "PROPOSE" /\ msg.epoch \in Nat
        /\ msg \in Honest(from, m) /\ s.participating
    BY <1>2, AcceptsOk, AcceptsHonest DEF HandlePropose
  <2>2. Step(m, {from}, ProposeResult(m, s, from, msg.epoch))
    BY <1>2 DEF HandlePropose
  <2> HIDE DEF msg
  <2>3. Odd(msg.epoch)
    BY <2>1 DEF Honest
  <2>4. Orderly(m, ProposeResult(m, s, from, msg.epoch))
    BY <1>0, <2>1, <2>3, ProposeOrderly
  <2> QED BY <2>1, <2>2, <2>4, StepOrder
<1>3. ASSUME NEW from \in Rank, HandleAck(m, from)
      PROVE  OrderInv'
  <2> DEFINE msg == Head(net[from][m])
  <2>1. /\ net[from][m] # <<>> /\ msg.op = "ACK" /\ msg.epoch \in Nat
        /\ msg \in Honest(from, m) /\ Ready(m, s)
    BY <1>3, AcceptsOk, AcceptsTruth, AcceptsHonest DEF HandleAck
  <2>2. Step(m, {from}, AckResult(m, s, from, msg.epoch))
    BY <1>3 DEF HandleAck
  <2> HIDE DEF msg
  <2>3. Odd(msg.epoch)
    BY <2>1 DEF Honest
  <2>4. Orderly(m, AckResult(m, s, from, msg.epoch))
    BY <1>0, <2>1, <2>3, AckOrderly
  <2> QED BY <2>1, <2>2, <2>4, StepOrder
<1>4. ASSUME NEW from \in Rank, HandleVictory(m, from)
      PROVE  OrderInv'
  <2> DEFINE msg == Head(net[from][m])
  <2>1. /\ net[from][m] # <<>> /\ msg.op = "VICTORY" /\ msg.epoch \in Nat
        /\ msg.epoch >= 1 /\ msg.quorum \in SUBSET Rank /\ msg \in Honest(from, m)
    BY <1>4, AcceptsOk, AcceptsHonest DEF HandleVictory
  <2>2. Step(m, {from}, VictoryResult(m, s, from, msg.epoch, msg.quorum))
    BY <1>4 DEF HandleVictory
  <2> HIDE DEF msg
  <2>3. ~Odd(msg.epoch)
    BY <2>1 DEF Honest
  <2>4. Orderly(m, VictoryResult(m, s, from, msg.epoch, msg.quorum))
    BY <1>0, <2>1, <2>3, VictoryResultOrderly
  <2> QED BY <2>1, <2>2, <2>4, StepOrder
<1>5. ASSUME NEW from \in Rank, HandleNak(m, from)
      PROVE  OrderInv'
  <2> DEFINE x == [s EXCEPT !.state = "exited", !.timer = "off"]
  <2>1. net[from][m] # <<>>
    BY <1>5, AcceptsOk DEF HandleNak
  <2>2. x.state = "exited" /\ x.leader_acked = s.leader_acked
    BY <1>0 DEF MonitorState
  <2>3. Step(m, {from}, Done(x))
    BY <1>5 DEF HandleNak
  <2> HIDE DEF x
  <2>4. Engaged(m, x)
    BY <1>0, <2>2 DEF Engaged
  <2> QED BY <2>1, <2>3, <2>4, DoneOrderly, StepOrder
<1>6. CASE Receive(m)
  BY <1>1, <1>2, <1>3, <1>4, <1>5, <1>6 DEF Receive
<1>7. CASE HandleProbeReply(m)
  <2>1. Orderly(m, StartElection(m, s))
    BY <1>0, StartElectionOrderly
  <2> QED BY <1>7, <2>1, StepOrder DEF HandleProbeReply
<1>8. CASE Expire(m)
  <2> DEFINE r == ExpireResult(m, s)
  <2>1. Orderly(m, r)
    BY <1>0, ExpireOrderly
  <2>2. /\ mon' = [x \in Rank |-> IF x = m THEN r.s ELSE Aged(mon[x])]
        /\ Transmit(m, {}, r)
    BY <1>8 DEF Expire
  <2> HIDE DEF r
  <2>3. HonestInv'
    BY <2>1, <2>2, TransmitHonest DEF OrderInv
  <2>4. ASSUME NEW x \in Rank
        PROVE  Engaged(x, Aged(mon[x]))
    <3> DEFINE u == mon[x]
               a == Aged(u)
    <3>1. u \in MonitorState /\ Engaged(x, u)
      BY DEF Core, Typed, OrderInv, EngagedInv
    <3> HIDE DEF u
    <3>2. /\ a.state = u.state /\ a.epoch = u.epoch /\ a.participating = u.participating
          /\ a.electing_me = u.electing_me /\ a.leader_acked = u.leader_acked
      BY <3>1 DEF Aged, MonitorState
    <3> HIDE DEF a
    <3>3. Engaged(x, a)
      BY <3>1, <3>2 DEF Engaged
    <3> QED BY <3>3 DEF a, u
  <2>5. EngagedInv'
    BY <2>1, <2>2, <2>4 DEF EngagedInv, Orderly
  <2> QED BY <2>3, <2>5 DEF OrderInv
<1>9. Orderly(m, Done(BootstrapState(s)))
  BY <1>0, BootstrapOrderly
<1>10. CASE PaxosTimeout(m)
  BY <1>9, <1>10, StepOrder DEF PaxosTimeout
<1>11. CASE Bootstrap(m)
  BY <1>9, <1>11, StepOrder DEF Bootstrap
<1>12. CASE QuorumExit(m)
  <2> DEFINE r == StartElection(m, s)
             q == [r EXCEPT !.s.participating = FALSE]
  <2>1. r.s \in MonitorState /\ Orderly(m, r) /\ r.s.leader_acked <= m
    BY <1>0, StartElectionOrderly
  <2>2. Step(m, {}, q)
    BY <1>12 DEF QuorumExit
  <2>3. q.s = [r.s EXCEPT !.participating = FALSE] /\ q.out = r.out
    BY DEF StartElection, Start, Done
  <2> HIDE DEF r, q
  <2>4. q.s.participating = FALSE /\ q.s.leader_acked = r.s.leader_acked
    BY <2>1, <2>3 DEF MonitorState
  <2>5. Orderly(m, q)
    BY <2>1, <2>3, <2>4 DEF Orderly, Engaged
  <2> QED BY <2>2, <2>5, StepOrder
<1>13. CASE QuorumEnter(m)
  <2> DEFINE t == [s EXCEPT !.participating = TRUE]
  <2>1. t \in MonitorState /\ t.leader_acked = s.leader_acked
    BY <1>0 DEF MonitorState
  <2>2. Step(m, {}, StartElection(m, t))
    BY <1>13 DEF QuorumEnter
  <2> HIDE DEF t
  <2>3. Orderly(m, StartElection(m, t))
    BY <1>0, <2>1, StartElectionOrderly
  <2> QED BY <2>2, <2>3, StepOrder
<1>14. CASE Restart(m)
  <2> DEFINE f == [Fresh EXCEPT !.stored = s.stored, !.joined = s.joined]
  <2>1. f.state = "probing" /\ f.leader_acked = -1
    BY DEF Fresh
  <2>2. mon' = [mon EXCEPT ![m] = f]
    BY <1>14 DEF Restart
  <2> HIDE DEF f
  <2>3. Engaged(m, f)
    BY <2>1, NAssumption DEF Engaged, Rank
  <2>4. EngagedInv'
    BY <1>0, <2>2, <2>3 DEF OrderInv, EngagedInv
  <2>5. PICK keep \in [Rank -> 0 .. MaxLen(m)] :
          /\ \A d \in Rank : keep[d] <= Len(net[m][d])
          /\ net' = [x \in Rank |-> [d \in Rank |->
                       IF x = m THEN SubSeq(net[x][d], 1, keep[d])
                       ELSE IF d = m THEN <<>> ELSE net[x][d]]]
    BY <1>14 DEF Restart
  <2>6. \A d \in Rank : SubSeq(net[m][d], 1, keep[d]) \in Seq(Honest(m, d))
    <3> SUFFICES ASSUME NEW d \in Rank
                 PROVE  SubSeq(net[m][d], 1, keep[d]) \in Seq(Honest(m, d))
      OBVIOUS
    <3>1. /\ net[m][d] \in Seq(Honest(m, d))
          /\ keep[d] \in Int /\ keep[d] <= Len(net[m][d])
      BY <2>5 DEF OrderInv, HonestInv
    <3> QED BY <3>1, SubSeqProperties
  <2>7. HonestInv'
    BY <2>5, <2>6 DEF OrderInv, HonestInv
  <2> QED BY <2>4, <2>7 DEF OrderInv
<1>15. CASE NoteJoined(m)
  <2> DEFINE t == [s EXCEPT !.joined = TRUE]
  <2>1. /\ t.state = s.state /\ t.epoch = s.epoch /\ t.participating = s.participating
        /\ t.electing_me = s.electing_me /\ t.leader_acked = s.leader_acked
    BY <1>0 DEF MonitorState
  <2>2. mon' = [mon EXCEPT ![m] = t] /\ net' = net
    BY <1>15 DEF NoteJoined, Core, Typed
  <2> HIDE DEF t
  <2>3. Engaged(m, t)
    BY <1>0, <2>1 DEF Engaged
  <2> QED BY <1>0, <2>2, <2>3 DEF OrderInv, EngagedInv, HonestInv
<1> QED BY <1>6, <1>7, <1>8, <1>10, <1>11, <1>12, <1>13, <1>14, <1>15

\* The assertions hold in a state of the invariants.
LEMMA OrderAsserts == IInv /\ Bond /\ OrderInv => AssertionsHold
<1> SUFFICES ASSUME IInv, Bond, OrderInv, NEW m \in Rank, NEW from \in Rank
             PROVE  /\ Accepts(m, from, "PROPOSE") => Odd(Head(net[from][m]).epoch)
                    /\ Accepts(m, from, "PROPOSE") /\ m < from
                          => mon[m].leader_acked < from
                    /\ Accepts(m, from, "ACK") =>
                          /\ Odd(Head(net[from][m]).epoch)
                          /\ \/ Head(net[from][m]).epoch > mon[m].epoch
                             \/ mon[m].electing_me
                             \/ mon[m].leader_acked >= 0
                    /\ Accepts(m, from, "VICTORY") =>
                          from < m /\ ~Odd(Head(net[from][m]).epoch)
  BY DEF AssertionsHold
<1> DEFINE msg == Head(net[from][m])
           s == mon[m]
<1>1. ASSUME NEW op, Accepts(m, from, op)
      PROVE  /\ msg \in Honest(from, m) /\ msg \in Truth(from, m) /\ msg.op = op
             /\ msg.epoch \in Nat /\ s \in MonitorState
             /\ op = "PROPOSE" \/ msg.epoch >= s.epoch
             /\ s.participating /\ s.state \notin {"probing", "exited"} /\ Engaged(m, s)
  BY <1>1, AcceptsHonest, AcceptsOk, AcceptsTruth DEF IInv, Awake
<1> HIDE DEF msg, s
<1>2. Accepts(m, from, "PROPOSE") => Odd(msg.epoch)
  BY <1>1 DEF Honest
<1>3. Accepts(m, from, "PROPOSE") /\ m < from => s.leader_acked < from
  <2> SUFFICES ASSUME Accepts(m, from, "PROPOSE"), m < from PROVE s.leader_acked < from
    OBVIOUS
  <2>1. s \in MonitorState /\ Engaged(m, s)
    BY <1>1
  <2>2. s.leader_acked \in Int /\ s.leader_acked <= m
    BY <2>1, NAssumption DEF MonitorState, Engaged, Rank
  <2> QED BY <2>2, NAssumption DEF Rank
<1>4. Accepts(m, from, "ACK") =>
        Odd(msg.epoch) /\ (msg.epoch > s.epoch \/ s.electing_me \/ s.leader_acked >= 0)
  <2> SUFFICES ASSUME Accepts(m, from, "ACK"), ~(msg.epoch > s.epoch)
               PROVE  Odd(msg.epoch) /\ (s.electing_me \/ s.leader_acked >= 0)
    BY <1>1 DEF Honest
  <2>1. /\ Odd(msg.epoch) /\ msg.epoch >= s.epoch /\ msg.epoch \in Nat
        /\ s \in MonitorState
    BY <1>1 DEF Honest
  <2>2. msg.epoch = s.epoch
    <3>1. s.epoch \in Nat
      BY <2>1 DEF MonitorState
    <3> QED BY <2>1, <3>1
  <2> QED BY <1>1, <2>1, <2>2 DEF Engaged
<1>5. Accepts(m, from, "VICTORY") => from < m /\ ~Odd(msg.epoch)
  <2> SUFFICES ASSUME Accepts(m, from, "VICTORY") PROVE from < m /\ ~Odd(msg.epoch)
    OBVIOUS
  <2>1. ~Odd(msg.epoch) /\ from # m /\ m \in msg.quorum /\ First(from, msg.quorum)
    BY <1>1 DEF Honest, Truth
  <2>2. from <= m
    BY <2>1 DEF First
  <2> QED BY <2>1, <2>2, NAssumption DEF Rank
<1> QED BY <1>2, <1>3, <1>4, <1>5 DEF msg, s

\* The assertions of handle_propose, handle_ack and handle_victory hold in every reachable
\* state when every monitor has the monitor features, whatever the connection features,
\* restarts, commands and early timers.
THEOREM NoAssertFails == Old = {} => (Spec => []AssertionsHold)
<1> SUFFICES ASSUME Old = {} PROVE Spec => []AssertionsHold
  OBVIOUS
<1>1. Init => OrderInv
  <2> SUFFICES ASSUME Init PROVE OrderInv
    OBVIOUS
  <2>1. (\A m \in Rank : mon[m] = Fresh) /\ Fresh.state = "probing" /\ Fresh.leader_acked = -1
    BY DEF Init, Fresh
  <2>2. EngagedInv
    BY <2>1, NAssumption DEF EngagedInv, Engaged, Rank
  <2>3. HonestInv
    BY DEF Init, HonestInv
  <2> QED BY <2>2, <2>3 DEF OrderInv
<1>2. IInv /\ Bond /\ OrderInv /\ [Next]_vars => OrderInv'
  <2> SUFFICES ASSUME IInv, Bond, OrderInv, [Next]_vars PROVE OrderInv'
    OBVIOUS
  <2>1. CASE UNCHANGED vars
    BY <2>1 DEF vars, OrderInv, HonestInv, EngagedInv
  <2>2. CASE Next
    BY <2>2, NextOrder DEF Next, IInv
  <2> QED BY <2>1, <2>2
<1> QED BY <1>1, <1>2, OrderAsserts, Inductive, Bonds, PTL DEF Spec
=============================================================================
