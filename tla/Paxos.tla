-------------------------------- MODULE Paxos --------------------------------
(***************************************************************************)
(* The replicated log of the monitors: src/src/mon/Paxos.cc, with what      *)
(* src/src/mon/Monitor.cc does around it (the filter in dispatch_op,        *)
(* win_election, lose_election, bootstrap, wait_for_paxos_write).           *)
(*                                                                          *)
(* Elections are those module Election promises: a monitor enters an epoch  *)
(* at most once, as the leader of a quorum or by following a VICTORY.  The  *)
(* VICTORY travels in the same FIFO channel as the leader's Paxos messages. *)
(*                                                                          *)
(* Operators that return [s, out] are calls of the code: s is the state of  *)
(* the monitor after the call and out[d] the messages it sent to d.         *)
(***************************************************************************)
EXTENDS Integers, Sequences, FiniteSets, FiniteSetsExt

CONSTANTS
  N,             \* monmap->size()
  PaxosMin,      \* paxos_min: versions kept by a trim
  TrimMin,       \* paxos_trim_min: versions beyond them that start a trim
  TrimMax,       \* paxos_trim_max: most versions removed by a trim
  Remaps,        \* the epochs whose proposals change the monmap
  MaxEpoch,      \* bound: no step moves a monitor beyond this epoch
  MaxTroubled,   \* bound: the same for behaviours with a timeout or a restart
  MaxProposals,  \* bound: proposals besides the first one of a leader
  MaxTimeouts,   \* bound: timeouts
  MaxRenewals,   \* bound: renewals of a lease
  MaxRestarts,   \* bound: restarts of a monitor
  MaxTroubles    \* bound: timeouts and restarts together

Rank == 0 .. N - 1

ASSUME NAssumption == N \in Nat \ {0} /\ N <= 100
ASSUME TrimAssumption == {PaxosMin, TrimMin, TrimMax} \subseteq Nat
ASSUME BoundAssumption ==
  {MaxEpoch, MaxTroubled, MaxProposals, MaxTimeouts, MaxRenewals, MaxRestarts,
   MaxTroubles}
    \subseteq Nat

VARIABLES
  mon,        \* mon[m]: the state of monitor m
  net,        \* net[m][d]: messages in flight from m to d, oldest first
  committed,  \* history: the versions some monitor has committed
  proposals, timeouts, renewals, restarts   \* how often these happened

bounds == <<proposals, timeouts, renewals, restarts>>
vars == <<mon, net, committed, bounds>>

Odd(e) == e % 2 = 1
Majority(Q) == 2 * Cardinality(Q) > N
Larger(a, b) == IF a > b THEN a ELSE b
Smaller(a, b) == IF a < b THEN a ELSE b

Roles == {"out", "leader", "peon"}
States == {"recovering", "active", "updating", "updating-previous",
           "writing", "writing-previous"}
Events == {"collect", "accept", "lease_renew", "lease_ack", "lease"}

\* A proposed transaction: who proposed it when, for which version, and the
\* first_committed it sets if it trims
Value == [epoch: Nat, by: Rank, v: Nat, trim: Nat]
NoValue == [epoch |-> 0, by |-> 0, v |-> 0, trim |-> 0]

NoneUncommitted == [v |-> 0, pn |-> 0, value |-> NoValue]

\* f maps versions, or monitors, of D to members of S
Maps(f, D, S) == DOMAIN f \subseteq D /\ \A x \in DOMAIN f : f[x] \in S

\* f where it is defined, and g elsewhere
One(k, x) == [i \in {k} |-> x]
Over(f, g) == [k \in DOMAIN f \cup DOMAIN g |-> IF k \in DOMAIN f THEN f[k] ELSE g[k]]

\* The states of a monitor with this log and these answers in peer_lc
MonitorState(log, peer_lc) ==
  [epoch           : Nat,
   role            : Roles,
   leader          : Rank,
   quorum          : SUBSET Rank,
   \* in the store
   log             : {log},            \* the versions of prefix "paxos"
   last_committed  : Nat,
   first_committed : Nat,
   last_pn         : Nat,
   stored_pn       : Nat,              \* the key "accepted_pn"
   pending_v       : Nat,
   pending_pn      : Nat,
   \* in memory
   state           : States,
   accepted_pn     : Nat,
   uncommitted     : [v: Nat, pn: Nat, value: Value],
   num_last        : Nat,
   peer_lc         : {peer_lc},
   accepted        : SUBSET Rank,
   new_value       : Value,
   pending         : BOOLEAN,          \* pending_proposal is set
   lease           : BOOLEAN,          \* lease_expire is set
   acked_lease     : SUBSET Rank,
   events          : SUBSET Events]    \* the timeouts that are scheduled

Ops == {"VICTORY", "COLLECT", "LAST", "BEGIN", "ACCEPT", "COMMIT", "LEASE",
        "LEASE_ACK"}

Message(values) ==
  [op: Ops, epoch: Nat, quorum: SUBSET Rank, pn: Nat, lc: Nat, fc: Nat,
   values: {values}, upn: Nat]

\* A message of monitor state s with nothing else filled in
Msg(op, s) ==
  [op |-> op, epoch |-> s.epoch, quorum |-> {}, pn |-> 0, lc |-> 0, fc |-> 0,
   values |-> <<>>, upn |-> 0]

-----------------------------------------------------------------------------
(* The calls *)

Nothing == [d \in Rank |-> <<>>]
SendTo(D, msg) == [d \in Rank |-> IF d \in D THEN <<msg>> ELSE <<>>]
Done(s) == [s |-> s, out |-> Nothing]
Sends(s, D, msg) == [s |-> s, out |-> SendTo(D, msg)]

\* r, then the call that returned q
Then(r, q) == [s |-> q.s, out |-> [d \in Rank |-> r.out[d] \o q.out[d]]]

Exists(s, v) == v \in DOMAIN s.log
Restricted(log, V) == [v \in DOMAIN log \cap V |-> log[v]]
IsWriting(s) == s.state \in {"writing", "writing-previous"}

\* Mutant: the trim erases one version too many.
LearnTrimsOne(s, W, values) ==
  LET log   == Over([v \in W |-> values[v]], s.log)
      trims == {v \in W : values[v].trim > 0}
      fc    == IF trims # {} THEN values[Max(trims)].trim
               ELSE IF 1 \in W THEN 1 ELSE s.first_committed
  IN  [s EXCEPT !.log = [v \in {w \in DOMAIN log : trims = {} \/ w > fc} |-> log[v]],
                !.first_committed = fc,
                !.last_committed = Max(W)]

\* The transactions of versions W are applied, in order: what a trim among
\* them leaves, and first_committed set with the very first one
Learn(s, W, values) ==
  LET log   == Over([v \in W |-> values[v]], s.log)
      trims == {v \in W : values[v].trim > 0}
      fc    == IF trims # {} THEN values[Max(trims)].trim
               ELSE IF 1 \in W THEN 1 ELSE s.first_committed
  IN  [s EXCEPT !.log = [v \in {w \in DOMAIN log : w >= fc} |-> log[v]],
                !.first_committed = fc,
                !.last_committed = Max(W)]

\* store_state: the versions of a message that are news here
News(s, msg) ==
  IF DOMAIN msg.values # {} /\ Min(DOMAIN msg.values) > s.last_committed + 1
  THEN {}
  ELSE {v \in DOMAIN msg.values : s.last_committed < v /\ v <= msg.lc}

StoreState(s, msg) ==
  LET W == News(s, msg)
      t == Learn(s, W, msg.values)
  IN  IF W = {} THEN s
      ELSE [t EXCEPT !.uncommitted =
              IF @.v <= t.last_committed THEN NoneUncommitted ELSE @]

\* do_refresh finds a new monmap among the versions W
NeedsBootstrap(W, values) == \E v \in W : values[v].epoch \in Remaps

\* share_state
Share(s, msg, peer_lc) ==
  [msg EXCEPT !.values = Restricted(s.log, peer_lc + 1 .. s.last_committed),
              !.lc = s.last_committed]

\* The pn under which the version after last_committed was stored
PendingPn(s, default) ==
  IF s.pending_v = s.last_committed + 1 /\ s.pending_pn > 0 THEN s.pending_pn
                                                            ELSE default

\* Mutant: the rank is left out.
NewPnAnyone(m, last_pn, gt) == (Larger(last_pn, gt) \div 100 + 1) * 100

NewPn(m, last_pn, gt) == (Larger(last_pn, gt) \div 100 + 1) * 100 + m

\* collect: the new accepted_pn is in memory only
Collect(m, s, oldpn) ==
  LET v  == s.last_committed + 1
      pn == NewPn(m, s.last_pn, Larger(s.accepted_pn, oldpn))
      t  == [s EXCEPT !.state = "recovering",
                      !.uncommitted =
                         IF Exists(s, v)
                         THEN [v |-> v, pn |-> PendingPn(s, s.accepted_pn),
                               value |-> s.log[v]]
                         ELSE NoneUncommitted,
                      !.peer_lc = <<>>, !.last_pn = pn, !.accepted_pn = pn,
                      !.num_last = 1, !.events = @ \cup {"collect"}]
  IN  Sends(t, s.quorum \ {m},
            [Msg("COLLECT", t) EXCEPT !.pn = pn, !.lc = s.last_committed,
                                      !.fc = s.first_committed])

\* leader_init, and the metadata that win_election leaves to be proposed
LeaderInit(m, s) ==
  LET t == [s EXCEPT !.events = {}, !.new_value = NoValue, !.pending = TRUE]
  IN  IF s.quorum = {m} THEN Done([t EXCEPT !.state = "active"])
      ELSE Collect(m, [t EXCEPT !.lease = FALSE], 0)

PeonInit(s) ==
  [s EXCEPT !.events = {"lease"}, !.new_value = NoValue, !.pending = FALSE,
            !.state = "recovering", !.lease = FALSE]

\* Monitor::_reset, with Paxos::restart
Reset(s) ==
  [s EXCEPT !.role = "out", !.quorum = {}, !.events = {}, !.new_value = NoValue,
            !.state = "recovering", !.pending = FALSE]

ExtendLease(m, s) ==
  Sends([s EXCEPT !.lease = TRUE, !.acked_lease = {m},
                  !.events = @ \cup {"lease_ack", "lease_renew"}],
        s.quorum \ {m},
        [Msg("LEASE", s) EXCEPT !.lc = s.last_committed, !.fc = s.first_committed])

CommitStart(s) ==
  [s EXCEPT !.state = IF @ = "updating" THEN "writing" ELSE "writing-previous",
            !.events = @ \ {"accept"}]

\* begin, in state st
Begin(m, s, x, st) ==
  LET v == s.last_committed + 1
      t == [s EXCEPT !.state = st, !.accepted = {m}, !.new_value = x,
                     !.log = Over(One(v, x), @), !.pending_v = v,
                     !.pending_pn = s.accepted_pn]
  IN  IF s.quorum = {m} THEN Done(CommitStart(t))
      ELSE Sends([t EXCEPT !.events = @ \cup {"accept"}], s.quorum \ {m},
                 [Msg("BEGIN", s) EXCEPT !.pn = s.accepted_pn, !.values = One(v, x),
                                         !.lc = s.last_committed])

\* Mutant: the events of the last round stay scheduled.
ProposePendingTimers(m, s, trim) ==
  Begin(m, [s EXCEPT !.pending = FALSE],
        [epoch |-> s.epoch, by |-> m, v |-> s.last_committed + 1, trim |-> trim],
        "updating")

\* propose_pending
ProposePending(m, s, trim) ==
  Begin(m, [s EXCEPT !.events = {}, !.pending = FALSE],
        [epoch |-> s.epoch, by |-> m, v |-> s.last_committed + 1, trim |-> trim],
        "updating")

\* Mutant: should_trim is not asked, and paxos_trim_min more versions are kept.
TrimToUnchecked(s) ==
  Smaller(s.last_committed - (PaxosMin + TrimMin), s.first_committed + TrimMax)

\* trim: where the log is to begin, 0 if it is left as it is
TrimTo(s) ==
  LET end == Smaller(s.last_committed - PaxosMin, s.first_committed + TrimMax)
  IN  IF /\ s.last_committed - s.first_committed > PaxosMin + TrimMin
         /\ s.first_committed < end
      THEN end ELSE 0

\* finish_round
FinishRound(m, s) ==
  LET t == [s EXCEPT !.state = "active"]
  IN  IF s.pending \/ TrimTo(s) > 0 THEN ProposePending(m, t, TrimTo(s))
                                    ELSE Done(t)

\* commit_finish, run by the thread that has written the commit
CommitFinish(m, s) ==
  LET v == s.last_committed + 1
      t == [Learn(s, {v}, One(v, s.new_value)) EXCEPT !.lease = FALSE,
                                                   !.new_value = NoValue]
      c == Sends(t, s.quorum \ {m},
                 [Msg("COMMIT", s) EXCEPT !.pn = s.accepted_pn, !.lc = v,
                                          !.values = One(v, s.new_value)])
      l == IF s.quorum = {m} THEN c ELSE Then(c, ExtendLease(m, t))
  IN  IF NeedsBootstrap({v}, One(v, s.new_value)) THEN [c EXCEPT !.s = Reset(t)]
      ELSE Then(l, FinishRound(m, l.s))

\* wait_for_paxos_write: the commit that is being written is finished first,
\* and with a quorum of one also the commit that its end has begun
WaitForPaxosWrite(m, s) ==
  LET f == IF IsWriting(s) THEN CommitFinish(m, s) ELSE Done(s)
  IN  IF IsWriting(f.s) THEN Then(f, CommitFinish(m, f.s)) ELSE f

\* Monitor::bootstrap
Bootstrap(m, s) ==
  LET w == WaitForPaxosWrite(m, s) IN [w EXCEPT !.s = Reset(w.s)]

\* Elector::bump_epoch, with Monitor::join_election: a commit that is still
\* being written ends in the new epoch
JoinElection(m, s, e) == Bootstrap(m, [s EXCEPT !.epoch = e])
-----------------------------------------------------------------------------
(* The handlers, as the state and the messages they end with *)

HandleCollect(m, s, from, msg) ==
  LET t     == [s EXCEPT !.state = "recovering", !.events = @ \cup {"lease"}]
      newer == msg.pn > s.accepted_pn
      u     == [t EXCEPT !.accepted_pn = IF newer THEN msg.pn ELSE @,
                         !.stored_pn   = IF newer THEN msg.pn ELSE @]
      last  == [Msg("LAST", s) EXCEPT !.pn = u.accepted_pn,
                                      !.lc = s.last_committed,
                                      !.fc = s.first_committed]
      next  == s.last_committed + 1
  IN  IF msg.fc > next THEN Bootstrap(m, t)
      ELSE Sends(u, {from},
             IF msg.lc > s.last_committed THEN last
             ELSE [last EXCEPT !.values = Restricted(s.log, msg.lc + 1 .. next),
                               !.upn = IF Exists(s, next)
                                       THEN PendingPn(s, s.accepted_pn) ELSE 0])

\* handle_last: the peers that are behind are sent what they miss, in the order
\* of their ranks, unless one of them is too far behind
TooLow(s) ==
  {p \in DOMAIN s.peer_lc : s.peer_lc[p] + 1 < s.first_committed
                            /\ s.first_committed > 1}

\* Mutant: those that are behind are left behind.
ShareCommitsNever(s) == Done(s)

ShareCommits(s) ==
  [s   |-> s,
   out |-> [d \in Rank |->
              IF /\ d \in DOMAIN s.peer_lc /\ s.peer_lc[d] < s.last_committed
                 /\ \A p \in TooLow(s) : d < p
              THEN <<Share(s, Msg("COMMIT", s), s.peer_lc[d])>> ELSE <<>>]]

\* Mutant: the comparison of the pns is swapped.
LearnUncommittedSwapped(s, msg) ==
  IF /\ msg.upn > 0 /\ msg.upn <= s.uncommitted.pn
     /\ msg.lc >= s.last_committed /\ msg.lc + 1 >= s.uncommitted.v
  THEN [s EXCEPT !.uncommitted = [v |-> msg.lc + 1, pn |-> msg.upn,
                                  value |-> msg.values[msg.lc + 1]]]
  ELSE s

\* handle_last: a value some peon has accepted, under a later pn than any value
\* heard of before
LearnUncommitted(s, msg) ==
  IF /\ msg.upn > 0 /\ msg.upn >= s.uncommitted.pn
     /\ msg.lc >= s.last_committed /\ msg.lc + 1 >= s.uncommitted.v
  THEN [s EXCEPT !.uncommitted = [v |-> msg.lc + 1, pn |-> msg.upn,
                                  value |-> msg.values[msg.lc + 1]]]
  ELSE s

\* Mutant: finish_round is not called.
RecoveredStays(m, s, refreshed) ==
  LET t == [s EXCEPT !.events = @ \ {"collect"}, !.peer_lc = <<>>]
  IN  IF t.uncommitted.v = t.last_committed + 1
      THEN Begin(m, t, t.uncommitted.value, "updating-previous")
      ELSE ExtendLease(m, t)

\* handle_last: everyone has answered
Recovered(m, s, refreshed) ==
  LET t == [s EXCEPT !.events = @ \ {"collect"}, !.peer_lc = <<>>]
      l == ExtendLease(m, t)
  IN  IF t.uncommitted.v = t.last_committed + 1
      THEN Begin(m, t, t.uncommitted.value, "updating-previous")
      ELSE IF refreshed THEN Then(l, FinishRound(m, l.s)) ELSE l

HandleLast(m, s, from, msg) ==
  LET heard == [s EXCEPT !.peer_lc = Over(One(from, msg.lc), @)]
      W     == News(s, msg)
      remap == NeedsBootstrap(W, msg.values)
      c     == ShareCommits(StoreState(heard, msg))
      again == Collect(m, [c.s EXCEPT !.events = @ \ {"collect"}], msg.pn)
      t     == LearnUncommitted([c.s EXCEPT !.num_last = @ + 1], msg)
      r     == IF msg.pn > s.accepted_pn THEN Then(c, again)
               ELSE IF msg.pn < s.accepted_pn THEN c
               ELSE IF t.num_last = Cardinality(s.quorum)
                    THEN Then(c, Recovered(m, t, ~remap))
               ELSE [c EXCEPT !.s = t]
  IN  IF s.role # "leader" THEN Done(s)
      ELSE IF msg.fc > s.last_committed + 1 THEN Bootstrap(m, heard)
      ELSE IF TooLow(c.s) # {} THEN Then(c, Bootstrap(m, c.s))
      ELSE IF remap THEN Then(r, Bootstrap(m, r.s))
      ELSE r

\* Mutant: the value is accepted and not stored.
HandleBeginUnstored(m, s, from, msg) ==
  IF msg.pn < s.accepted_pn THEN Done(s)
  ELSE Sends([s EXCEPT !.state = "updating", !.lease = FALSE], {from},
             [Msg("ACCEPT", s) EXCEPT !.pn = s.accepted_pn, !.lc = s.last_committed])

\* Mutant: the lease is not cancelled.
HandleBeginKeepsLease(m, s, from, msg) ==
  LET v == s.last_committed + 1
  IN  IF msg.pn < s.accepted_pn THEN Done(s)
      ELSE Sends([s EXCEPT !.state = "updating",
                           !.log = Over(One(v, msg.values[v]), @),
                           !.pending_v = v, !.pending_pn = s.accepted_pn],
                 {from},
                 [Msg("ACCEPT", s) EXCEPT !.pn = s.accepted_pn,
                                          !.lc = s.last_committed])

HandleBegin(m, s, from, msg) ==
  LET v == s.last_committed + 1
  IN  IF msg.pn < s.accepted_pn THEN Done(s)
      ELSE Sends([s EXCEPT !.state = "updating", !.lease = FALSE,
                           !.log = Over(One(v, msg.values[v]), @),
                           !.pending_v = v, !.pending_pn = s.accepted_pn],
                 {from},
                 [Msg("ACCEPT", s) EXCEPT !.pn = s.accepted_pn,
                                          !.lc = s.last_committed])

\* handle_accept: all of the quorum has to accept
HandleAccept(m, s, from, msg) ==
  LET t == [s EXCEPT !.accepted = @ \cup {from}]
  IN  IF msg.pn # s.accepted_pn \/ msg.lc < s.last_committed - 1 THEN Done(s)
      ELSE IF t.accepted = s.quorum THEN Done(CommitStart(t))
      ELSE Done(t)

HandleCommit(m, s, from, msg) ==
  LET t == StoreState(s, msg)
  IN  IF NeedsBootstrap(News(s, msg), msg.values) THEN Bootstrap(m, t) ELSE Done(t)

HandleLease(m, s, from, msg) ==
  IF s.role # "peon" \/ s.last_committed # msg.lc THEN Done(s)
  ELSE Sends([s EXCEPT !.lease = TRUE, !.state = "active",
                       !.events = @ \cup {"lease"}],
             {from},
             [Msg("LEASE_ACK", s) EXCEPT !.lc = s.last_committed,
                                         !.fc = s.first_committed])

HandleLeaseAck(m, s, from, msg) ==
  LET t == [s EXCEPT !.acked_lease = @ \cup {from}]
  IN  IF "lease_ack" \notin s.events THEN Done(s)
      ELSE IF t.acked_lease = s.quorum
           THEN Done([t EXCEPT !.events = @ \ {"lease_ack"}])
      ELSE Done(t)

\* Elector::handle_victory, with Monitor::lose_election: the quorum is followed
\* only into the next epoch; otherwise a new election begins
HandleVictory(m, s, from, msg) ==
  LET b == JoinElection(m, s, msg.epoch)
  IN  IF msg.epoch = s.epoch + 1
      THEN [b EXCEPT !.s = PeonInit([@ EXCEPT !.role = "peon", !.leader = from,
                                              !.quorum = msg.quorum])]
      ELSE [b EXCEPT !.s.epoch = msg.epoch + 1]

Handler(m, s, from, msg) ==
  CASE msg.op = "VICTORY"   -> HandleVictory(m, s, from, msg)
    [] msg.op = "COLLECT"   -> HandleCollect(m, s, from, msg)
    [] msg.op = "LAST"      -> HandleLast(m, s, from, msg)
    [] msg.op = "BEGIN"     -> HandleBegin(m, s, from, msg)
    [] msg.op = "ACCEPT"    -> HandleAccept(m, s, from, msg)
    [] msg.op = "COMMIT"    -> HandleCommit(m, s, from, msg)
    [] msg.op = "LEASE"     -> HandleLease(m, s, from, msg)
    [] msg.op = "LEASE_ACK" -> HandleLeaseAck(m, s, from, msg)
-----------------------------------------------------------------------------
(* Actions *)

Fresh ==
  [epoch |-> 1, role |-> "out", leader |-> 0, quorum |-> {},
   log |-> <<>>, last_committed |-> 0, first_committed |-> 0, last_pn |-> 0,
   stored_pn |-> 0, pending_v |-> 0, pending_pn |-> 0,
   state |-> "recovering", accepted_pn |-> 0, uncommitted |-> NoneUncommitted,
   num_last |-> 0, peer_lc |-> <<>>, accepted |-> {}, new_value |-> NoValue,
   pending |-> FALSE, lease |-> FALSE, acked_lease |-> {}, events |-> {}]

Init ==
  /\ mon = [m \in Rank |-> Fresh]
  /\ net = [m \in Rank |-> [d \in Rank |-> <<>>]]
  /\ committed = {}
  /\ proposals = 0 /\ timeouts = 0 /\ renewals = 0 /\ restarts = 0

\* dispatch_op drops Paxos messages of an earlier epoch, Paxos::dispatch those
\* of a quorum the monitor has left, Elector::dispatch victories of the past.
\* The verdict is final, for no epoch is entered twice.
Heard(s, msg) ==
  \/ msg.epoch > s.epoch
  \/ msg.epoch = s.epoch /\ (msg.op = "VICTORY" \/ s.role # "out")

\* What is left of a channel when the monitor at its end has dropped all that
\* comes before the first message it hears
Delivered(n, ms) ==
  [x \in Rank |-> [d \in Rank |->
     LET ch    == n[x][d]
         heard == {i \in 1 .. Len(ch) : Heard(ms[d], ch[i])}
     IN  IF heard = {} THEN <<>> ELSE SubSeq(ch, Min(heard), Len(ch))]]

CommittedBy(s) ==
  {[v |-> v, value |-> s.log[v]] :
     v \in {w \in DOMAIN s.log : w <= s.last_committed}}

EpochBound == IF timeouts + restarts > 0 THEN MaxTroubled ELSE MaxEpoch

\* A timeout or a restart may still happen
MayTrouble ==
  /\ timeouts + restarts < MaxTroubles
  /\ \A m \in Rank : mon[m].epoch <= MaxTroubled

\* Monitor m ends a step with result, after taking the oldest message of each of
\* From.  (The quantifier makes TLC evaluate the result once.)
Step(m, From, result) ==
  \E r \in {result} :
    /\ r.s.epoch <= EpochBound
    /\ mon' = [mon EXCEPT ![m] = r.s]
    /\ committed' = committed \cup CommittedBy(r.s)
    /\ net' = Delivered([x \in Rank |-> [d \in Rank |->
                           (IF x \in From /\ d = m THEN Tail(net[x][d]) ELSE net[x][d])
                             \o (IF x = m THEN r.out[d] ELSE <<>>)]],
                        [mon EXCEPT ![m] = r.s])

\* The assertion of Paxos::dispatch
FromQuorum(s, from) ==
  \/ s.role = "leader"
  \/ s.role = "peon" /\ from = s.leader

\* The assertions of the handlers
Asserted(s, from, msg) ==
  CASE msg.op = "COLLECT" -> s.role = "peon"
    [] msg.op = "COMMIT"  -> s.role = "peon"
    [] msg.op = "BEGIN"   -> \/ msg.pn < s.accepted_pn
                             \/ msg.pn = s.accepted_pn /\ msg.lc = s.last_committed
    [] msg.op = "ACCEPT"  -> \/ msg.pn # s.accepted_pn
                             \/ msg.lc < s.last_committed - 1
                             \/ /\ msg.lc \in {s.last_committed, s.last_committed - 1}
                                /\ s.state \in {"updating", "updating-previous"}
                                /\ from \notin s.accepted
    [] OTHER              -> TRUE

\* Paxos sees the messages of the epoch the monitor is in
ForPaxos(s, msg) == msg.op # "VICTORY" /\ msg.epoch = s.epoch

\* dispatch_op: a Paxos message of a later epoch sends the monitor back to
\* bootstrap, the others are for the handlers.
Receive(m, from) ==
  /\ net[from][m] # <<>>
  /\ LET msg == Head(net[from][m])
     IN  /\ ForPaxos(mon[m], msg) =>
               FromQuorum(mon[m], from) /\ Asserted(mon[m], from, msg)
         /\ Step(m, {from}, IF msg.op # "VICTORY" /\ msg.epoch > mon[m].epoch
                            THEN Bootstrap(m, mon[m])
                            ELSE Handler(m, mon[m], from, msg))
  /\ UNCHANGED bounds

\* dispatch_op drops election messages while the monitor probes
IgnoreVictory(m, from) ==
  /\ net[from][m] # <<>> /\ Head(net[from][m]).op = "VICTORY"
  /\ mon[m].role = "out"
  /\ Step(m, {from}, Done(mon[m]))
  /\ UNCHANGED bounds

\* The io_work thread has written the commit and calls commit_finish
FinishCommit(m) ==
  /\ IsWriting(mon[m])
  /\ Step(m, {}, CommitFinish(m, mon[m]))
  /\ UNCHANGED bounds

\* A service proposes: its changes join the pending transaction, and
\* trigger_propose starts a round if none is under way.
Propose(m) ==
  /\ mon[m].role = "leader" /\ proposals < MaxProposals
  /\ proposals' = proposals + 1
  /\ Step(m, {}, IF mon[m].state = "active"
                 THEN ProposePending(m, mon[m], 0)
                 ELSE Done([mon[m] EXCEPT !.pending = TRUE]))
  /\ UNCHANGED <<timeouts, renewals, restarts>>

\* collect_timeout, accept_timeout, lease_ack_timeout and lease_timeout
Timeout(m) ==
  /\ \E ev \in mon[m].events : ev # "lease_renew"
  /\ MayTrouble /\ timeouts < MaxTimeouts /\ timeouts' = timeouts + 1
  /\ Step(m, {}, Bootstrap(m, mon[m]))
  /\ UNCHANGED <<proposals, renewals, restarts>>

\* lease_renew_timeout
RenewLease(m) ==
  /\ "lease_renew" \in mon[m].events
  /\ renewals < MaxRenewals /\ renewals' = renewals + 1
  /\ Step(m, {}, ExtendLease(m, [mon[m] EXCEPT !.events = @ \ {"lease_renew"}]))
  /\ UNCHANGED <<proposals, timeouts, restarts>>

\* An election: m starts or joins one
Elect(m) ==
  /\ \E e \in mon[m].epoch + 1 .. EpochBound :
        Odd(e) /\ Step(m, {}, JoinElection(m, mon[m], e))
  /\ UNCHANGED bounds

\* m wins it with the monitors of Q, all of which have reached its epoch
\* (Election's Win), and win_election calls leader_init.
Win(m) ==
  /\ mon[m].role = "out" /\ Odd(mon[m].epoch)
  /\ \E Q \in SUBSET Rank :
        /\ m \in Q /\ Majority(Q) /\ \A x \in Q : m <= x
        /\ \A x \in Q : mon[x].epoch >= mon[m].epoch
        /\ LET w == [mon[m] EXCEPT !.epoch = @ + 1, !.role = "leader",
                                   !.leader = m, !.quorum = Q]
               v == Sends(w, Q \ {m}, [Msg("VICTORY", w) EXCEPT !.quorum = Q])
           IN  Step(m, {}, Then(v, LeaderInit(m, w)))
  /\ UNCHANGED bounds

\* Mutant: last_committed is read from the wrong key.
ReloadedFirst(s) ==
  [Fresh EXCEPT !.epoch = s.epoch, !.log = s.log,
                !.last_committed = s.first_committed,
                !.first_committed = s.first_committed, !.last_pn = s.last_pn,
                !.stored_pn = s.stored_pn, !.accepted_pn = s.stored_pn,
                !.pending_v = s.pending_v, !.pending_pn = s.pending_pn]

\* What the store and Paxos::init bring back
Reloaded(s) ==
  [Fresh EXCEPT !.epoch = s.epoch, !.log = s.log,
                !.last_committed = s.last_committed,
                !.first_committed = s.first_committed, !.last_pn = s.last_pn,
                !.stored_pn = s.stored_pn, !.accepted_pn = s.stored_pn,
                !.pending_v = s.pending_v, !.pending_pn = s.pending_pn]

\* m dies and is started again.  A commit that was being written is on disk or
\* is not; of what m sent, a part may still arrive.
Die(m) ==
  /\ \E written \in IF IsWriting(mon[m]) THEN BOOLEAN ELSE {FALSE} :
       LET s == mon[m]
           v == s.last_committed + 1
           t == Reloaded(IF written THEN Learn(s, {v}, One(v, s.new_value)) ELSE s)
       IN  /\ mon' = [mon EXCEPT ![m] = t]
           /\ committed' = committed \cup CommittedBy(t)
  /\ \E keep \in [Rank -> 0 .. Max({Len(net[m][d]) : d \in Rank})] :
        /\ \A d \in Rank : keep[d] <= Len(net[m][d])
        /\ net' = [x \in Rank |-> [d \in Rank |->
                     IF x = m THEN SubSeq(net[x][d], 1, keep[d])
                     ELSE IF d = m THEN <<>> ELSE net[x][d]]]

Restart(m) ==
  /\ MayTrouble /\ restarts < MaxRestarts /\ restarts' = restarts + 1
  /\ Die(m)
  /\ UNCHANGED <<proposals, timeouts, renewals>>

\* A failed assertion is the end of the process too
Abort(m, from) ==
  /\ net[from][m] # <<>>
  /\ LET msg == Head(net[from][m])
     IN  /\ ForPaxos(mon[m], msg)
         /\ ~(FromQuorum(mon[m], from) /\ Asserted(mon[m], from, msg))
  /\ Die(m)
  /\ UNCHANGED bounds

Next ==
  \E m \in Rank : \/ \E from \in Rank : \/ Receive(m, from)
                                        \/ IgnoreVictory(m, from)
                                        \/ Abort(m, from)
                  \/ FinishCommit(m)
                  \/ Propose(m)
                  \/ Timeout(m)
                  \/ RenewLease(m)
                  \/ Elect(m)
                  \/ Win(m)
                  \/ Restart(m)

Spec == Init /\ [][Next]_vars

-----------------------------------------------------------------------------
(* Properties *)

\* Every field of the monitors, the channels and the history has its type.
TypeOK ==
  /\ \A m \in Rank : LET s == mon[m] IN
       /\ s \in MonitorState(s.log, s.peer_lc)
       /\ Maps(s.log, Nat, Value) /\ Maps(s.peer_lc, Rank, Nat)
  /\ \A m, d \in Rank : \A i \in DOMAIN net[m][d] : LET msg == net[m][d][i] IN
       msg \in Message(msg.values) /\ Maps(msg.values, Nat, Value)
  /\ \A c \in committed : c.v \in Nat \ {0} /\ c.value \in Value

\* Two monitors never commit different values under one version, in any order
\* of elections, recoveries, restarts and late messages.
Agreement ==
  \A a, b \in committed : a.v = b.v => a = b

\* What Paxos::dispatch and the handlers assert about sender, pn, version, state
\* and acceptances holds for every message but COLLECT, and so does what begin
\* asserts whenever it may be called: a leader that is recovering or active has no
\* value in the works, and once it is active a majority has answered its COLLECT.
AssertionsHold ==
  /\ \A m, from \in Rank : net[from][m] # <<>> =>
       LET msg == Head(net[from][m])
       IN  ForPaxos(mon[m], msg) /\ msg.op # "COLLECT" =>
             FromQuorum(mon[m], from) /\ Asserted(mon[m], from, msg)
  /\ \A m \in Rank : LET s == mon[m] IN
       s.role = "leader" /\ s.state \in {"recovering", "active"} =>
         /\ s.new_value = NoValue
         /\ s.state = "active" /\ Cardinality(s.quorum) > 1 => 2 * s.num_last > N

\* The timeouts that are scheduled are those whose handlers assert nothing that
\* does not hold: a peon waits for a lease, a leader for answers to what it sent.
\* A lease is only renewed while no round runs, and so never twice at once.
TimersMatchState ==
  \A m \in Rank : LET s == mon[m] IN
    /\ "lease" \in s.events => s.role = "peon"
    /\ s.events \cap {"collect", "accept", "lease_ack", "lease_renew"} # {} =>
          s.role = "leader"
    /\ "accept" \in s.events => s.state \in {"updating", "updating-previous"}
    /\ s.events \cap {"lease_ack", "lease_renew"} # {} => s.state = "active"
    /\ "collect" \in s.events => s.state = "recovering"
    /\ s.role = "peon" => "lease" \in s.events

\* is_readable.  Time is not modelled: a lease is valid until it is cancelled.
Readable(s) ==
  /\ s.role \in {"leader", "peon"} /\ s.state \in {"active", "updating", "writing"}
  /\ s.last_committed > 0 /\ (s.lease \/ Cardinality(s.quorum) = 1)

\* "only commit (and expose committed state) when we get *all* quorum members to
\* accept.  otherwise, they may still be sharing the now stale state": a peon of
\* the leader's epoch that serves reads has all that the leader has committed.
ReadsCurrent ==
  \A l, p \in Rank :
     /\ mon[l].role = "leader" /\ p \in mon[l].quorum
     /\ mon[p].epoch = mon[l].epoch /\ Readable(mon[p])
     => mon[p].last_committed >= mon[l].last_committed

\* What is committed is on the disks of a majority, or has been trimmed there,
\* and so outlives any minority.
CommittedIsDurable ==
  \A c \in committed :
     Majority({m \in Rank : \/ mon[m].first_committed > c.v
                            \/ Exists(mon[m], c.v) /\ mon[m].log[c.v] = c.value})

\* A store has every version from first_committed to last_committed, at most one
\* more, and knows the pn of that one ("crossing our fingers" never happens).
StoreIsWhole ==
  \A m \in Rank : LET s == mon[m] IN
    /\ s.first_committed <= s.last_committed
    /\ \A v \in s.first_committed .. s.last_committed : v = 0 \/ Exists(s, v)
    /\ \A v \in DOMAIN s.log : s.first_committed <= v /\ v <= s.last_committed + 1
    /\ Exists(s, s.last_committed + 1) => s.pending_v = s.last_committed + 1

\* No two values are ever stored for one version under one pn.
OneValuePerPn ==
  \A m, x \in Rank :
     LET v == mon[m].pending_v
     IN  /\ v > 0 /\ v = mon[x].pending_v /\ mon[m].pending_pn = mon[x].pending_pn
         /\ mon[m].last_committed < v /\ mon[x].last_committed < v
         => mon[m].log[v] = mon[x].log[v]

LastVersion == Max({0} \cup {c.v : c \in committed})

Log ==
  INSTANCE ReplicatedLog WITH
    Members <- Rank,
    log     <- [v \in 1 .. LastVersion |-> {c.value : c \in {d \in committed : d.v = v}}],
    known   <- [m \in Rank |-> mon[m].last_committed]

\* Together the monitors are one log: whoever commits first had all there was
\* before, and from then on a version has one value for everyone.
ImplementsLog == Log!Spec

-----------------------------------------------------------------------------
(* Liveness *)

\* A monitor with messages to handle or a write to end does one or the other.
Fairness ==
  \A m \in Rank : WF_vars(FinishCommit(m) \/ \E from \in Rank : Receive(m, from))

LiveSpec == Spec /\ Fairness

\* l leads, and all of its quorum follow it
Settled(l) ==
  /\ mon[l].role = "leader"
  /\ \A p \in mon[l].quorum \ {l} :
        mon[p].role = "peon" /\ mon[p].leader = l /\ mon[p].epoch = mon[l].epoch

\* l has proposed all there was to propose, and its quorum has it
Working(l) ==
  /\ mon[l].state = "active" /\ ~mon[l].pending
  /\ \A p \in mon[l].quorum :
        Readable(mon[p]) /\ mon[p].last_committed = mon[l].last_committed

\* A quorum that stays together recovers whatever was left behind, commits what
\* is pending, and lets all its members serve reads.
QuorumWorks ==
  \A l \in Rank : <>[]Settled(l) => <>[]Working(l)
=============================================================================
