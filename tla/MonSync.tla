------------------------------- MODULE MonSync -------------------------------
(***************************************************************************)
(* How a monitor that is behind gets the store of another one, and how it   *)
(* comes to an election: src/src/mon/Monitor.cc, from preinit and bootstrap *)
(* over the probes to the synchronization.                                  *)
(*                                                                          *)
(* Paxos is what the synchronization sees of it (see Paxos for the          *)
(* protocol): a quorum recovers what its members know together, and commits *)
(* one transaction at a time.  Transaction v makes a new key of some service *)
(* (as osdmap:v) and sets one that is there (as osdmap:last_committed), and  *)
(* trims the versions below TrimAt(v) of Paxos.                             *)
(*                                                                          *)
(* The cookies are numbered by sync_provider_count alone: the election      *)
(* epoch, their other half, may well be the same after a restart.           *)
(***************************************************************************)
EXTENDS Integers, Sequences, FiniteSets, FiniteSetsExt, SequencesExt, TLC

CONSTANTS
  N,            \* monmap->size()
  PaxosMin,     \* paxos_min: versions kept by a trim
  Drift,        \* paxos_max_join_drift
  Starts,       \* initial states, with their bounds: see SyncConstants
  None

Rank == 0 .. N - 1

ASSUME SyncConstants ==
  /\ N \in Nat \ {0}
  /\ {PaxosMin, Drift} \subseteq Nat
  /\ \A start \in Starts :
        /\ start.quorum \subseteq Rank /\ 2 * Cardinality(start.quorum) > N
        /\ start.lc \in [Rank -> Nat]
        /\ {start.commits, start.timeouts, start.crashes, start.forces} \subseteq Nat

VARIABLES
  mon,       \* mon[m]: memory and store of a monitor
  net,       \* net[m][d]: messages in flight from m to d, oldest first
  head,      \* history: the last version that a quorum has accepted
  \* bounds: how often these may still happen
  commits,   \* transactions that a quorum commits
  timeouts,  \* timeouts though the answer is on its way
  crashes,   \* crashes of a monitor
  forces     \* sync force commands

bounds == <<commits, timeouts, crashes, forces>>
vars == <<mon, net, head, bounds>>

Majority(Q) == 2 * Cardinality(Q) > N
Larger(a, b) == IF a > b THEN a ELSE b

-----------------------------------------------------------------------------
(* Transactions and stores *)

\* The first_committed that transaction v sets by a trim, 0 if it does not trim
TrimAt(v) == IF v - 1 - PaxosMin > 1 THEN v - 1 - PaxosMin ELSE 0

\* first_committed after the transactions 1 .. v
FirstAt(v) == IF v = 0 THEN 0 ELSE Larger(1, TrimAt(v))

\* The store with what the transactions W do, in order; each must be in it
Replay(s, W) ==
  LET trims == {w \in W : TrimAt(w) > 0}
  IN  [s EXCEPT
         !.ok = @ /\ W \subseteq s.versions,
         !.made = @ \cup W,
         !.latest = IF W # {} THEN Max(W) ELSE @,
         !.stored_fc = IF trims # {} THEN TrimAt(Max(trims))
                       ELSE IF 1 \in W THEN 1 ELSE @,
         !.versions = @ \ {TrimAt(w) - 1 : w \in trims}]

\* Paxos::init
PaxosInit(s) ==
  [s EXCEPT !.lc = s.stored_lc, !.fc = s.stored_fc,
            !.ok = @ /\ s.stored_fc <= s.stored_lc]

\* store->clear(get_sync_targets_names())
Cleared(s) ==
  [s EXCEPT !.versions = {}, !.made = {}, !.latest = 0, !.stored_lc = 0, !.stored_fc = 0]

\* s has learned that the versions up to v are committed: store_state
Learned(s, v) ==
  LET W == s.lc + 1 .. v
  IN  IF W = {} THEN s
      ELSE PaxosInit([Replay([s EXCEPT !.versions = @ \cup W], W) EXCEPT !.stored_lc = v])

NoSync == [provider |-> None, cookie |-> 0, full |-> FALSE, start |-> 0]

\* A monitor, not running, whose store has the versions up to v
Stopped(v) ==
  [state     |-> "down",
   quorum    |-> {},
   outside   |-> {},          \* outside_quorum
   lc        |-> 0,           \* paxos->get_version()
   fc        |-> 0,           \* paxos->get_first_committed()
   floor     |-> 0,           \* sync_last_committed_floor
   sync      |-> NoSync,      \* sync_provider, _cookie, _full, _start_version
   serving   |-> <<>>,        \* sync_providers, by cookie
   count     |-> 0,           \* sync_provider_count
   ok        |-> TRUE,        \* no assertion has failed
   \* in the store
   versions  |-> FirstAt(v) .. v \ {0},
   stored_lc |-> v,
   stored_fc |-> FirstAt(v),
   made      |-> 1 .. v,      \* keys of the services: the new ones
   latest    |-> v,           \* and the one that every transaction sets
   in_sync   |-> FALSE,
   force     |-> FALSE,       \* force_sync
   stored_floor |-> 0]

\* The keys of a store in the order of its iterator: the prefixes of the
\* services come before and after the one of Paxos
Items(s) ==
  << [key |-> "before", val |-> s.made],
     [key |-> "paxos", val |-> <<s.versions, s.stored_fc, s.stored_lc>>],
     [key |-> "after", val |-> s.latest] >>

PutItem(s, item) ==
  CASE item.key = "before" -> [s EXCEPT !.made = @ \cup item.val]
    [] item.key = "paxos"  -> [s EXCEPT !.versions = @ \cup item.val[1],
                                        !.stored_fc = item.val[2],
                                        !.stored_lc = item.val[3]]
    [] item.key = "after"  -> [s EXCEPT !.latest = item.val]

\* The chunk of a message is written to the store
PutChunk(s, msg) ==
  FoldLeft(PutItem, [s EXCEPT !.versions = @ \cup msg.versions], msg.items)

-----------------------------------------------------------------------------
(* Calls: [s, out], the monitor after the call and what it sent to each peer *)

Silent(s) == [s |-> s, out |-> [d \in Rank |-> <<>>]]
Sends(s, d, msg) == [s |-> s, out |-> [x \in Rank |-> IF x = d THEN <<msg>> ELSE <<>>]]

Bootstrap(m, s) ==
  [s   |-> [s EXCEPT !.state = "probing", !.quorum = {}, !.outside = {m},
                     !.sync = NoSync],
   out |-> [d \in Rank |-> IF d = m THEN <<>> ELSE <<[op |-> "PROBE"]>>]]

StartElection(s) ==
  Silent([s EXCEPT !.state = "electing", !.quorum = {}, !.outside = {}])

\* Mutant: preinit clears the store of a monitor that was not synchronizing.
BootClears(m, s) ==
  Bootstrap(m, PaxosInit([Cleared(s) EXCEPT !.floor = s.stored_floor, !.serving = <<>>,
                                            !.count = 0]))

\* Mutant: preinit trusts a store that is half copied.
BootTrusts(m, s) ==
  Bootstrap(m, PaxosInit([s EXCEPT !.floor = s.stored_floor, !.serving = <<>>,
                                   !.count = 0]))

\* A monitor starts: preinit, then bootstrap
Boot(m, s) ==
  LET kept  == IF s.in_sync \/ s.force THEN Cleared(s) ELSE s
      fresh == [kept EXCEPT !.floor = s.stored_floor, !.serving = <<>>, !.count = 0]
  IN  Bootstrap(m, PaxosInit(fresh))

SyncStart(s, d, full) ==
  LET floor   == Larger(s.floor, s.lc)
      marked  == [s EXCEPT !.in_sync = TRUE, !.floor = floor, !.stored_floor = floor]
      ready   == IF full THEN PaxosInit(Cleared(marked)) ELSE s
  IN  Sends([ready EXCEPT !.state = "synchronizing", !.serving = <<>>,
                          !.sync.provider = d, !.sync.full = full],
            d, [op |-> "GET_COOKIE", full |-> full, lc |-> IF full THEN 0 ELSE s.lc])

SyncFinish(m, s, lc) ==
  LET whole == IF s.sync.full
               THEN [Replay(s, s.sync.start .. lc) EXCEPT !.stored_lc = lc]
               ELSE s
  IN  Bootstrap(m, PaxosInit([whole EXCEPT !.in_sync = FALSE, !.force = FALSE,
                                           !.stored_floor = 0]))

HandleProbe(s, d) ==
  Sends(s, d, [op |-> "REPLY", quorum |-> s.quorum, fc |-> s.fc, lc |-> s.lc])

\* Mutant: monitors outside of any quorum do not call an election.
MayJoinOnly(m, s, d, msg) ==
  IF msg.quorum # {} THEN StartElection(s)
  ELSE Silent([s EXCEPT !.outside = @ \cup {d}])

\* The end of handle_probe_reply: no synchronization is needed
MayJoin(m, s, d, msg) ==
  LET outside == s.outside \cup {d}
  IN  IF msg.quorum # {} \/ Majority(outside)
        THEN StartElection(s)
        ELSE Silent([s EXCEPT !.outside = outside])

HandleProbeReply(m, s, d, msg) ==
  CASE s.state # "probing" -> Silent(s)
    [] s.state = "probing" /\ msg.lc >= s.floor /\ s.lc < msg.fc /\ msg.fc > 1 ->
         SyncStart(s, d, TRUE)
    [] s.state = "probing" /\ msg.lc >= s.floor /\ ~(s.lc < msg.fc /\ msg.fc > 1)
       /\ s.lc + Drift < msg.lc ->
         SyncStart(s, d, FALSE)
    [] OTHER -> MayJoin(m, s, d, msg)

HandleGetCookie(s, d, msg) ==
  IF s.state = "synchronizing" THEN Sends(s, d, [op |-> "NO_COOKIE"])
  ELSE LET cookie == s.count + 1
           sp == IF msg.full THEN [lc |-> s.lc, full |-> TRUE, items |-> Items(s)]
                             ELSE [lc |-> msg.lc, full |-> FALSE, items |-> <<>>]
       IN  Sends([s EXCEPT !.count = cookie, !.serving = (cookie :> sp) @@ @],
                 d, [op |-> "COOKIE", cookie |-> cookie, lc |-> sp.lc])

WithoutCookie(s, c) ==
  [s EXCEPT !.serving = [x \in DOMAIN s.serving \ {c} |-> s.serving[x]]]

\* Mutant: the provider does not notice that it has trimmed what is needed next.
FellBehindNever(s, sp) == FALSE

\* The provider has trimmed versions that the requester needs
FellBehind(s, sp) == sp.lc < s.fc /\ s.fc > 1

\* The answers to GET_CHUNK: the chunk ends with version upto and has the next n
\* items of the store, if it has room for any once all versions are in it
Chunks(s, sp) ==
  LET sizes == {upto \in sp.lc .. s.lc : upto > sp.lc \/ sp.lc = s.lc}
  IN  {x \in sizes \X (0 .. Len(sp.items)) :
         /\ x[2] > 0 => x[1] = s.lc
         /\ x[1] = sp.lc /\ sp.full => x[2] > 0}

SendChunk(s, d, c, upto, n) ==
  LET sp   == s.serving[c]
      left == SubSeq(sp.items, n + 1, Len(sp.items))
      last == left = <<>> /\ upto = s.lc
      kept == IF last THEN WithoutCookie(s, c)
              ELSE [s EXCEPT !.serving[c] = [sp EXCEPT !.lc = upto, !.items = left]]
  IN  Sends([kept EXCEPT !.ok = @ /\ sp.lc + 1 .. upto \subseteq s.versions],
            d, [op |-> "CHUNK", cookie |-> c, last |-> last, lc |-> upto,
                versions |-> sp.lc + 1 .. upto, items |-> SubSeq(sp.items, 1, n)])

\* The results of handle_sync_get_chunk
HandleGetChunk(s, d, msg) ==
  IF msg.cookie \notin DOMAIN s.serving
    THEN {Sends(s, d, [op |-> "NO_COOKIE"])}
  ELSE IF FellBehind(s, s.serving[msg.cookie])
    THEN {Sends(WithoutCookie(s, msg.cookie), d, [op |-> "NO_COOKIE"])}
  ELSE {SendChunk(s, d, msg.cookie, x[1], x[2]) : x \in Chunks(s, s.serving[msg.cookie])}

GetNextChunk(s) == Sends(s, s.sync.provider, [op |-> "GET_CHUNK", cookie |-> s.sync.cookie])

HandleCookie(s, d, msg) ==
  IF s.sync.cookie # 0 \/ s.sync.provider # d THEN Silent(s)
  ELSE GetNextChunk([s EXCEPT !.sync.cookie = msg.cookie, !.sync.start = msg.lc])

ChunkIsMine(s, d, msg) == msg.cookie = s.sync.cookie /\ s.sync.provider = d

HandleChunk(m, s, d, msg) ==
  IF ~ChunkIsMine(s, d, msg) THEN Silent(s)
  ELSE LET put  == [PutChunk(s, msg) EXCEPT !.ok = @ /\ s.state = "synchronizing"]
           done == IF s.sync.full THEN put
                   ELSE PaxosInit([Replay(put, s.lc + 1 .. msg.lc) EXCEPT
                                     !.stored_lc = msg.lc])
       IN  IF msg.last THEN SyncFinish(m, done, msg.lc) ELSE GetNextChunk(done)

HandleNoCookie(m, s) == Bootstrap(m, s)

\* The results of a message from d in monitor m
Handle(m, s, d, msg) ==
  CASE msg.op = "PROBE"      -> {HandleProbe(s, d)}
    [] msg.op = "REPLY"      -> {HandleProbeReply(m, s, d, msg)}
    [] msg.op = "GET_COOKIE" -> {HandleGetCookie(s, d, msg)}
    [] msg.op = "COOKIE"     -> {HandleCookie(s, d, msg)}
    [] msg.op = "GET_CHUNK"  -> HandleGetChunk(s, d, msg)
    [] msg.op = "CHUNK"      -> {HandleChunk(m, s, d, msg)}
    [] msg.op = "NO_COOKIE"  -> {HandleNoCookie(m, s)}

-----------------------------------------------------------------------------
(* Steps *)

\* n is net with what m sent; a connection to a monitor that is down is refused
Sent(n, m, out) ==
  [n EXCEPT ![m] = [d \in Rank |-> IF mon[d].state = "down" THEN <<>> ELSE @[d] \o out[d]]]

\* The monitor m makes a call of its own
Calls(m, r) == mon' = [mon EXCEPT ![m] = r.s] /\ net' = Sent(net, m, r.out)

MayTimeout == timeouts > 0 /\ timeouts' = timeouts - 1

\* A timeout is counted unless what it waits for has really been lost
Timeout(lost) == IF lost THEN UNCHANGED timeouts ELSE MayTimeout

Receive(m, d) ==
  /\ mon[m].state # "down" /\ net[d][m] # <<>>
  /\ \E r \in Handle(m, mon[m], d, Head(net[d][m])) :
        /\ mon' = [mon EXCEPT ![m] = r.s]
        /\ net' = Sent([net EXCEPT ![d][m] = Tail(@)], m, r.out)
  /\ UNCHANGED <<head, bounds>>

\* No message between m and a monitor of D
Quiet(m, D) == \A d \in D : net[m][d] = <<>> /\ net[d][m] = <<>>

ProbeTimeout(m) ==
  /\ mon[m].state = "probing" /\ Timeout(Quiet(m, Rank))
  /\ Calls(m, Bootstrap(m, mon[m]))
  /\ UNCHANGED <<head, commits, crashes, forces>>

SyncTimeout(m) ==
  /\ mon[m].state = "synchronizing" /\ Timeout(Quiet(m, {mon[m].sync.provider}))
  /\ Calls(m, Bootstrap(m, mon[m]))
  /\ UNCHANGED <<head, commits, crashes, forces>>

\* sync_trim_providers drops a requester that has not been heard of for long
TrimProvider(m) ==
  /\ MayTimeout
  /\ \E c \in DOMAIN mon[m].serving : Calls(m, Silent(WithoutCookie(mon[m], c)))
  /\ UNCHANGED <<head, commits, crashes, forces>>

SyncForce(m) ==
  /\ mon[m].state # "down" /\ forces > 0 /\ forces' = forces - 1
  /\ Calls(m, Silent([mon[m] EXCEPT !.force = TRUE]))
  /\ UNCHANGED <<head, commits, timeouts, crashes>>

\* What is left of a monitor that dies
Dead(s) ==
  [s EXCEPT !.state = "down", !.quorum = {}, !.outside = {}, !.lc = 0, !.fc = 0,
            !.floor = 0, !.sync = NoSync, !.serving = <<>>, !.count = 0]

\* m dies with store s; the last messages it sent may be lost with it
Dies(m, s) ==
  /\ crashes > 0 /\ crashes' = crashes - 1
  /\ mon' = [mon EXCEPT ![m] = Dead(s)]
  /\ \E lost \in BOOLEAN :
        net' = [x \in Rank |-> [d \in Rank |->
                  IF d = m \/ (x = m /\ lost) THEN <<>> ELSE net[x][d]]]
  /\ UNCHANGED <<head, commits, timeouts, forces>>

Crash(m) == mon[m].state # "down" /\ Dies(m, mon[m])

\* handle_sync_chunk has written the chunk to the store, and no more
CrashInChunk(m, d) ==
  /\ mon[m].state # "down" /\ net[d][m] # <<>>
  /\ LET msg == Head(net[d][m])
     IN  /\ msg.op = "CHUNK" /\ ChunkIsMine(mon[m], d, msg)
         /\ Dies(m, PutChunk(mon[m], msg))

Restart(m) ==
  /\ mon[m].state = "down" /\ Calls(m, Boot(m, mon[m]))
  /\ UNCHANGED <<head, bounds>>

-----------------------------------------------------------------------------
(* Elections and Paxos, as far as they matter here *)

Working(Q) == \A m \in Q : mon[m].state = "quorum" /\ mon[m].quorum = Q
InState(state) == {m \in Rank : mon[m].state = state}

\* A PROPOSE arrives at a member of a quorum
JoinElection(m) ==
  /\ mon[m].state = "quorum" /\ InState("electing") # {}
  /\ Calls(m, StartElection(mon[m]))
  /\ UNCHANGED <<head, bounds>>

\* Nobody can win: Elector::expire calls bootstrap
ElectionExpires(m) ==
  /\ mon[m].state = "electing"
  /\ ~Majority(InState("electing") \cup InState("quorum")) /\ Timeout(Quiet(m, Rank))
  /\ Calls(m, Bootstrap(m, mon[m]))
  /\ UNCHANGED <<head, commits, crashes, forces>>

\* A timeout of Paxos in a quorum that has lost a member
LeaseTimeout(m) ==
  /\ mon[m].state = "quorum" /\ ~Working(mon[m].quorum)
  /\ Timeout(InState("electing") = {} /\ Quiet(m, Rank))
  /\ Calls(m, Bootstrap(m, mon[m]))
  /\ UNCHANGED <<head, commits, crashes, forces>>

\* The members of Q that its recovery finds too far behind
TooFarBehind(Q) ==
  LET leader == Min(Q)
  IN  IF \E m \in Q : mon[m].fc > mon[leader].lc + 1 THEN {leader}
      ELSE {m \in Q : mon[leader].fc > mon[m].lc + 1}

\* What Q knows together: the last version committed, and the one accepted after it
KnownBy(Q) ==
  LET hi == Max({mon[m].lc : m \in Q})
  IN  IF \E m \in Q : hi + 1 \in mon[m].versions THEN hi + 1 ELSE hi

\* The monitors that are electing win, and recover
FormQuorum ==
  \E Q \in {InState("electing")} :
     LET member(m) == [mon[m] EXCEPT !.state = "quorum", !.quorum = Q]
     IN  /\ Majority(Q) /\ Timeout(InState("quorum") = {})
         /\ \/ \E behind \in {TooFarBehind(Q)} \ {{}} :
                 /\ mon' = [m \in Rank |->
                      CASE m \in behind -> Bootstrap(m, mon[m]).s
                        [] m \in Q \ behind -> member(m)
                        [] OTHER -> mon[m]]
                 /\ net' = [m \in Rank |->
                      IF m \in behind THEN Sent(net, m, Bootstrap(m, mon[m]).out)[m]
                                      ELSE net[m]]
                 /\ UNCHANGED head
            \/ /\ TooFarBehind(Q) = {}
               /\ \E v \in {KnownBy(Q)} :
                    /\ mon' = [m \in Rank |->
                         IF m \in Q THEN Learned(member(m), v) ELSE mon[m]]
                    /\ head' = Larger(head, v)
               /\ UNCHANGED net
         /\ UNCHANGED <<commits, crashes, forces>>

\* The leader of Q commits a version that all of Q have accepted; L have heard
\* of the commit
Commit ==
  \E Q \in {mon[m].quorum : m \in InState("quorum")} :
     LET leader == Min(Q)
         v      == mon[leader].lc + 1
     IN  /\ Working(Q) /\ commits > 0 /\ commits' = commits - 1
         /\ \E L \in SUBSET Q :
              /\ leader \in L
              /\ mon' = [m \in Rank |->
                   CASE m \in L -> Learned(mon[m], v)
                     [] m \in Q \ L -> LET s == Learned(mon[m], v - 1)
                                      IN  [s EXCEPT !.versions = @ \cup {v}]
                     [] OTHER -> mon[m]]
         /\ head' = Larger(head, v)
         /\ UNCHANGED <<net, timeouts, crashes, forces>>

-----------------------------------------------------------------------------
\* A quorum at work, and the other monitors just started
InitMon(start, m) ==
  LET s == Stopped(start.lc[m])
  IN  IF m \in start.quorum
        THEN [PaxosInit(s) EXCEPT !.state = "quorum", !.quorum = start.quorum]
        ELSE Boot(m, s).s

Init ==
  \E start \in Starts :
     /\ mon = [m \in Rank |-> InitMon(start, m)]
     /\ net = [m \in Rank |-> [d \in Rank |->
                 IF m \in start.quorum THEN <<>> ELSE Bootstrap(m, mon[m]).out[d]]]
     /\ head = Max({start.lc[m] : m \in Rank})
     /\ commits = start.commits /\ timeouts = start.timeouts
     /\ crashes = start.crashes /\ forces = start.forces

Next ==
  \/ \E m \in Rank : \E d \in Rank \ {m} : Receive(m, d) \/ CrashInChunk(m, d)
  \/ \E m \in Rank : \/ ProbeTimeout(m) \/ SyncTimeout(m) \/ TrimProvider(m)
                     \/ SyncForce(m) \/ Crash(m) \/ Restart(m)
                     \/ JoinElection(m) \/ ElectionExpires(m) \/ LeaseTimeout(m)
  \/ FormQuorum
  \/ Commit

Spec == Init /\ [][Next]_vars

\* What m does in time by itself: at most one of these is possible at a time
OwnStep(m) ==
  \/ Restart(m) \/ JoinElection(m)
  \/ UNCHANGED timeouts /\ (\/ ElectionExpires(m) \/ LeaseTimeout(m)
                            \/ ProbeTimeout(m) \/ SyncTimeout(m))

\* Messages arrive, monitors are started again and timers fire
Fairness ==
  /\ \A m \in Rank : WF_vars(OwnStep(m)) /\ \A d \in Rank \ {m} : WF_vars(Receive(m, d))
  /\ WF_vars(FormQuorum /\ UNCHANGED timeouts)

LiveSpec == Spec /\ Fairness

-----------------------------------------------------------------------------
(* Properties *)

Members == InState("electing") \cup InState("quorum")

\* The assertions of the handlers and of read_and_prepare_transactions, and the one of
\* Paxos::init: a provider that commits and trims while its chunks are on their way
\* (handle_sync_get_chunk) never makes either side read a version that is gone, and
\* what a requester stores always has first_committed <= last_committed.  A monitor has a
\* provider while it synchronizes and at no other time, as sync_timeout and
\* handle_sync_chunk assert.
AssertionsHold ==
  \A m \in Rank :
     /\ mon[m].ok
     /\ (mon[m].sync.provider # None) = (mon[m].state = "synchronizing")

\* What m has of the transactions up to its last_committed: all their keys, the last
\* value of the one that each of them sets, and the versions since first_committed
Complete(s) ==
  /\ s.lc = s.stored_lc /\ s.fc = FirstAt(s.lc)
  /\ 1 .. s.lc \subseteq s.made /\ s.latest = s.lc
  /\ s.fc .. s.lc \subseteq s.versions \cup {0}

\* A monitor takes part in elections only with a store that lacks nothing of what the
\* transactions up to its last_committed make, whatever was interrupted before: a
\* synchronization that timed out, lost its provider or died with half of the keys
\* copied (sync_start, preinit, handle_sync_chunk).
MembersLackNothing == \A m \in Members : Complete(mon[m])

\* No majority of monitors that take part in elections lacks a committed version: they
\* could "come online with a majority holding out of date commits" (Monitor.h, the
\* same comment) and commit another transaction in its place.
CommitsSurvive ==
  \A Q \in SUBSET Members : Majority(Q) => KnownBy(Q) >= head

\* A monitor that is behind, or whose synchronization fails for any of the reasons
\* modelled here, gets the store and joins the others in the end.
EventuallyTogether ==
  <>[](\A m \in Rank : mon[m].state = "quorum" /\ mon[m].quorum = Rank)

=============================================================================
