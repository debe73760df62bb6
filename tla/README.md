# A TLA+ development of Ceph's agreement protocols

The monitors are the part of Ceph that everything else trusts: they keep the
maps of the cluster and answer for them as one.  This project models how they
agree (`src/src/mon`), and two protocols of the daemons they manage: the
two-phase commit of the MDS tables (`src/src/mds`) and the reservations that the
OSDs take before they recover (`src/src/osd`, `src/src/common`).  TLC checks the
models, and TLAPS proves part of what the checks show.

The repository has some 770 000 lines.  What is modelled is a small share of
them: the places where several actors, a disk and a timer meet, and where a wrong
step loses data or stops the cluster.  `PROJECT.json` says which lines.

## Parts of the system

| part | state | operations | interacts with | what makes it correct |
|---|---|---|---|---|
| Elector (`Elector.cc`) | epoch (memory and disk), whom it acked, who acked it, one timer | start, propose, ack, nak, victory, expire | messages; calls `win_election`, `lose_election`, `bootstrap` of Monitor | an epoch is entered once; no two leaders are both accepted by all of their quorum; epochs survive a restart; a quorum forms |
| Paxos (`Paxos.cc`) | log, first and last committed version, proposal numbers, pending value, state, leases, timeouts | collect, last, begin, accept, commit, lease, trim, timeouts | messages; the store; `bootstrap`; PaxosService above | one value per version; nothing committed is lost; no stale reads; progress |
| PaxosService and its subclasses (`PaxosService.cc`) | pending change, delayed proposal, waiters | dispatch, prepare, propose, restart, `_active`, trim | Paxos below, clients above, other services beside it | what is acknowledged is committed; batches are whole; every request is answered |
| probing and synchronization (`Monitor.cc`) | probes outstanding, cookies, half-copied store, floor | probe, reply, sync start, cookie, chunk, finish, force | starts elections, replaces the store | a monitor never joins with a store that lacks something; no majority lacks a commit |
| Monitor (`Monitor.cc`) | probing, synchronizing, electing, leader, peon; quorum | bootstrap, dispatch, win, lose | owns all of the above, filters their messages | filters let through only what the handlers expect |
| MonitorDBStore | key/value pairs, a queue of writes | atomic transactions, one writer thread | Paxos and all services | a transaction is whole or absent |
| MDS tables (`MDSTableServer.cc`, `MDSTableClient.cc`, `SnapServer.cc`) | table, pending tids, journals of both sides | prepare, agree, commit, ack, rollback, save, load, replay | two MDS ranks; the monitors, which remove snapshots | a snapshot is in the table if and only if it is, or will be, in a directory |
| AsyncReserver (`AsyncReserver.h`) with Finisher | slots, a queue by priority, callbacks under way | request, cancel, limits | the PGs of an OSD | slots are owned; callbacks that come too late do no harm |
| recovery reservations (`PG.cc`, `PG.h`, `OSD.cc`, `PrimaryLogPG.cc`) | a state machine per PG and OSD, event queues, retry timers | reserve, reject, recover, backfill, cancel, release | local and remote reservers, messages between OSDs, new intervals | events meet a state that reacts to them, but for overlapping troubles; work is reserved; no deadlock |
| OSD peering, MDS cache, messenger, object stores, CRUSH, RGW, librbd, clients | — | — | — | not modelled, see `PROJECT.json` |

Hard behaviour is what these parts have in common: actors with timers,
asynchronous writers and disks, that die and return, and whose messages belong to
quorums, instances or intervals that may already be gone.  `PROJECT.json` lists
these hazards with the line where each one bites.

## Modules

| module | models |
|---|---|
| `Election` | what an election promises: no messages, no timers |
| `Elector` | `Elector.cc`, and how `Monitor.cc` drives it |
| `MCElector` | instances of `Elector`, among them a formed cluster whose leader is gone as initial state |
| `ElectorProofs` | theorems about `Elector`: types, one entry per epoch, one effective leader; acks bind, peons agree, it implements `Election`, no assertion fails |
| `ReplicatedLog` | what Paxos promises: one log of which everyone knows a prefix |
| `Paxos` | `Paxos.cc`, and `bootstrap`, `win_election`, `lose_election`, `dispatch_op`, `wait_for_paxos_write` around it |
| `MCPaxos` | instances of `Paxos` |
| `MCPaxosForget` | one behaviour of `Paxos` with five monitors |
| `PaxosProofs` | theorems about `Paxos`: types, one value for each proposal number |
| `VoteProofs` | lemmas about `Paxos`: what questions, answers and votes mean, and that each small step of a monitor keeps it so |
| `AgreementProofs` | theorems about `Paxos`: agreement, durable commits, whole stores, timers; it implements `ReplicatedLog` |
| `PaxosService`, `MCPaxosService` | `PaxosService.cc` and the contexts of `Paxos.cc` inside one monitor |
| `PaxosServiceProofs` | theorems about `PaxosService`: types, batches |
| `ServiceLifeProofs` | the services in and out of a quorum: assertions, proposals are heard of |
| `ServiceCommitProofs` | the way of a change to the log: acknowledgements, the order of two services |
| `MonSync`, `MCMonSync` | `Monitor.cc` from `preinit` and `bootstrap` over the probes to the synchronization |
| `MDSTable`, `MCMDSTable` | the two sides of a table, the snapshot table as its content, both journals |
| `MDSTableProofs` | theorems about `MDSTable`: the replay, the assertions |
| `AsyncReserver` | `AsyncReserver.h`, as operators on a reserver |
| `PGReservations`, `MCPGReservations` | the reserving states of the recovery statechart, on top of `AsyncReserver` |

`Elector` implements `Election` (checked and proved).  `Paxos` is built on what `Election`
says: its actions `Elect`, `Win` and `HandleVictory` allow every election that
`Election` allows, two winners of one epoch included.  `Paxos` implements
`ReplicatedLog` (checked, and proved for more than one monitor as long as none loses a
vote, see below).  `PaxosService` and `MonSync` see of Paxos what it
promises to the rest of a monitor: the first its states and its callbacks, the
second that a quorum recovers what its members know together.  `PGReservations`
composes the reservers of several OSDs with the PGs that use them.

### How the modules read

A handler of the code is a chain of calls under one lock, so it is one action.
An operator that returns `[s, out]` is a call: the state of one monitor after
it, and the messages it has sent to each other monitor.  `Then` puts two calls
in sequence.  Operators carry the names of the functions they stand for.

*Messages.*  Monitors talk over lossless connections, one FIFO channel for each
ordered pair.  A restart cuts them: what was on its way to the monitor is lost,
and of what it had sent, any prefix of each channel arrives.

*Election timers.*  A timer that fires while messages are under way is "early";
`MaxEarly` bounds how often.  The timer of a monitor that has deferred lasts
longer (`reset_timer(1.0)`), which `Timely` says without a clock.

*The asynchronous commit.*  `commit_start` queues a transaction; until
`commit_finish` runs, the monitor is in state `writing`.  A crash in that state
leaves the commit on disk or not.  `wait_for_paxos_write` gives the lock away,
and so `commit_finish` runs inside `bootstrap` and inside `bump_epoch`, after the
epoch has changed: its COMMIT, LEASE and BEGIN carry the new, odd epoch.

*Values* are records of who proposed them and when.  A value may trim the log
(`trim`), and the values of the epochs in `Remaps` change the monmap, which sends
every monitor that learns them back to bootstrap.

*Messages that will be dropped* leave the channel of `Paxos` at once
(`Delivered`).  That is sound: once a message is to be dropped it stays so, for
no epoch is entered twice.

*Assertions.*  A failed `assert` ends the process.  `Receive` is for messages
that pass the assertions, `Abort` for the others; `AssertionsHold` says for which
messages `Abort` never happens.

*Abstractions in Paxos.*  Time is left out: a lease is valid until it is
cancelled.  `trimming`, which only keeps one trim from being queued twice, is
implied by the trim being proposed in the same step.  Callbacks of waiters are
left out; a proposal they make is the action `Propose`.  A monitor whose log ends
before the leader's begins would synchronize its store; here it only goes back to
bootstrap.

*PaxosService.*  The monitor's lock is held from the call that takes it to its
return.  `agenda` is what the thread that holds it still has to do; finishing a
list of contexts puts them in front of it, so that a context that proposes,
restarts or waits again does so between two others, as in the code.  The lock is
also free while the dispatch thread waits for the store (`flushing`).  A request is
plain (one service), cross (`mds fail`: the other service must propose first) or a
batch (`osd purge`: both in one transaction, Paxos being plugged meanwhile).

*MonSync.*  Transaction `v` makes a new key and sets an old one, so that a store
with missing keys and one with keys of the future can both be told from a whole
one (`made`, `latest`).  A provider sends its store in three chunks, with the keys
of Paxos between others, and commits and trims between them.  A timeout that fires
although the answer is on its way counts against a bound of the start; one whose
answer is lost is free, and fair.  The quorum is `FormQuorum` and `Commit`, which
leave some members behind by one version, as Paxos does.  Each start brings its own
bounds.

*MDSTable.*  Each side has a journal, and a crash keeps what is known to be safe and
any part of the rest.  A failed assertion or a decode error of the code is an action
of its own (`ServerAborts`, `ClientAborts`, `ClientThrows`): the rank dies and is
replaced, and the properties must hold all the same.  An AGREE runs the request of the
client again.  It has kept its locks since before the prepare (`done_locking`, which makes
`acquire_locks` return at once), so it goes on to its update (`HandleAgree`), unless it was
killed with its session (`Kill`) or the file system has become full or read-only meanwhile
(`HandleAgreeInVain`): then nobody commits the tid or rolls it back.

*PGReservations.*  A PG has a state machine on each of its OSDs.  An event in the
queue carries the epoch in which it was made, and is dropped when the PG has been
reset since.  A callback of a reserver goes through the finisher of its OSD and
then into that queue.  `Reactions` is the table of reactions of `PG.h`.  An event that a
state has no reaction to ends the OSD (`Aborts`): it comes back without its memory, and
its PGs begin a new interval, as they do when an OSD fails for another reason (`Fails`).
The errors that a repair finds (`ScrubFinish`) and those of a read (`ReadError`) are told
apart, because only the second look at `eio_errors_to_process`.  `do_recovery` may give up
again before the state machine knows that it has, or finish after all (`Goes`).  A cluster
brings its own layout and says how often each kind of trouble may come (`Troubles`, `left`).

## Runs

Monitors are three unless said otherwise: two of them are a majority, one is left
behind, and two different majorities meet in one monitor.

| run | bounds | checks |
|---|---|---|
| `elector_troubles` | one of: an early timer, a restart, a bootstrap or quorum command; epochs up to 4 | `TypeOK`, `FollowOnce`, `UniqueEffectiveLeader`, `PeonAgreesWithLeader`, `AckersRemember`, `AssertionsHold`, `StoredEpochGrows`, `ImplementsElection` |
| `elector_live` | three clusters: three healthy monitors; monitor 0 dead; monitor 2 without the required connection features. Each from the first start and from a formed quorum (whose leader has restarted, is the dead one, or has left monitor 2 out); the last two with an early timer and a restart | `EventuallyStable` |
| `paxos_elections` | epochs up to 6, so three quorums one after the other; or up to 4 with one timeout or restart | `Agreement`, `OneValuePerPn`, `AssertionsHold`, `ImplementsLog` |
| `paxos_rounds` | epochs up to 4, two more proposals, one lease renewal, trims after two versions, monmap changes in epoch 4 | `TypeOK`, `StoreIsWhole`, `CommittedIsDurable`, `TimersMatchState`, `ReadsCurrent` |
| `paxos_live` | epochs up to 4, fair | `QuorumWorks` |
| `paxos_forgotten_promise` | five monitors, one given behaviour | `Agreement`, violated |
| `paxos_service` | two services, a plain, a cross and a batched request, one election or bootstrap, one trim | `AssertionsHold`, `AckedIsCommitted`, `OtherComesFirst`, `BatchIsAtomic`, `ProposalIsHeardOf`, `EventuallyAcked` |
| `mon_sync` | six starts, each with its commits and with a timeout, a crash, a forced sync or none; up to 5 versions, of which the last few are kept | `AssertionsHold`, `MembersLackNothing`, `CommitsSurvive`, `EventuallyTogether` |
| `mon_sync_forced` | the example of the comment on `sync_last_committed_floor`, with `sync force` | `CommitsSurvive`, violated |
| `mds_table` | two ranks, two requests of any kind, any of them killed or failing, one crash, one save | `ReplayRebuilds`, `RealmInTable`, `SafePurge`, `UniqueSnapIds`, `AssertionsHold`, `EventuallySettled` |
| `mds_early_ack` | two ranks, one snapshot, one crash | `AckedIsDurable`, violated |
| `reservations` | three clusters: `Crossing`, two PGs on four OSDs, one slot each, one trouble (a new interval, a changed limit, a full OSD, recovery given up, an error found later); `Wide`, one PG with two backfill targets and any two troubles (an interval, a failed OSD, targets full, give-ups, an error); `Plain`, one PG with two errors | `SlotsOwned`, `WorksReserved`, `OnlyOverlapsAbort`, `EventuallyClean` |

`mds_table` has one crash for a reason.  `mds_early_ack` shows that a COMMIT sent again is
acked before the first one is safe; when the sender dies once and the server then dies with
that entry unsafe, a directory has a snapshot that the table has lost, so `RealmInTable` and
`SafePurge` do not outlast a second crash.  Nor does `UniqueSnapIds`: reqids start again in a
new instance of a client, and when one rank dies twice before the server's journal is
flushed, the late AGREE of a transaction of an earlier instance can answer one of the last.
`ReplayRebuilds` and `AssertionsHold` do outlast any number of crashes, as is proved below.

Why the bounds are enough.

* The clusters of `elector_live` begin at the first start and in a formed cluster: the
  timers of an election that is over, a quorum without its leader and a monitor that was
  left out are there at once.  Epochs go up to 12, which no behaviour reaches.
* An election needs one odd and one even epoch: four epochs of `Elector` are a first
  election and the one the trouble brings about, with the messages of the first still
  under way.  All its safety properties are proved for every bound.
* Six epochs of Paxos let a first
  leader leave a value behind, a second one commit another, and a third one find
  both, which is where a wrong choice shows (the mutant of `Agreement` is found
  there).  The properties of `paxos_elections` also hold with a timeout and a restart
  in one behaviour (1.6 million states).  Trims after two versions put a log of four against one of none.
* `mon_sync` begins with a quorum at work and a monitor that is empty, far behind, near, or
  whole and forced to synchronize; each start has the fault that makes it interesting.
  Five versions with one kept let the provider trim what the requester
  waits for, and a quorum leave a monitor too far behind while the election it
  joined goes on, so that the recovery of Paxos finds it (`TooFarBehind`).  The empty
  monitor may end with keys of versions it does not have (see below), but lacks nothing, which
  is what `MembersLackNothing` says.  No start of this run needs the floor, for of three
  monitors one that must synchronize in full is behind the two others.
* `paxos_service` lets every request meet an election at every point of its life.
  Its safety properties also hold with two restarts (7.4 million states).
* `mds_table` has one crash, of either rank.  Two crashes reach the reuse of a
  reqid, see below.
* `reservations`: `Crossing` has two PGs that need the same two remote slots,
  which is what a deadlock takes, and begins with one slot of each (with two nobody
  waits).  The changed limits are two slots, or an `osd_min_recovery_priority` above that of
  recovery, which keeps the PGs waiting.  `Wide` has the overlaps of two
  troubles in one PG, and `Plain` those of a scrub and a read: there OSDs do abort, and the
  properties hold all the same.

`CHECK_DEADLOCK FALSE` everywhere: a system that has nothing to do may rest, and
the bounds stop the rest.

### Fairness

* `elector_live`: messages are handled and timers
  fire.  Probing ends when enough peers answer, or one of a quorum (`Probed`);
  `handle_probe_probe` answers nobody whose connection lacks required features, so such
  a monitor goes on probing for ever.  (`SF` for the timers, which other timers and messages may put off: a `SafeTimer` always fires
  in the end.)  `Timely` says that, but for `MaxEarly` times, a timer is longer
  than the messages take; without it the elections of the code may go on for ever,
  and no code can do better.
* `paxos_live`: a monitor that has messages to handle or a write to end does one or
  the other.  Nothing is assumed about elections, timeouts, renewals, proposals or
  restarts.
* `paxos_service`: the threads of the monitor go on (`Run`, `DispatchThread`,
  `CommitFinish`), which includes that the other monitors answer and that elections
  end; a proposal timer that is set fires.  Not that there are no elections.
* `mon_sync`: each channel delivers; a monitor that is down is started again; a timer
  whose answer is lost fires; a majority that stays in an election forms a quorum.
* `mds_table`: journals are flushed (`MDSRank::tick`), messages arrive, a failed
  rank is replaced.  Nothing is assumed about saves or requests.
* `reservations`: queues, connections and finishers go on, retries fire, scans are
  answered.  Recovery and backfill end (`SF`): they go through finitely many objects,
  but a new interval may interrupt them.

### What the violated properties show

* **`paxos_forgotten_promise`**.  A peon writes `accepted_pn` to its store; a leader
  writes only `last_pn`.  A leader that restarts has therefore forgotten its own
  promise.  With five monitors and two such restarts, two values are committed under
  version 1.  The steps are listed in `MCPaxosForget`.  With three monitors
  `Agreement` and `ImplementsLog` hold with one restart (`paxos_elections`).
* **`mds_early_ack`**.  The server takes a tid off its pending list before the
  COMMIT is in the journal, and acks a second COMMIT of that tid at once as "already
  committed".  A client that has restarted sends one, journals the ACK and forgets
  the transaction; if the server dies now, the transaction is pending again and
  nobody will commit it.
* **`mon_sync_forced`**.  `sync force` clears the store at the next start, and the
  lower bound of `last_committed` that the comments promise to keep is written only
  by `sync_start`, not by `sync_force`.  The monitor joins a lagging one, and the two
  are a majority that lacks committed versions.

### Noted while modelling

TLC also found these; they have no run of their own.

* `bootstrap()` leaves the elector's timer running.  It fires while the monitor
  probes or synchronizes, and proposes it as a leader, though the comment in
  `handle_probe_probe` says that a monitor is sent to bootstrap in order not to keep
  calling elections.
* `handle_propose` sends a NAK to a peer without the required monitor features and
  then goes on: the monitor acks the peer that it has just refused
  (`Elector.cc:253-259`, against `Elector.h:309-310`).  It acks in its own epoch, which
  may be even.  Where the refused peer probes when the NAK arrives, the NAK is dropped;
  the ACK then finds it in an election, and `assert(m->epoch % 2 == 1)` of `handle_ack`
  fails: TLC violates `AssertionsHold` in the setting of `elector_troubles` with
  `Old = {0}`.  The runs have `Old = {}`.
* `handle_collect` trusts the epoch to filter strays.  Two monitors may win one
  epoch; a VICTORY that is dropped during probing is followed by a COLLECT that is
  not, and the monitor that gets it fails an assertion.  `AssertionsHold` of
  `Paxos` leaves out exactly this message.
* The floor is compared with the version in a probe reply only.  Two monitors begin to copy
  a third, which dies; the one that had less then takes the reply that the other sent before
  it cleared its store, asks it for a cookie and is served by a store that is empty.
  `sync_finish` erases the stored floor, and the monitor has gone backwards, against
  `Monitor.h:355-356`.  This takes five monitors, of which two are down for good (`lc`
  `<<6, 6, 6, 3, 2>>`, one crash), more than `mon_sync` has.
* A full synchronization clears the store and resets Paxos, in order that no "different
  probe reply order" decides for a partial one (`Monitor.cc:1207-1209`).  When it times out with
  some keys copied, the reply of a peer whose log begins at version 1 does decide for a
  partial one, which clears nothing.  In `mon_sync`, from the start with the empty monitor,
  the invariant `\A m \in Members : mon[m].made \subseteq 1 .. mon[m].lc` is violated: keys
  of a version that the monitor does not have stay in its store while it takes part
  in elections.
* Events without a reaction, upon which an OSD aborts, all of them part of `reservations`:
  `DoRecovery` of a scrub after the one of a failed read, or the other way round, meets
  `WaitLocalRecoveryReserved` (`PG.cc:4988`, `PrimaryLogPG.cc:14278`); `BackfillTooFull` of a
  second full target meets `RepNotRecovering`, when the primary has already told it to give
  its slot back; a second `CancelBackfill` meets `NotBackfilling` (`PG.h:1919`), while
  `NotRecovering` has a reaction to a second `CancelRecovery`; and an `AllReplicasRecovered`
  behind a `CancelRecovery`, when the objects were found after all, meets `NotRecovering`.
  `OnlyOverlapsAbort` says what must have come before such an event.
* A request that is killed or fails after its prepare leaves its tid pending at the server
  for as long as its client lives.  `EventuallySettled` says that there are no others.
* A request that needs a second service may be put with those that wait for the
  next round of Paxos, though Paxos is active (`PaxosService.h:633`).  If nobody
  proposes, it waits; `EventuallyAcked` says exactly that.
* An AGREE that is sent again carries no answer, and the request that gets it fails
  to decode it; an AGREE of a client's last instance fails an assertion of the next
  one; a second ROLLBACK fails one of the server.  All three are actions of `MDSTable`.
* Two comments of `Paxos.h` that the code has outgrown: lines 551-552 say that a
  majority of acceptances is enough to commit (`handle_accept` waits for all, and
  `ReadsCurrent` is what it wins by it), and lines 51-52 that the store has no
  version beyond `last_committed` (`begin` stores one, `StoreIsWhole` says exactly
  how many).

## Proofs

`ElectorProofs` proves, for every number of monitors and every value of the
bounds and feature sets:

* `TypeCorrect`: `Spec => []TypeOK`;
* `EnterOnce`: `Spec => []FollowOnce`;
* `EffectiveLeader`: `Spec => []UniqueEffectiveLeader`;
* `StoredGrows`: `Spec => StoredEpochGrows`.

None of the safety properties is inductive.  `Inductive` proves `Spec => []IInv`, where
`IInv` adds to the types: the epoch in memory is the one on disk, or 0 in a monitor that
has restarted, still probes and has no timer (`InMemoryInv`); every entry of the history is
at most the epoch its monitor has on disk, and has a majority (`PastInv`); whoever leads or
follows is in the history (`PresentInv`); a VICTORY carries a majority (`GoodMsg`).  With that,
`FollowOnce` is preserved because a step that enters an epoch has just raised the stored
epoch to it, above every earlier entry of that monitor.  `UniqueEffectiveLeader` follows
from `FollowOnce` and from the fact that two majorities meet, which rests on the
cardinality theorems of the library.

The second half of `ElectorProofs` goes on to what the messages of an election mean, again for every number
of monitors and every bound:

* `AcksBind`: `Spec => []AckersRemember`;
* `PeonsAgree`: `Spec => []PeonAgreesWithLeader`;
* `Implements`: `Spec => ImplementsElection`;
* `NoAssertFails`: `Old = {} => (Spec => []AssertionsHold)`.

`Bonds` proves `Spec => []Bond`, on top of `IInv`.  `Bond` says: the epoch of an ACK under
way is on its sender's disk, and a VICTORY under way repeats what its sender has entered,
with the addressee in the quorum and the sender first in it (`TruthInv`); a candidate is in
an odd epoch and has its own vote (`CandidateInv`); those it counts have higher ranks and
remember its epoch (`AckInv`); a peon has what its leader declared (`PeonInv`); no epoch is
beyond the bound (`LowInv`).  It is needed because a winner's step alone does not show that
its voters are bound: they acked several steps ago, and may have restarted since.  The
proof splits the calls into those that count nobody and enter nothing (`Humble`) and the
few that do; each step of `Elector` is then a `Leave`, `Win` or `Follow` of `Election`, or
changes none of its variables.

`NoAssertFails` needs one thing more, `OrderInv`: a PROPOSE or an ACK under way is of an odd
epoch and a VICTORY of an even one (`HonestInv`); a monitor has acked no higher rank than its
own, and in an odd epoch, where it hears messages, it is a candidate or has acked one
(`EngagedInv`).  Each call leaves this so (`Orderly`), `bump_epoch` only together with the
comparison of ranks or the `start()` that follows it.  The hypothesis cannot be dropped, as
the finding on `handle_propose` above shows; the connection features are arbitrary.

Assumptions: `NAssumption`, `FeatureAssumption`,
`LiveAssumption` and `BoundAssumption` of `Elector`.

`PaxosProofs` proves of `Paxos`, for up to 100 monitors (more would share proposal numbers)
and every value of the bounds and of the trimming options:

* `PaxosTypes`: `Spec => []TypeOK`;
* `PaxosOneValue`: `Spec => []OneValuePerPn`.

Neither is inductive, and no set of facts about the present state is: a round that failed is
overwritten in some stores and not in others, and an acceptance of it may still be under
way.  `PaxosInv` therefore says that there *is* a set of claims (version, number, value) with
one value for each version and number (`Consistent`), which contains what the stores hold
beyond `last_committed` (`StoreOK`) and what BEGINs carry (`MsgOK`).  A leader has an
accepted_pn of its own, has claims under it only up to the version it is proposing, and has
left `recovering` only after as many LASTs as its quorum is large (`LeaderOK`): that is
what forbids a late LAST to begin a second round under one number.  Nobody has claimed
anything under a number beyond the owner's `last_pn` (`OwnerOK`), so that `collect` takes a
fresh one, also after a restart.  About messages it adds that only who does not follow sends
BEGINs and is sent ACCEPTs (`Direct`), that epochs which were won are even, and that what
comes next in a channel is not of the past (`HeadOK`).  `Fine` says of a call that some
larger set of claims accounts for its result; there is one lemma for each call of the code
(`CollectFine`, `BeginFine`, `CommitFinishFine`, `BootstrapFine`, ...), and calls are
composed as in the code (`ThenFine`).  `MonsMove` shows that the claims of one monitor are
nothing to the others, for they are under its own numbers.  A quorum of one monitor never
sends, and is the case `N = 1`.

`AgreementProofs` goes on, with the lemmas of `VoteProofs`, for the same constants:

* `PaxosTimers`: `Spec => []TimersMatchState`;
* `PaxosAgreement`: `Spec /\ [][VotesKept]_vars => []Agreement`;
* `PaxosDurable`: `Spec /\ [][VotesKept]_vars => []CommittedIsDurable`;
* `PaxosStores`: `Spec /\ [][VotesKept]_vars => []StoreIsWhole`;
* `PaxosImplements`: `N > 1 => (Spec /\ [][VotesKept]_vars => ImplementsLog)`.

*The condition.*  `VotesKept` is about one kind of step, the one in which `handle_begin`
stores the value of a BEGIN over what is pending in the store: it must not replace a value
that was stored under a higher number.  No restart is excluded.  Any monitor, a leader that
has just proposed or is writing a commit too, may die at any moment and come back with an
older promise, collect, be elected, learn and trim; what the theorems say of a behaviour
holds up to the first such overwriting.  The code does not exclude it:
`handle_collect` puts `accepted_pn` into the store and `collect` does not, so a leader that
has stored a value in `begin` and dies reads an older promise in `init` and may accept a BEGIN
below it.  Without the condition `Agreement` is false, as `paxos_forgotten_promise` shows, and
the theorem says that whenever two values are committed under one version, a step of
this kind has come before.  It does not say that each such step does harm.  It is not known
whether `StoreIsWhole` needs the condition; it comes out of the same invariant.

*Questions and answers* (`AskInv`, no condition).  A leader may collect several times in an
epoch, each time under a larger number, and LASTs of earlier questions, of peons that
restarted and of earlier epochs may still be under way.  `AskInv` follows each channel: no LAST
comes after the one for the leader's present number (`AnsweredOnce`), that number was asked
for in its epoch only (`AskedThen`), and the LASTs a leader has counted are of different monitors, which no
longer have an answer on its way (`LeadA`).  So it stops recovering when everyone in its
quorum has answered, and `TimersOK`, the inductive form of `TimersMatchState`, is kept.

*Votes* (`Core`).  There is a set `H` of votes (monitor p stored x as version v under number
b) and a set `K` of committed versions.  Every vote is `Safe`: under every smaller number a
majority has voted for the same value, or has promised more and not voted (`Backers`).
`MonB` ties a store to `H` and `K`: it is whole, what is committed in it is in `K`, its pending
value is a vote.  `Chosen` says that `K` has one value for a version, that a majority voted for
it under one number, and that trims only go up.  `MsgB` says what COMMIT, LAST and BEGIN carry,
`LeadB` what a leader knows: while it recovers, all that those who answered have voted for
under smaller numbers (`Reported`); afterwards, that its quorum is bound by its number; in a
round, that those in `accepted` have voted.  Its heart is `ReadySafe`: when all have answered,
the value that `handle_last` has picked, or any value if there is none, is safe under the
leader's number.  Votes for one version are then for one value wherever a majority agrees,
whence `Agreement`; the voters of a committed version still have it, or have trimmed it with a
later commit, whence `CommittedIsDurable`.

A handler is a long chain of calls, and `Core` does not hold of pieces cut anywhere.
`VoteProofs` therefore treats the small steps of one monitor after which the invariant holds
again (`CollectsA`, `AnswersB`, `Begins`, `Accepts`, ...), and `AgreementProofs` composes the
calls of the code from these (`Ends`, with one lemma for each call, handler and action).
`AgreeInv` quantifies over `H` and `K`, so TLC cannot evaluate it; it is established by proof
alone.  A monitor that is alone in its monmap (`N = 1`) votes for nothing and is a case apart.

*The log.*  `PaxosImplements` needs one invariant more, `LogInv`: there is a last version
`L`, every version up to it is committed, and neither a store nor a message on its way is
beyond it (`Top`).  `At` follows a call: it ends at a version, and what it has sent knows of
no later one.  So a step leaves its monitor where it was, or at a version that its message
knew of (`Log!Learn`), or one further (`Log!Extend`; when that is a version others have
already, `Log!Learn` again).  `Agreement` makes the entries of the log stay what they were
(`SameValues`).  With `N = 1` the statement is another one: `commit_finish`
of a lone leader may begin and write the next version at once, `wait_for_paxos_write` ends
that one too, and so `bootstrap` can make two versions known in one step.

Assumptions: `NAssumption`, `TrimAssumption` and `BoundAssumption` of `Paxos`.

Three modules prove every safety property of `PaxosService`, for any number of services
and requests and every value of the bounds.

* `PaxosServiceProofs`: `ServiceTypes` (`Spec => []TypeInv`) and `BatchAtomic`
  (`Spec => []BatchIsAtomic`).  `BatchInv` says that every transaction has both changes of
  a batch or none, except between its two proposals: then the agenda begins with them
  (`BatchBegun`), or with the second one while the transaction of Paxos holds the change of
  the other service (`BatchPlugged`).  No timer, round or request gets in between, for
  they need the lock.
* `ServiceLifeProofs`: `ServiceLife` (`Spec => []Life`), and from it `ServiceAssertions`
  (`AssertionsHold`) and `ServiceHears` (`ProposalIsHeardOf`).  `Life` has two halves.  A
  monitor that is leaving its quorum (`Resetting`) has dropped all that Paxos had in the
  works; what its services still hold has a `restart` or a `discard` ahead of it on the
  agenda (`Leaving`).  In a quorum (`Member`) a service has at most one *token*: a pending
  value, a call or a context that will make it active (`Wakes`), or the `C_Committed` of
  its proposal (`Tells`).  The number of tokens is what no single handler shows: each one
  takes a token from one list and puts it into another, and a second one would let
  `propose_pending` run during a proposal.  `RoundInv` and `QueueInv` tie the states of
  Paxos to what is left on the agenda, `ProposeInv` says that proposals come first on it.
  The counting rests on lemmas about `Count` (concatenation, `Append`, `Tail`, `Finish`,
  `ForEach`).
* `ServiceCommitProofs`: `ServiceWay` (`Spec => [](AckInv /\ OrderInv)`), and from it
  `ServiceAcks` (`AckedIsCommitted`) and `ServiceOrder` (`OtherComesFirst`).  A change is
  pending, encoded into the transaction, under way, and in the log; `AckInv` says that a
  request that waits to be acknowledged is somewhere on this way (`OnItsWay`), with the
  `C_Committed` of its service in the list that belongs to that stage, and `OrderInv` that
  the change of the other service is at least as far.  Every step of a quorum `Keeps`,
  `Begins` or `Commits`, and `WayForward` shows once that none of these loses a change.
  With the tokens of `Life`: when a service becomes active it has no `C_Committed`
  waiting and nothing pending, so what waits for it is in the log (`WokenIsLogged`).

Assumptions of the three: `OpAssumption`, `OrderAssumption` (the services of
`Monitor::paxos_service` are distinct), `ServiceBounds`, and `NoneAssumption` (None is no
transaction).

`MDSTableProofs` proves of `MDSTable`, for every set of ranks and every value of the bounds:

* `TableReplayRebuilds`: `Spec => []ReplayRebuilds`;
* `TableAssertionsHold`: `Spec => []AssertionsHold`.

Both follow from `TableInvariant` (`Spec => []TableInv`).  Its server half (`ServerInv`) says
that the journal `Leads` from every table object to the table in memory: every entry that is
not passed over is the next version and, if it decides a transaction, finds it pending.  That
a replay lands on the right table is not enough for an induction, because a crash cuts the
journal anywhere behind `safe`; every entry must apply where it stands (`LeadsOn`,
`LeadsBack`).  The versions grow along the journal and a PREPARE makes its version the tid
(`Growing`), so what has been answered (`Answered`, the version of the last safe entry) never
decreases, not even when the server dies (`LoggedStep`, `ServerDies`).  The client half
(`ClientOK`) says that the tids of UPDATEs and of answers on their way grow along the journal
and then along the channel (`Learns`) up to `Answered` (`Known`), and so do the tids that are
committed (`Sent`): hence no tid is learnt twice, a COMMIT is never beyond the version of the
table, and what is journaled is still prepared (`Prepared`) although an earlier UPDATE has
taken its own tid out.  `ServerReadyOK` says that a client that is not there together with
the server is not ready and has no SERVER_READY on its way, and that otherwise at most one of
the two is the case.  There is one lemma for each action; `Locally` and `Globally` put them
together.

Assumptions: `RankAssumption` and `KindAssumption` of `MDSTable`.

Only model-checked: liveness (`EventuallyStable`, `QuorumWorks`, `EventuallyAcked`,
`EventuallyTogether`, `EventuallySettled`, `EventuallyClean`), which TLAPS does not
reach.  Of `Paxos`: `AssertionsHold` and `ReadsCurrent`, which need invariants of
their own about the leases and the order of LEASE, BEGIN and COMMIT in a channel, and about
which leader a peon takes for its own; and the refinement of `ReplicatedLog` where
`PaxosImplements` says nothing of it, which is after a vote was lost.  Of
`MDSTable`: `RealmInTable`, `SafePurge` and `UniqueSnapIds`, which one crash cannot break and
two can (see the note under the runs), so that they are no theorems.  All of `PGReservations` and all of `MonSync`.

## Not modelled

* Time and clock drift: leases end by being cancelled, timers by firing.
* The exchange of monmaps by probes, and the forming of the first cluster.
* What the services keep: maps, keys, commands.  `PaxosService` has their changes as
  members of a set.
* The values of Paxos in `MonSync`: whether a synchronization can bring in a value
  that was accepted and not committed is an open hazard in `PROJECT.json`.
* Peering, PG logs, the objects that are recovered; of a scrub only its end.
* The MDS cache, its locks and its migrations.
* Watch and notify, object locks, librbd, the journaling library, the messenger, the
  object stores, CRUSH, the gateway and the clients: outside the core chosen here.

## Plan

1. Done: `Elector`, `Election`, `Paxos`, `ReplicatedLog`, `PaxosService`, `MonSync`,
   `MDSTable`, `AsyncReserver`, `PGReservations`; the proofs about `Elector` and `PaxosService`,
   those about `Paxos` up to the refinement of `ReplicatedLog`, and the replay and the assertions of `MDSTable`.
2. Proofs: `ReadsCurrent` and `AssertionsHold` of `Paxos`; `SlotsOwned` of `PGReservations`.
3. `MonSync` with values; two requesters of one provider.
4. Watch and notify, and above it the exclusive lock of librbd.
