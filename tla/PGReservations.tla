--------------------------- MODULE PGReservations ---------------------------
(***************************************************************************)
(* The reservations that a placement group takes before it recovers or      *)
(* backfills: the states of PG::RecoveryState from Activating to Clean at   *)
(* the primary, and those of ReplicaActive (src/src/osd/PG.cc, PG.h), the   *)
(* messages MRecoveryReserve and MBackfillReserve (OSD.cc), and what        *)
(* PrimaryLogPG.cc queues when recovery or backfill ends or is given up.    *)
(*                                                                          *)
(* A primary takes a slot of its own OSD (local_reserver), then a slot of   *)
(* the remote_reserver of every other OSD, one after the other.             *)
(*                                                                          *)
(* Peering is not modelled: a new interval resets the PG on each of its     *)
(* OSDs, at a time of its own, and Activate ends the peering.  The OSDs of  *)
(* a PG stay the same: one that fails, or that aborts because a state       *)
(* machine has got an event it has no reaction to, is there again for the   *)
(* next interval.                                                           *)
(***************************************************************************)
EXTENDS AsyncReserver

CONSTANTS
  OSDs, PGs,
  Clusters       \* initial states, with their bounds: see ClusterAssumption

\* What may go wrong
Troubles ==
  {"interval",   \* a new interval that no failure of an OSD brings
   "config",     \* a change of osd_max_backfills or osd_min_recovery_priority
   "full",       \* an OSD is found too full
   "giveup",     \* recovery or backfill is given up with unfound objects
   "error",      \* a scrub or a read finds an error
   "failure"}    \* an OSD fails of itself

\* A layout says where a PG is: its primary, the other OSDs that are acting or
\* are backfilled, and which of these are backfilled.  osd_max_backfills begins with max
\* and may be set to one of slots, osd_min_recovery_priority begins with 0 and may be set
\* to one of priorities: a PG whose priority is below waits.
ASSUME ClusterAssumption ==
  /\ OSDs \subseteq Nat
  /\ \A c \in Clusters :
       /\ {c.max} \cup c.slots \cup c.priorities \subseteq Nat
       /\ DOMAIN c.layout \subseteq PGs
       /\ \A p \in DOMAIN c.layout :
            /\ c.layout[p].primary \in OSDs
            /\ c.layout[p].others \subseteq OSDs \ {c.layout[p].primary}
            /\ c.layout[p].targets \subseteq c.layout[p].others
       /\ c.left \in [Troubles \cup {"all"} -> Nat]

VARIABLES
  cluster,   \* the member of Clusters that this one is
  epoch,     \* epoch[p]: the map in which the interval of p began
  st,        \* st[o][p]: state of p's state machine on o
  reset,     \* reset[o][p]: last_peering_reset
  events,    \* events[o][p]: peering queue of p on o
  osd,       \* osd[o]: the reservers and the finisher of o
  toRep,     \* toRep[p][o]: messages from the primary of p to o
  toPri,     \* toPri[p][o]: messages from o to the primary of p
  asked,     \* asked[p]: the OSDs that the iterator over the shards has passed
  needs,     \* needs[p]: what p has to do, of "recovery" and "backfill"
  flags,     \* flags[p]: "eio" is eio_errors_to_process, "repaired" says that a
             \* scrub has cleared PG_STATE_CLEAN in the state Clean
  scans,     \* scan requests under way to a backfill target
  waiting,   \* waiting[p]: waiting_on_backfill
  timers,    \* retries that are scheduled
  left       \* bound: left[t], how often trouble t may still come; left["all"], all together

queues == <<events, toRep, toPri>>
work == <<needs, flags, scans, waiting>>
vars == <<cluster, epoch, st, reset, queues, osd, asked, work, timers, left>>

Placed == DOMAIN cluster.layout
Primary(p) == cluster.layout[p].primary
Others(p) == cluster.layout[p].others
Targets(p) == cluster.layout[p].targets
Members(p) == Others(p) \cup {Primary(p)}
Used == UNION {Members(p) : p \in Placed}

Recovery == 2   \* OSD_RECOVERY_PRIORITY_BASE
Backfill == 1   \* OSD_BACKFILL_PRIORITY_BASE

\* The events that each state reacts to; any other is a "bad state machine
\* event", and the OSD aborts.
Reactions(s) ==
  LET active == {"Backfilled"}
  IN  CASE s = "Activating" -> active \cup {"AllReplicasRecovered", "DoRecovery",
                                            "RequestBackfill"}
        [] s = "WaitLocalRecoveryReserved" -> active \cup {"LocalRecoveryReserved"}
        [] s = "WaitRemoteRecoveryReserved" -> active \cup {"RemoteRecoveryReserved"}
        [] s = "Recovering" -> active \cup {"AllReplicasRecovered", "CancelRecovery",
                                            "RequestBackfill"}
        [] s = "NotRecovering" -> active \cup {"DoRecovery", "CancelRecovery"}
        [] s = "WaitLocalBackfillReserved" -> active \cup {"LocalBackfillReserved"}
        [] s = "WaitRemoteBackfillReserved" -> active \cup {"RemoteBackfillReserved",
                                                            "RemoteReservationRejected"}
        [] s = "Backfilling" -> active \cup {"CancelBackfill", "RemoteReservationRejected"}
        [] s = "NotBackfilling" -> active \cup {"RequestBackfill", "RemoteBackfillReserved",
                                                "RemoteReservationRejected"}
        [] s = "Clean" -> active \cup {"DoRecovery"}
        [] s = "RepNotRecovering" -> {"RequestBackfillPrio", "RequestRecovery", "RecoveryDone"}
        [] s = "RepWaitRecoveryReserved" -> {"RemoteRecoveryReserved"}
        [] s = "RepWaitBackfillReserved" -> {"RemoteBackfillReserved",
                                             "RemoteReservationRejected"}
        [] s = "RepRecovering" -> {"RecoveryDone", "RemoteReservationRejected",
                                   "BackfillTooFull"}
        [] OTHER -> {}

\* Bound: trouble t may come once more
MayCome(t) == left[t] > 0 /\ left["all"] > 0
Trouble(t) == MayCome(t) /\ left' = [left EXCEPT ![t] = @ - 1, !["all"] = @ - 1]

Event(name, e) == [name |-> name, epoch |-> e]

\* The reservers of an OSD that has started
Started(max, min) ==
  [local |-> EmptyReserver(max, min), remote |-> EmptyReserver(max, min), finisher |-> <<>>]

-----------------------------------------------------------------------------
(* Steps of a PG *)

\* The next event of p on o
Next1(o, p) == Head(events[o][p])

\* Mutant: the epoch of an event is not looked at
OldIsNew(o, p) == Next1(o, p).epoch < 0

\* old_peering_evt
Old(o, p) == Next1(o, p).epoch < reset[o][p]

\* handle_peering_event: the next event of p on o is name, and not an old one
Comes(o, p, name) ==
  /\ events[o][p] # <<>> /\ ~Old(o, p) /\ Next1(o, p).name = name
  /\ events' = [events EXCEPT ![o][p] = Tail(@)]

In(o, p, S) == st[o][p] \in S
Goto(o, p, s) == st' = [st EXCEPT ![o][p] = s]

\* queue_peering_event
Queued(ev, o, p, name, e) == [ev EXCEPT ![o][p] = Append(@, Event(name, e))]

\* The reserver which of osd x, and the callbacks on the finisher, after r
Updated(x, which, r) ==
  [x EXCEPT ![which] = r.reserver, !.finisher = @ \o r.callbacks]

Requested(x, which, p, name, e, prio) ==
  Updated(x, which, RequestReservation(x[which], p,
                      [pg |-> p, name |-> name, epoch |-> e], prio))

Canceled(x, which, p) == Updated(x, which, CancelReservation(x[which], p))

ReserveLocal(o, p, name, prio) ==
  osd' = [osd EXCEPT ![o] = Requested(@, "local", p, name, reset[o][p], prio)]
ReserveRemote(o, p, name, prio) ==
  osd' = [osd EXCEPT ![o] = Requested(@, "remote", p, name, reset[o][p], prio)]
CancelLocal(o, p) == osd' = [osd EXCEPT ![o] = Canceled(@, "local", p)]
CancelRemote(o, p) == osd' = [osd EXCEPT ![o] = Canceled(@, "remote", p)]

\* Messages of the primary of p to the OSDs of S
SentTo(ch, p, S, name) ==
  [ch EXCEPT ![p] = [o \in OSDs |->
     IF o \in S THEN Append(@[o], Event(name, reset[Primary(p)][p])) ELSE @[o]]]

\* A message of o to the primary of p
Reply(o, p, name) ==
  toPri' = [toPri EXCEPT ![p][o] = Append(@, Event(name, reset[o][p]))]

\* schedule_backfill_full_retry, schedule_recovery_full_retry
Schedule(o, p, name) ==
  timers' = timers \cup {[osd |-> o, pg |-> p, name |-> name, epoch |-> reset[o][p]]}

\* The iterator goes through the set of shards in the order of their OSDs.
NextShard(S, done) == {o \in S \ done : \A u \in S \ done : o <= u}

\* WaitRemote...Reserved: ask the next shard of S, or go on to the state goal
\* when all are passed
AskNext(p, S, done, ch, request, wait, goal) ==
  IF S \subseteq done
  THEN /\ Goto(Primary(p), p, goal)
       /\ toRep' = ch
       /\ asked' = [asked EXCEPT ![p] = done]
  ELSE \E o \in NextShard(S, done) :
         /\ Goto(Primary(p), p, wait)
         /\ toRep' = SentTo(ch, p, {o}, request)
         /\ asked' = [asked EXCEPT ![p] = done \cup {o}]

AskRecovery(p, done) ==
  AskNext(p, Others(p), done, toRep, "RequestRecovery",
          "WaitRemoteRecoveryReserved", "Recovering")
AskBackfill(p, done, ch) ==
  AskNext(p, Targets(p), done, ch, "RequestBackfillPrio",
          "WaitRemoteBackfillReserved", "Backfilling")

-----------------------------------------------------------------------------
(* The primary *)

\* WaitLocalRecoveryReserved: full OSDs put it off
HandleDoRecovery(p) ==
  LET o == Primary(p)
  IN  /\ In(o, p, {"Activating", "NotRecovering", "Clean"}) /\ Comes(o, p, "DoRecovery")
      /\ \/ /\ Goto(o, p, "WaitLocalRecoveryReserved")
            /\ ReserveLocal(o, p, "LocalRecoveryReserved", Recovery)
            /\ UNCHANGED <<timers, left>>
         \/ /\ Trouble("full")
            /\ Goto(o, p, "NotRecovering") /\ Schedule(o, p, "DoRecovery")
            /\ UNCHANGED osd
      /\ UNCHANGED <<cluster, epoch, reset, toRep, toPri, asked, work>>

HandleLocalRecoveryReserved(p) ==
  LET o == Primary(p)
  IN  /\ In(o, p, {"WaitLocalRecoveryReserved"}) /\ Comes(o, p, "LocalRecoveryReserved")
      /\ AskRecovery(p, {})
      /\ UNCHANGED <<cluster, epoch, reset, toPri, osd, work, timers, left>>

HandleRemoteRecoveryReserved(p) ==
  LET o == Primary(p)
  IN  /\ In(o, p, {"WaitRemoteRecoveryReserved"}) /\ Comes(o, p, "RemoteRecoveryReserved")
      /\ AskRecovery(p, asked[p])
      /\ UNCHANGED <<cluster, epoch, reset, toPri, osd, work, timers, left>>

\* Recovering, release_reservations: the local slot is kept for the backfill
HandleRequestBackfill(p) ==
  LET o == Primary(p)
  IN  /\ Comes(o, p, "RequestBackfill")
      /\ \/ /\ In(o, p, {"Activating", "NotBackfilling"})
            /\ Goto(o, p, "WaitLocalBackfillReserved")
            /\ ReserveLocal(o, p, "LocalBackfillReserved", Backfill)
            /\ UNCHANGED <<toRep, asked>>
         \/ /\ In(o, p, {"Recovering"})
            /\ AskBackfill(p, {}, SentTo(toRep, p, Others(p), "RecoveryDone"))
            /\ UNCHANGED osd
      /\ UNCHANGED <<cluster, epoch, reset, toPri, work, timers, left>>

HandleLocalBackfillReserved(p) ==
  LET o == Primary(p)
  IN  /\ In(o, p, {"WaitLocalBackfillReserved"}) /\ Comes(o, p, "LocalBackfillReserved")
      /\ AskBackfill(p, {}, toRep)
      /\ UNCHANGED <<cluster, epoch, reset, toPri, osd, work, timers, left>>

HandleRemoteBackfillReserved(p) ==
  LET o == Primary(p)
  IN  /\ Comes(o, p, "RemoteBackfillReserved")
      /\ \/ /\ In(o, p, {"WaitRemoteBackfillReserved"}) /\ AskBackfill(p, asked[p], toRep)
         \/ /\ In(o, p, {"NotBackfilling"}) /\ UNCHANGED <<st, toRep, asked>>
      /\ UNCHANGED <<cluster, epoch, reset, toPri, osd, work, timers, left>>

\* The OSDs that have granted: all that were asked but the last
Granted(p) == {o \in asked[p] : \E u \in asked[p] : o < u}

\* RemoteReservationRejected at the primary
HandleRejected(p) ==
  LET o == Primary(p)
  IN  /\ Comes(o, p, "RemoteReservationRejected")
      /\ \/ /\ In(o, p, {"WaitRemoteBackfillReserved", "Backfilling"})
            /\ CancelLocal(o, p)
            /\ toRep' = SentTo(toRep, p, IF In(o, p, {"Backfilling"}) THEN Targets(p)
                                         ELSE Granted(p), "RemoteReservationRejected")
            /\ waiting' = IF In(o, p, {"Backfilling"}) THEN [waiting EXCEPT ![p] = {}]
                          ELSE waiting
            /\ Schedule(o, p, "RequestBackfill") /\ Goto(o, p, "NotBackfilling")
         \/ /\ In(o, p, {"NotBackfilling"})
            /\ UNCHANGED <<osd, toRep, waiting, timers, st>>
      /\ UNCHANGED <<cluster, epoch, reset, toPri, asked, needs, flags, scans, left>>

HandleCancelBackfill(p) ==
  LET o == Primary(p)
  IN  /\ In(o, p, {"Backfilling"}) /\ Comes(o, p, "CancelBackfill")
      /\ CancelLocal(o, p)
      /\ toRep' = SentTo(toRep, p, Targets(p), "RemoteReservationRejected")
      /\ waiting' = [waiting EXCEPT ![p] = {}]
      /\ Schedule(o, p, "RequestBackfill") /\ Goto(o, p, "NotBackfilling")
      /\ UNCHANGED <<cluster, epoch, reset, toPri, asked, needs, flags, scans, left>>

HandleCancelRecovery(p) ==
  LET o == Primary(p)
  IN  /\ Comes(o, p, "CancelRecovery")
      /\ \/ /\ In(o, p, {"Recovering"})
            /\ CancelLocal(o, p)
            /\ toRep' = SentTo(toRep, p, Others(p), "RecoveryDone")
            /\ Schedule(o, p, "DoRecovery") /\ Goto(o, p, "NotRecovering")
         \/ /\ In(o, p, {"NotRecovering"}) /\ UNCHANGED <<osd, toRep, timers, st>>
      /\ UNCHANGED <<cluster, epoch, reset, toPri, asked, work, left>>

\* Clean, mark_clean
MarkClean(p) ==
  Goto(Primary(p), p, "Clean") /\ flags' = [flags EXCEPT ![p] = @ \ {"repaired"}]

\* Recovered gives the local slot back and goes on to Clean: all replicas have
\* been activated before.
HandleAllReplicasRecovered(p) ==
  LET o == Primary(p)
  IN  /\ In(o, p, {"Activating", "Recovering"}) /\ Comes(o, p, "AllReplicasRecovered")
      /\ CancelLocal(o, p)
      /\ toRep' = IF In(o, p, {"Recovering"}) THEN SentTo(toRep, p, Others(p), "RecoveryDone")
                                              ELSE toRep
      /\ MarkClean(p)
      /\ UNCHANGED <<cluster, epoch, reset, toPri, asked, needs, scans, waiting, timers, left>>

HandleBackfilled(p) ==
  LET o == Primary(p)
  IN  /\ Comes(o, p, "Backfilled")
      /\ IF In(o, p, {"Backfilling"}) THEN CancelLocal(o, p) /\ MarkClean(p)
                                      ELSE UNCHANGED <<osd, st, flags>>
      /\ UNCHANGED <<cluster, epoch, reset, toRep, toPri, asked, needs, scans, waiting, timers, left>>

-----------------------------------------------------------------------------
(* The others *)

HandleRequestRecovery(o, p) ==
  /\ In(o, p, {"RepNotRecovering"}) /\ Comes(o, p, "RequestRecovery")
  /\ Goto(o, p, "RepWaitRecoveryReserved")
  /\ ReserveRemote(o, p, "RemoteRecoveryReserved", Recovery)
  /\ UNCHANGED <<cluster, epoch, reset, toRep, toPri, asked, work, timers, left>>

HandleRequestBackfillPrio(o, p) ==
  /\ In(o, p, {"RepNotRecovering"}) /\ Comes(o, p, "RequestBackfillPrio")
  /\ \/ /\ Trouble("full")
        /\ Reply(o, p, "RemoteReservationRejected")
        /\ UNCHANGED <<st, osd>>
     \/ /\ Goto(o, p, "RepWaitBackfillReserved")
        /\ ReserveRemote(o, p, "RemoteBackfillReserved", Backfill)
        /\ UNCHANGED <<toPri, left>>
  /\ UNCHANGED <<cluster, epoch, reset, toRep, asked, work, timers>>

HandleReplicaReserved(o, p) ==
  \/ /\ In(o, p, {"RepWaitRecoveryReserved"}) /\ Comes(o, p, "RemoteRecoveryReserved")
     /\ Goto(o, p, "RepRecovering") /\ Reply(o, p, "RemoteRecoveryReserved")
     /\ UNCHANGED <<cluster, epoch, reset, osd, toRep, asked, work, timers, left>>
  \/ /\ In(o, p, {"RepWaitBackfillReserved"}) /\ Comes(o, p, "RemoteBackfillReserved")
     /\ \/ /\ Trouble("full")
           /\ CancelRemote(o, p)
           /\ Goto(o, p, "RepNotRecovering") /\ Reply(o, p, "RemoteReservationRejected")
        \/ /\ Goto(o, p, "RepRecovering") /\ Reply(o, p, "RemoteBackfillReserved")
           /\ UNCHANGED <<osd, left>>
     /\ UNCHANGED <<cluster, epoch, reset, toRep, asked, work, timers>>

\* Mutant: a replica that has done its part keeps its slot
ReplicaKeepsSlot(o, p) ==
  /\ In(o, p, {"RepRecovering", "RepNotRecovering"}) /\ Comes(o, p, "RecoveryDone")
  /\ Goto(o, p, "RepNotRecovering")
  /\ UNCHANGED <<cluster, epoch, reset, osd, toRep, toPri, asked, work, timers, left>>

\* RecoveryDone: RepRecovering::exit gives the slot back
HandleReplicaDone(o, p) ==
  /\ In(o, p, {"RepRecovering", "RepNotRecovering"}) /\ Comes(o, p, "RecoveryDone")
  /\ Goto(o, p, "RepNotRecovering")
  /\ IF In(o, p, {"RepRecovering"}) THEN CancelRemote(o, p) ELSE UNCHANGED osd
  /\ UNCHANGED <<cluster, epoch, reset, toRep, toPri, asked, work, timers, left>>

\* RemoteReservationRejected of the primary: RepRecovering::exit gives the slot
\* back; RepWaitBackfillReserved answers in kind and leaves its request queued.
HandleReplicaRejected(o, p) ==
  /\ In(o, p, {"RepRecovering", "RepWaitBackfillReserved"})
  /\ Comes(o, p, "RemoteReservationRejected")
  /\ Goto(o, p, "RepNotRecovering")
  /\ IF In(o, p, {"RepRecovering"}) THEN CancelRemote(o, p) /\ UNCHANGED toPri
     ELSE Reply(o, p, "RemoteReservationRejected") /\ UNCHANGED osd
  /\ UNCHANGED <<cluster, epoch, reset, toRep, asked, work, timers, left>>

HandleBackfillTooFull(o, p) ==
  /\ In(o, p, {"RepRecovering"}) /\ Comes(o, p, "BackfillTooFull")
  /\ Reply(o, p, "RemoteReservationRejected")
  /\ UNCHANGED <<cluster, epoch, st, reset, osd, toRep, asked, work, timers, left>>

-----------------------------------------------------------------------------
(* What happens around the state machine *)

\* OSD::handle_pg_recovery_reserve and handle_pg_backfill_reserve: a message of
\* a later epoch waits for the map.
ReceiveAtReplica(o, p) ==
  /\ toRep[p][o] # <<>> /\ Head(toRep[p][o]).epoch <= reset[o][p]
  /\ events' = [events EXCEPT ![o][p] = Append(@, Head(toRep[p][o]))]
  /\ toRep' = [toRep EXCEPT ![p][o] = Tail(@)]
  /\ UNCHANGED <<cluster, epoch, st, reset, osd, toPri, asked, work, timers, left>>

ReceiveAtPrimary(o, p) ==
  /\ toPri[p][o] # <<>> /\ Head(toPri[p][o]).epoch <= reset[Primary(p)][p]
  /\ events' = [events EXCEPT ![Primary(p)][p] = Append(@, Head(toPri[p][o]))]
  /\ toPri' = [toPri EXCEPT ![p][o] = Tail(@)]
  /\ UNCHANGED <<cluster, epoch, st, reset, osd, toRep, asked, work, timers, left>>

\* An old event is passed over.
DropOld(o, p) ==
  /\ events[o][p] # <<>> /\ Old(o, p)
  /\ events' = [events EXCEPT ![o][p] = Tail(@)]
  /\ UNCHANGED <<cluster, epoch, st, reset, osd, toRep, toPri, asked, work, timers, left>>

\* The finisher runs a callback: QueuePeeringEvt::finish
FinisherStep(o) ==
  /\ osd[o].finisher # <<>>
  /\ LET c == Head(osd[o].finisher)
     IN  events' = Queued(events, o, c.pg, c.name, c.epoch)
  /\ osd' = [osd EXCEPT ![o].finisher = Tail(@)]
  /\ UNCHANGED <<cluster, epoch, st, reset, toRep, toPri, asked, work, timers, left>>

\* A retry of the recovery_request_timer
Retry ==
  \E t \in timers :
    /\ timers' = timers \ {t}
    /\ events' = Queued(events, t.osd, t.pg, t.name, t.epoch)
    /\ UNCHANGED <<cluster, epoch, st, reset, osd, toRep, toPri, asked, work, left>>

\* do_recovery of p goes on, also when it has given up and the state machine does not
\* know yet: each recovery operation that ends queues the PG again.
Goes(p, what) == what \in needs[p]

Tell(p, name) == events' = Queued(events, Primary(p), p, name, reset[Primary(p)][p])

\* start_recovery_ops, with PG_STATE_RECOVERING: all is recovered.  The flag is
\* cleared with it, so that this happens once.
RecoveryEnds(p) ==
  /\ In(Primary(p), p, {"Recovering"}) /\ Goes(p, "recovery")
  /\ needs' = [needs EXCEPT ![p] = @ \ {"recovery"}]
  /\ flags' = [flags EXCEPT ![p] = IF "backfill" \in needs[p] THEN @ ELSE @ \ {"eio"}]
  /\ Tell(p, IF "backfill" \in needs[p] THEN "RequestBackfill" ELSE "AllReplicasRecovered")
  /\ UNCHANGED <<cluster, epoch, st, reset, osd, toRep, toPri, asked, scans, waiting, timers, left>>

\* recover_backfill asks every target for a digest; this matters as long as a
\* target may be found full.
Scan(p) ==
  /\ In(Primary(p), p, {"Backfilling"}) /\ Goes(p, "backfill") /\ waiting[p] = {}
  /\ MayCome("full")
  /\ waiting' = [waiting EXCEPT ![p] = Targets(p)]
  /\ scans' = scans \cup {[osd |-> o, pg |-> p, epoch |-> reset[Primary(p)][p]] : o \in Targets(p)}
  /\ UNCHANGED <<cluster, epoch, st, reset, queues, osd, asked, needs, flags, timers, left>>

\* do_scan at a target, which goes through the queue of the operations and not
\* with the messages about reservations, and its answer
AnswerScan ==
  \E s \in scans :
    /\ s.epoch <= reset[s.osd][s.pg]
    /\ scans' = scans \ {s}
    /\ IF s.epoch < reset[s.osd][s.pg] THEN UNCHANGED <<events, waiting, left>>
       ELSE \/ /\ waiting' = [waiting EXCEPT ![s.pg] = @ \ {s.osd}]
               /\ UNCHANGED <<events, left>>
            \/ /\ Trouble("full")
               /\ events' = Queued(events, s.osd, s.pg, "BackfillTooFull", s.epoch)
               /\ UNCHANGED waiting
    /\ UNCHANGED <<cluster, epoch, st, reset, osd, toRep, toPri, asked, needs, flags, timers>>

\* Backfill ends: every target has got OP_BACKFILL_FINISH, which makes it queue
\* RecoveryDone, and has acked it.
BackfillEnds(p) ==
  LET o == Primary(p)
  IN  /\ In(o, p, {"Backfilling"}) /\ Goes(p, "backfill") /\ waiting[p] = {}
      /\ \A u \in Targets(p) : reset[u][p] = reset[o][p]
      /\ needs' = [needs EXCEPT ![p] = @ \ {"backfill"}]
      /\ flags' = [flags EXCEPT ![p] = @ \ {"eio"}]
      /\ events' = [u \in OSDs |-> [events[u] EXCEPT ![p] =
                      IF u = o THEN Append(@, Event("Backfilled", reset[o][p]))
                      ELSE IF u \in Targets(p) THEN Append(@, Event("RecoveryDone", reset[o][p]))
                      ELSE @]]
      /\ UNCHANGED <<cluster, epoch, st, reset, osd, toRep, toPri, asked, scans, waiting, timers, left>>

\* do_recovery gives up: objects are unfound
GiveUp(p) ==
  /\ Trouble("giveup")
  /\ \/ /\ In(Primary(p), p, {"Recovering"}) /\ Goes(p, "recovery")
        /\ Tell(p, "CancelRecovery")
     \/ /\ In(Primary(p), p, {"Backfilling"}) /\ Goes(p, "backfill")
        /\ Tell(p, "CancelBackfill")
  /\ UNCHANGED <<cluster, epoch, st, reset, osd, toRep, toPri, asked, work, timers>>

\* PG_STATE_CLEAN, and another copy to repair from
Repairable(p) ==
  In(Primary(p), p, {"Clean"}) /\ "repaired" \notin flags[p] /\ Others(p) # {}

Damage(p, set) ==
  /\ Trouble("error")
  /\ needs' = [needs EXCEPT ![p] = @ \cup {"recovery"}]
  /\ flags' = [flags EXCEPT ![p] = @ \cup set]
  /\ UNCHANGED <<cluster, epoch, st, reset, osd, toRep, toPri, asked, scans, waiting, timers>>

\* scrub_finish of a repair, which has found errors.  A scrub asserts that there are
\* no backfill targets.
ScrubFinish(p) ==
  /\ Repairable(p) /\ Targets(p) = {}
  /\ Damage(p, {"repaired"})
  /\ Tell(p, "DoRecovery")

\* rep_repair_primary_object: a read has failed
ReadError(p) ==
  /\ Repairable(p)
  /\ Damage(p, {"eio"})
  /\ IF "eio" \in flags[p] THEN UNCHANGED events ELSE Tell(p, "DoRecovery")

\* OSD::handle_conf_change
Configure(o) ==
  /\ Trouble("config")
  /\ \/ \E n \in cluster.slots :
          LET l == Updated(osd[o], "local", SetMax(osd[o].local, n))
          IN  osd' = [osd EXCEPT ![o] = Updated(l, "remote", SetMax(l.remote, n))]
     \/ \E n \in cluster.priorities :
          LET l == Updated(osd[o], "local", SetMinPriority(osd[o].local, n))
          IN  osd' = [osd EXCEPT ![o] = Updated(l, "remote", SetMinPriority(l.remote, n))]
  /\ UNCHANGED <<cluster, epoch, st, reset, queues, asked, work, timers>>

-----------------------------------------------------------------------------
(* Intervals *)

\* A new interval of p: a map that changes it.
NewInterval(p) ==
  /\ Trouble("interval")
  /\ epoch' = [epoch EXCEPT ![p] = @ + 1]
  /\ UNCHANGED <<cluster, st, reset, queues, osd, asked, work, timers>>

\* OSD o stops and starts again, with nothing of what it had in memory, and what was
\* under way to it is lost.  Its PGs have a new interval.
Restart(o) ==
  LET mine == {p \in Placed : o \in Members(p)}
      led  == {p \in Placed : o = Primary(p)}
  IN  /\ epoch' = [p \in PGs |-> IF p \in mine THEN epoch[p] + 1 ELSE epoch[p]]
      /\ reset' = [reset EXCEPT ![o] = [p \in PGs |-> IF p \in mine THEN epoch'[p] ELSE @[p]]]
      /\ st' = [st EXCEPT ![o] = [p \in PGs |-> "Peering"]]
      /\ events' = [events EXCEPT ![o] = [p \in PGs |-> <<>>]]
      /\ osd' = [osd EXCEPT ![o] = Started(@.local.max, @.local.min)]
      /\ toRep' = [p \in PGs |-> [u \in OSDs |-> IF p \in led \/ u = o THEN <<>> ELSE toRep[p][u]]]
      /\ toPri' = [p \in PGs |-> [u \in OSDs |-> IF p \in led \/ u = o THEN <<>> ELSE toPri[p][u]]]
      /\ scans' = {s \in scans : s.osd # o /\ s.pg \notin led}
      /\ waiting' = [p \in PGs |-> IF p \in led THEN {} ELSE waiting[p]]
      /\ flags' = [p \in PGs |-> IF p \in led THEN {} ELSE flags[p]]
      /\ timers' = {t \in timers : t.osd # o}
      /\ UNCHANGED <<cluster, asked, needs>>

Fails(o) ==
  /\ Trouble("failure")
  /\ Restart(o)

\* The state of p on o has no reaction to the next event: Crashed
Bad(o, p) ==
  events[o][p] # <<>> /\ ~Old(o, p) /\ Next1(o, p).name \notin Reactions(st[o][p])

Aborts(o, p) == Bad(o, p) /\ Restart(o) /\ UNCHANGED left

\* start_peering_interval on o: on_change and the exits of the states give all
\* slots back.
AdvanceMap(o, p) ==
  /\ reset[o][p] < epoch[p]
  /\ reset' = [reset EXCEPT ![o][p] = epoch[p]]
  /\ Goto(o, p, "Peering")
  /\ osd' = [osd EXCEPT ![o] = Canceled(Canceled(@, "remote", p), "local", p)]
  /\ waiting' = IF o = Primary(p) THEN [waiting EXCEPT ![p] = {}] ELSE waiting
  /\ UNCHANGED <<cluster, epoch, queues, asked, needs, flags, scans, timers, left>>

\* Peering ends; on_activate queues what is to be done.
Activate(p) ==
  LET o == Primary(p)
  IN  /\ \A u \in Members(p) : In(u, p, {"Peering"}) /\ reset[u][p] = epoch[p]
      /\ st' = [u \in OSDs |-> [st[u] EXCEPT ![p] =
                  IF u = o THEN "Activating" ELSE IF u \in Others(p) THEN "RepNotRecovering" ELSE @]]
      /\ \E n \in SUBSET {"recovery", "backfill"} :
           /\ "backfill" \in n => Targets(p) # {}
           /\ needs' = [needs EXCEPT ![p] = n]
           /\ flags' = [flags EXCEPT ![p] = IF n = {} THEN @ \ {"eio"} ELSE @]
           /\ Tell(p, IF "recovery" \in n THEN "DoRecovery"
                      ELSE IF "backfill" \in n THEN "RequestBackfill"
                      ELSE "AllReplicasRecovered")
      /\ UNCHANGED <<cluster, epoch, reset, osd, toRep, toPri, asked, scans, waiting, timers, left>>

-----------------------------------------------------------------------------

Init ==
  /\ cluster \in Clusters /\ left = cluster.left
  /\ epoch = [p \in PGs |-> 1]
  /\ reset = [o \in OSDs |-> [p \in PGs |-> 1]]
  /\ st = [o \in OSDs |-> [p \in PGs |-> "Peering"]]
  /\ events = [o \in OSDs |-> [p \in PGs |-> <<>>]]
  /\ osd = [o \in OSDs |-> Started(cluster.max, 0)]
  /\ toRep = [p \in PGs |-> [o \in OSDs |-> <<>>]]
  /\ toPri = [p \in PGs |-> [o \in OSDs |-> <<>>]]
  /\ asked = [p \in PGs |-> {}]
  /\ needs = [p \in PGs |-> {}] /\ flags = [p \in PGs |-> {}]
  /\ scans = {} /\ waiting = [p \in PGs |-> {}]
  /\ timers = {}

PrimaryStep(p) ==
  \/ HandleDoRecovery(p) \/ HandleLocalRecoveryReserved(p) \/ HandleRemoteRecoveryReserved(p)
  \/ HandleRequestBackfill(p) \/ HandleLocalBackfillReserved(p) \/ HandleRemoteBackfillReserved(p)
  \/ HandleRejected(p) \/ HandleCancelBackfill(p) \/ HandleCancelRecovery(p)
  \/ HandleAllReplicasRecovered(p) \/ HandleBackfilled(p)

ReplicaStep(o, p) ==
  \/ HandleRequestRecovery(o, p) \/ HandleRequestBackfillPrio(o, p)
  \/ HandleReplicaReserved(o, p) \/ HandleReplicaDone(o, p)
  \/ HandleReplicaRejected(o, p) \/ HandleBackfillTooFull(o, p)

Work(p) == RecoveryEnds(p) \/ BackfillEnds(p) \/ Activate(p)

\* What p has in its queues and on its connections
Deliver(p) ==
  \/ PrimaryStep(p)
  \/ \E o \in Others(p) : ReplicaStep(o, p) \/ ReceiveAtReplica(o, p) \/ ReceiveAtPrimary(o, p)
  \/ \E o \in Members(p) : DropOld(o, p) \/ AdvanceMap(o, p) \/ Aborts(o, p)

Next ==
  \/ \E p \in Placed : \/ Deliver(p) \/ Work(p) \/ Scan(p) \/ GiveUp(p)
                       \/ ScrubFinish(p) \/ ReadError(p) \/ NewInterval(p)
  \/ \E o \in Used : FinisherStep(o) \/ Configure(o) \/ Fails(o)
  \/ Retry \/ AnswerScan

Spec == Init /\ [][Next]_vars

\* The finishers, the peering queues, the connections and the timers go on, maps
\* reach every OSD, peering ends and so do recovery and backfill, whose scans go
\* through finitely many objects.
Fairness ==
  /\ \A p \in PGs : /\ WF_vars(p \in Placed /\ Deliver(p))
                 /\ SF_vars(p \in Placed /\ Work(p))
  /\ WF_vars(\E o \in OSDs : FinisherStep(o))
  /\ WF_vars(Retry) /\ WF_vars(AnswerScan)

LiveSpec == Spec /\ Fairness

-----------------------------------------------------------------------------
(* Properties *)

\* How often trouble t has come
Came(t) == cluster.left[t] - left[t]

\* An OSD aborts ("we got a bad state machine event") only after a trouble that the PG
\* itself has met: do_recovery has given up, and goes on before the state machine knows,
\* or two targets were full, or two errors found, or one of each.  One full target or one
\* error does not do it, nor does any callback of a reservation that was given back, or
\* grant, rejection, retry or release of an interval that is over, at whatever moment
\* intervals, failed OSDs and new limits come (handle_peering_event, queue_peering_event).
OnlyOverlapsAbort ==
  \A p \in Placed : \A o \in Members(p) :
    Bad(o, p) => Came("giveup") >= 1 \/ Came("full") + Came("error") >= 2

\* A slot, and a place in the queue for one, belongs to a PG that is in a state
\* in which it will give it back: none leaks, and no PG asks for a second one
\* (the assertion of request_reservation).
SlotsOwned ==
  \A o \in OSDs, p \in Placed :
    /\ \/ MayRequest(osd[o].local, p)
       \/ o = Primary(p)
          /\ In(o, p, {"WaitLocalRecoveryReserved", "WaitRemoteRecoveryReserved", "Recovering",
                       "WaitLocalBackfillReserved", "WaitRemoteBackfillReserved", "Backfilling"})
    /\ \/ MayRequest(osd[o].remote, p)
       \/ o \in Others(p)
          /\ In(o, p, {"RepWaitRecoveryReserved", "RepWaitBackfillReserved", "RepRecovering"})

\* A PG recovers or backfills only while it holds a slot of its own OSD and of
\* every OSD that takes part and has not yet gone on to a new interval.
WorksReserved ==
  \A p \in Placed :
    LET o == Primary(p)
        busy == IF In(o, p, {"Recovering"}) /\ "recovery" \in needs[p] THEN Others(p)
                ELSE IF In(o, p, {"Backfilling"}) /\ "backfill" \in needs[p] THEN Targets(p)
                ELSE {}
    IN  /\ busy # {} => p \in osd[o].local.in_progress
        /\ \A u \in busy : reset[u][p] = reset[o][p] =>
             p \in osd[u].remote.in_progress /\ In(u, p, {"RepRecovering"})

\* osd_min_recovery_priority keeps p waiting for a slot
Held(p) ==
  \E o \in Members(p), which \in {"local", "remote"} :
    LET r == osd[o][which]
    IN  \E i \in DOMAIN r.queue : r.queue[i].item = p /\ r.queue[i].prio < r.min

\* Every PG becomes clean, in spite of OSDs that abort: the PGs never wait for each
\* other's slots in a circle, since each takes its own OSD's first and then the
\* others' in the order of their numbers.  Only osd_min_recovery_priority may keep a PG
\* waiting, and with it those that wait for the slots it holds already.
EventuallyClean ==
  <>[]((\E q \in Placed : Held(q)) \/ \A p \in Placed : In(Primary(p), p, {"Clean"}))
=============================================================================
