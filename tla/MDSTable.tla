------------------------------ MODULE MDSTable ------------------------------
(***************************************************************************)
(* The two-phase commit of the MDS tables, with the snapshot table as the   *)
(* table: src/src/mds/MDSTableServer.cc, MDSTableClient.cc, SnapServer.cc,  *)
(* the load and save of MDSTable.cc, the replay of ETableServer and         *)
(* ETableClient in journal.cc, and the requests of Server.cc that use it.   *)
(*                                                                          *)
(* Rank 0 holds the table server; every rank has a table client, rank 0     *)
(* included.  A transaction is PREPAREd at the server, which answers AGREE  *)
(* once the prepare is in its journal; the client then journals its update  *)
(* and sends COMMIT, which the server journals and ACKs.                    *)
(*                                                                          *)
(* The two parts of rank 0 write one journal; here each has its own, and a   *)
(* crash may keep more of one than of the other.                            *)
(*                                                                          *)
(* A rank that fails is replaced, and all learn of it at once: what a peer  *)
(* sends to a dead rank, or handles of it, before it learns could as well   *)
(* have been lost, or have come before the failure.                         *)
(***************************************************************************)
EXTENDS Integers, Sequences, FiniteSets, SequencesExt

CONSTANTS
  Clients,       \* the ranks of the cluster, 0 among them
  Kinds,         \* the kinds of transaction that are requested
  Victims,       \* sets of ranks, one of which is the set of ranks that may die
  MaxRequests,   \* bound: requests
  MaxCrashes,    \* bound: crashes
  MaxSaves       \* bound: times the table is saved

AllKinds == {"create", "realm", "update", "destroy"}

ASSUME RankAssumption == 0 \in Clients /\ Clients \subseteq Nat
ASSUME KindAssumption == Kinds \subseteq AllKinds
ASSUME VictimAssumption == Victims \subseteq SUBSET Clients
ASSUME TableBounds == {MaxRequests, MaxCrashes, MaxSaves} \subseteq Nat

VARIABLES
  table,     \* the table in the memory of the server
  saved,     \* the table object in the metadata pool
  saving,    \* tables that are being written to it, oldest first
  jrnl,      \* journal of the server
  safe,      \* number of its entries whose callbacks have run
  active,    \* ranks that are active or in clientreplay
  cli,       \* cli[c]: the table client of rank c
  toSrv,     \* toSrv[c]: messages from c to the server
  toCli,     \* toCli[c]: messages from the server to c
  removed,   \* snapshots the monitors have been asked to remove
  victims,   \* the ranks that may die in this behaviour
  requests, crashes, saves   \* how often these happened

server == <<table, saved, saving, jrnl, safe>>
bounds == <<requests, crashes, saves>>
vars == <<server, active, cli, toSrv, toCli, removed, victims, bounds>>

Empty == [n \in {} |-> n]

\* The members of a set of numbers in their order
Ascending(S) ==
  CHOOSE f \in [1 .. Cardinality(S) -> S] : \A i, j \in DOMAIN f : i < j => f[i] < f[j]

With(f, k, v) == [n \in DOMAIN f \cup {k} |-> IF n = k THEN v ELSE f[n]]
Without(f, k) == [n \in DOMAIN f \ {k} |-> f[n]]

\* SnapServer::reset_state.  pending is pending_for_mds, by tid, together with
\* pending_update, pending_destroy and pending_noop; purge is need_to_purge.
EmptyTable ==
  [version |-> 0, last_snap |-> 1, snaps |-> {}, pending |-> Empty, purge |-> {}]

\* An entry of the server's journal, with what its callback keeps of the
\* request: who sent it, and the answer
Entry(op, v, tid, mds, reqid, o, reply) ==
  [op |-> op, version |-> v, tid |-> tid, mds |-> mds, reqid |-> reqid,
   kind |-> o.kind, snap |-> o.snap, reply |-> reply, purged |-> {}]

NoOp == [kind |-> "realm", snap |-> 0]

Msg(op, reqid, tid, o, seq) ==
  [op |-> op, reqid |-> reqid, tid |-> tid, kind |-> o.kind, snap |-> o.snap,
   seq |-> seq]

-----------------------------------------------------------------------------
(* The table *)

\* Mutant: a snapshot is queued for removal when its destroy is prepared
PreparePurges(t, mds, reqid, o) ==
  LET last == IF o.kind = "realm" THEN t.last_snap ELSE t.last_snap + 1
      tid  == t.version + 1
  IN  [t EXCEPT !.version = tid, !.last_snap = last,
                !.purge = IF o.kind = "destroy" THEN @ \cup {o.snap} ELSE @,
                !.pending = With(@, tid,
                   [mds |-> mds, reqid |-> reqid, kind |-> o.kind, seq |-> last,
                    snap |-> IF o.kind = "create" THEN last ELSE o.snap])]

\* SnapServer::_prepare and _note_prepare.  A new realm takes no snapid.
Prepare(t, mds, reqid, o) ==
  LET last == IF o.kind = "realm" THEN t.last_snap ELSE t.last_snap + 1
      tid  == t.version + 1
  IN  [t EXCEPT !.version = tid, !.last_snap = last,
                !.pending = With(@, tid,
                   [mds |-> mds, reqid |-> reqid, kind |-> o.kind, seq |-> last,
                    snap |-> IF o.kind = "create" THEN last ELSE o.snap])]

\* SnapServer::_commit and _note_commit
Commit(t, tid) ==
  LET p == t.pending[tid]
  IN  [t EXCEPT !.version = @ + 1, !.pending = Without(@, tid),
                !.snaps = CASE p.kind \in {"create", "update"} -> @ \cup {p.snap}
                            [] p.kind = "destroy" -> @ \ {p.snap}
                            [] OTHER -> @,
                !.purge = IF p.kind = "destroy" THEN @ \cup {p.snap, p.seq} ELSE @]

\* SnapServer::_rollback and _note_rollback
Rollback(t, tid) == [t EXCEPT !.version = @ + 1, !.pending = Without(@, tid)]

\* SnapServer::_server_update
ServerUpdate(t, S) == [t EXCEPT !.version = @ + 1, !.purge = @ \ S]

\* Mutant: entries that the table object has already are replayed again
ReplayAll(t, e) ==
  CASE e.op = "PREPARE"  -> Prepare(t, e.mds, e.reqid, [kind |-> e.kind, snap |-> e.snap])
    [] e.op = "COMMIT"   -> IF e.tid \in DOMAIN t.pending THEN Commit(t, e.tid) ELSE t
    [] e.op = "ROLLBACK" -> IF e.tid \in DOMAIN t.pending THEN Rollback(t, e.tid) ELSE t
    [] e.op = "UPDATE"   -> ServerUpdate(t, e.purged)

\* ETableServer::replay: entries the table object has already are passed over
Replay(t, e) ==
  IF t.version >= e.version THEN t
  ELSE CASE e.op = "PREPARE"  -> Prepare(t, e.mds, e.reqid,
                                         [kind |-> e.kind, snap |-> e.snap])
         [] e.op = "COMMIT"   -> Commit(t, e.tid)
         [] e.op = "ROLLBACK" -> Rollback(t, e.tid)
         [] e.op = "UPDATE"   -> ServerUpdate(t, e.purged)

\* The tables that the replay of a journal leads through: Replayed(t, entries)[i]
\* is there after i entries.
Replayed(t, entries) ==
  LET at[i \in 0 .. Len(entries)] == IF i = 0 THEN t ELSE Replay(at[i - 1], entries[i])
  IN  at

\* MDSTable::load, then the journal
Recovered(t, entries) == Replayed(t, entries)[Len(entries)]

-----------------------------------------------------------------------------
(* The server *)

Serving == 0 \in active

From(c, op) == toSrv[c] # <<>> /\ Head(toSrv[c]).op = op

Submit(e) == jrnl' = Append(jrnl, e)

\* Mutant: the AGREE goes out before the prepare is in the journal
PrepareAgreesEarly(c) ==
  /\ Serving /\ From(c, "PREPARE")
  /\ LET m == Head(toSrv[c])
         o == [kind |-> m.kind, snap |-> m.snap]
         t == Prepare(table, c, m.reqid, o)
     IN  /\ table' = t
         /\ toCli' = [toCli EXCEPT ![c] =
                        Append(@, Msg("AGREE", m.reqid, t.version, NoOp, t.last_snap))]
         /\ Submit(Entry("PREPARE", t.version, t.version, c, m.reqid, o, t.last_snap))
  /\ toSrv' = [toSrv EXCEPT ![c] = Tail(@)]
  /\ UNCHANGED <<saved, saving, safe, active, cli, removed, victims, bounds>>

\* handle_prepare: in memory at once, answered when it is in the journal
HandlePrepare(c) ==
  /\ Serving /\ From(c, "PREPARE")
  /\ LET m == Head(toSrv[c])
         o == [kind |-> m.kind, snap |-> m.snap]
         t == Prepare(table, c, m.reqid, o)
     IN  /\ table' = t
         /\ Submit(Entry("PREPARE", t.version, t.version, c, m.reqid, o, t.last_snap))
  /\ toSrv' = [toSrv EXCEPT ![c] = Tail(@)]
  /\ UNCHANGED <<saved, saving, safe, active, cli, toCli, removed, victims, bounds>>

Ack(tid) == Msg("ACK", 0, tid, NoOp, 0)

\* handle_commit: a tid that is not pending any more is acked at once
HandleCommit(c) ==
  /\ Serving /\ From(c, "COMMIT")
  /\ LET tid == Head(toSrv[c]).tid
     IN  IF tid \in DOMAIN table.pending
         THEN /\ table' = Commit(table, tid)
              /\ Submit(Entry("COMMIT", table.version + 1, tid, c, 0, NoOp, 0))
              /\ UNCHANGED toCli
         ELSE /\ tid <= table.version
              /\ toCli' = [toCli EXCEPT ![c] = Append(@, Ack(tid))]
              /\ UNCHANGED <<table, jrnl>>
  /\ toSrv' = [toSrv EXCEPT ![c] = Tail(@)]
  /\ UNCHANGED <<saved, saving, safe, active, cli, removed, victims, bounds>>

\* handle_rollback
HandleRollback(c) ==
  /\ Serving /\ From(c, "ROLLBACK")
  /\ LET tid == Head(toSrv[c]).tid
     IN  /\ tid \in DOMAIN table.pending
         /\ table' = Rollback(table, tid)
         /\ Submit(Entry("ROLLBACK", table.version + 1, tid, c, 0, NoOp, 0))
  /\ toSrv' = [toSrv EXCEPT ![c] = Tail(@)]
  /\ UNCHANGED <<saved, saving, safe, active, cli, toCli, removed, victims, bounds>>

\* The next entry is safe: _prepare_logged and _commit_logged answer the rank
\* that asked, whichever instance of it is there now.
ServerLogged ==
  /\ safe < Len(jrnl)
  /\ safe' = safe + 1
  /\ LET e == jrnl[safe + 1]
         agree == Msg("AGREE", e.reqid, e.tid, NoOp, e.reply)
     IN  toCli' = IF e.op = "PREPARE" THEN [toCli EXCEPT ![e.mds] = Append(@, agree)]
                  ELSE IF e.op = "COMMIT"
                       THEN [toCli EXCEPT ![e.mds] = Append(@, Ack(e.tid))]
                  ELSE toCli
  /\ UNCHANGED <<table, saved, saving, jrnl, active, cli, toSrv, removed, victims, bounds>>

\* MDSTable::save, called when a segment of the journal expires: it writes what
\* is in memory, entries included that are not yet safe.
Save ==
  /\ Serving
  /\ saves < MaxSaves /\ saves' = saves + 1
  /\ saving' = Append(saving, table)
  /\ UNCHANGED <<table, saved, jrnl, safe, active, cli, toSrv, toCli, removed,
                 victims, requests, crashes>>

\* save_2
Saved ==
  /\ saving # <<>>
  /\ saved' = Head(saving) /\ saving' = Tail(saving)
  /\ UNCHANGED <<table, jrnl, safe, active, cli, toSrv, toCli, removed, victims, bounds>>

\* SnapServer::check_osd_map: what the monitors have removed is forgotten
\* (do_server_update), and they are asked to remove the rest.
CheckOsdMap ==
  /\ Serving /\ table.purge # {}
  /\ LET gone == table.purge \cap removed
     IN  IF gone = {} THEN UNCHANGED <<table, jrnl>>
         ELSE /\ table' = ServerUpdate(table, gone)
              /\ Submit([Entry("UPDATE", table.version + 1, 0, 0, 0, NoOp, 0)
                           EXCEPT !.purged = gone])
  /\ removed' = removed \cup table.purge
  /\ UNCHANGED <<saved, saving, safe, active, cli, toSrv, toCli, victims, bounds>>

\* handle_mds_recovery: the agrees of c again, in the order of their tids and
\* without the answer, then SERVER_READY with the next reqid
Agrees(t, c) ==
  LET mine == Ascending({tid \in DOMAIN t.pending : t.pending[tid].mds = c})
      ids  == {t.pending[mine[i]].reqid : i \in DOMAIN mine}
      next == IF ids = {} THEN 0 ELSE Max(ids) + 1
  IN  [i \in 1 .. Len(mine) |-> Msg("AGREE", t.pending[mine[i]].reqid, mine[i], NoOp, 0)]
        \o <<Msg("READY", next, 0, NoOp, 0)>>

-----------------------------------------------------------------------------
(* The clients *)

Unset == -1

Fresh ==
  [ready |-> FALSE, last_reqid |-> Unset, waiting |-> <<>>, preparing |-> Empty,
   prepared |-> Empty, committing |-> {}, journal |-> <<>>, safe |-> 0]

\* The messages that send op with the reqids or tids of seq
PrepareMsg(s, reqid) == Msg("PREPARE", reqid, 0, s.preparing[reqid], 0)
CommitMsg(tid) == Msg("COMMIT", 0, tid, NoOp, 0)

\* The updates that the file system of c has: _mksnap_finish, _rmsnap_finish
\* and their like have run.
Done(c) == {cli[c].journal[i] : i \in 1 .. cli[c].safe}
Made(c) == {e.snap : e \in {d \in Done(c) : d.op = "UPDATE" /\ d.kind = "create"}}
Unmade(c) == {e.snap : e \in {d \in Done(c) : d.op = "UPDATE" /\ d.kind = "destroy"}}
Realm(c) == Made(c) \ Unmade(c)

\* The snapshots that a request under way has locked (snaplock)
Locked(c) ==
  LET s == cli[c]
  IN  {o.snap : o \in {w \in ToSet(s.waiting) \cup Range(s.preparing) : w.live}}
        \cup {e.snap : e \in {s.journal[i] : i \in s.safe + 1 .. Len(s.journal)}}

\* What mksnap, rmsnap, rename of a snapshot and a new realm ask for.  A request is
\* live until it is killed.
Requestable(c) ==
  {o \in [kind: Kinds, snap: {0} \cup Realm(c), live: {TRUE}] :
     IF o.kind \in {"create", "realm"} THEN o.snap = 0
                                       ELSE o.snap \in Realm(c) \ Locked(c)}

\* _prepare
Request(c) ==
  /\ c \in active
  /\ requests < MaxRequests /\ requests' = requests + 1
  /\ \E o \in Requestable(c) :
       LET s  == cli[c]
           id == s.last_reqid + 1
           t  == [s EXCEPT !.last_reqid = id, !.preparing = With(@, id, o)]
       IN  IF s.last_reqid = Unset
           THEN /\ cli' = [cli EXCEPT ![c].waiting = Append(@, o)]
                /\ UNCHANGED toSrv
           ELSE /\ cli' = [cli EXCEPT ![c] = t]
                /\ toSrv' = IF s.ready
                            THEN [toSrv EXCEPT ![c] = Append(@, PrepareMsg(t, id))]
                            ELSE toSrv
  /\ UNCHANGED <<server, active, toCli, removed, victims, crashes, saves>>

To(c, op) == toCli[c] # <<>> /\ Head(toCli[c]).op = op

\* The AGREE at the head of c's channel is for a prepare that waits for it
Awaited(c) == Head(toCli[c]).reqid \in DOMAIN cli[c].preparing

\* The request that waits for the AGREE at the head of c's channel
Waiter(c) == cli[c].preparing[Head(toCli[c]).reqid]

\* journal_close_session: the requests of a session that ends are killed
\* (request_kill).  A killed request gives up its locks; its prepare is not recalled.
Kill(c) ==
  /\ c \in active
  /\ \/ \E id \in DOMAIN cli[c].preparing :
          /\ cli[c].preparing[id].live
          /\ cli' = [cli EXCEPT ![c].preparing[id].live = FALSE]
     \/ \E i \in DOMAIN cli[c].waiting :
          /\ cli[c].waiting[i].live
          /\ cli' = [cli EXCEPT ![c].waiting[i].live = FALSE]
  /\ UNCHANGED <<server, active, toSrv, toCli, removed, victims, bounds>>

\* handle_request, AGREE: the request is run again at once (C_MDS_RetryRequest).  It
\* has its locks since before the prepare (done_locking), passes the checks again
\* and journals its update.
HandleAgree(c) ==
  /\ To(c, "AGREE") /\ Awaited(c) /\ Waiter(c).live /\ Head(toCli[c]).seq # 0
  /\ LET m == Head(toCli[c])
         o == cli[c].preparing[m.reqid]
         e == [op |-> "UPDATE", tid |-> m.tid, kind |-> o.kind,
               snap |-> IF o.kind = "create" THEN m.seq ELSE o.snap]
     IN  cli' = [cli EXCEPT ![c].preparing = Without(@, m.reqid),
                            ![c].prepared = With(@, m.tid, m.reqid),
                            ![c].journal = Append(@, e)]
  /\ toCli' = [toCli EXCEPT ![c] = Tail(@)]
  /\ UNCHANGED <<server, active, toSrv, removed, victims, bounds>>

\* handle_request, AGREE: the request is run again in vain, since it has been killed,
\* or the file system has become full or read-only.  Nobody commits the tid or rolls
\* it back.
HandleAgreeInVain(c) ==
  /\ To(c, "AGREE") /\ Awaited(c)
  /\ LET m == Head(toCli[c])
     IN  cli' = [cli EXCEPT ![c].preparing = Without(@, m.reqid),
                            ![c].prepared = With(@, m.tid, m.reqid)]
  /\ toCli' = [toCli EXCEPT ![c] = Tail(@)]
  /\ UNCHANGED <<server, active, toSrv, removed, victims, bounds>>

\* Mutant: a tid that is being committed is rolled back like any other
StrayAgreeAll(c) ==
  LET m == Head(toCli[c])
  IN  m.tid \notin DOMAIN cli[c].prepared

\* handle_request, AGREE: neither prepared nor committing here
StrayAgree(c) ==
  LET m == Head(toCli[c])
  IN  m.tid \notin DOMAIN cli[c].prepared /\ m.tid \notin cli[c].committing

\* An AGREE that nothing waits for: only a client that the server has not made
\* ready may get one.  What it does not know it has rolled back.
HandleStrayAgree(c) ==
  /\ To(c, "AGREE") /\ ~Awaited(c) /\ ~cli[c].ready
  /\ LET tid == Head(toCli[c]).tid
     IN  toSrv' = IF StrayAgree(c)
                  THEN [toSrv EXCEPT ![c] = Append(@, Msg("ROLLBACK", 0, tid, NoOp, 0))]
                  ELSE toSrv
  /\ toCli' = [toCli EXCEPT ![c] = Tail(@)]
  /\ UNCHANGED <<server, active, cli, removed, victims, bounds>>

\* handle_request, ACK: journaled, which the client's LogSegment waits for
HandleAck(c) ==
  /\ To(c, "ACK")
  /\ LET tid == Head(toCli[c]).tid
         e == [op |-> "ACK", tid |-> tid, kind |-> "realm", snap |-> 0]
     IN  cli' = IF tid \in cli[c].committing
                THEN [cli EXCEPT ![c].committing = @ \ {tid},
                                 ![c].journal = Append(@, e)]
                ELSE cli
  /\ toCli' = [toCli EXCEPT ![c] = Tail(@)]
  /\ UNCHANGED <<server, active, toSrv, removed, victims, bounds>>

\* resend_prepares: those that waited for a reqid get theirs now
Numbered(s, reqid) ==
  LET last == IF s.last_reqid = Unset THEN reqid ELSE s.last_reqid
      n == Len(s.waiting)
  IN  [s EXCEPT !.ready = TRUE, !.last_reqid = last + n, !.waiting = <<>>,
                !.preparing = [r \in DOMAIN @ \cup (last + 1 .. last + n) |->
                                 IF r \in DOMAIN s.preparing THEN s.preparing[r]
                                 ELSE s.waiting[r - last]]]

\* Mutant: the commits are not sent again
ResentPrepares(s) ==
  LET p == Ascending(DOMAIN s.preparing)
  IN  [i \in 1 .. Len(p) |-> PrepareMsg(s, p[i])]

\* resend_prepares, resend_commits
Resent(s) ==
  LET p == Ascending(DOMAIN s.preparing)
      t == Ascending(s.committing)
  IN  [i \in 1 .. Len(p) |-> PrepareMsg(s, p[i])]
        \o [i \in 1 .. Len(t) |-> CommitMsg(t[i])]

\* handle_request, SERVER_READY
HandleReady(c) ==
  /\ To(c, "READY") /\ ~cli[c].ready
  /\ LET s == Numbered(cli[c], Head(toCli[c]).reqid)
     IN  /\ cli' = [cli EXCEPT ![c] = s]
         /\ toSrv' = [toSrv EXCEPT ![c] = @ \o Resent(s)]
  /\ toCli' = [toCli EXCEPT ![c] = Tail(@)]
  /\ UNCHANGED <<server, active, removed, victims, bounds>>

\* The next entry of c's journal is safe: commit(), or _logged_ack
ClientLogged(c) ==
  /\ cli[c].safe < Len(cli[c].journal)
  /\ LET s == cli[c]
         e == s.journal[s.safe + 1]
     IN  IF e.op = "UPDATE"
         THEN /\ cli' = [cli EXCEPT ![c].safe = @ + 1,
                                    ![c].prepared = Without(@, e.tid),
                                    ![c].committing = @ \cup {e.tid}]
              /\ toSrv' = IF s.ready THEN [toSrv EXCEPT ![c] = Append(@, CommitMsg(e.tid))]
                                     ELSE toSrv
         ELSE /\ cli' = [cli EXCEPT ![c].safe = @ + 1]
              /\ UNCHANGED toSrv
  /\ UNCHANGED <<server, active, toCli, removed, victims, bounds>>

-----------------------------------------------------------------------------
(* Failure and recovery *)

\* got_journaled_agree and got_journaled_ack for a journal
Uncommitted(journal) ==
  {journal[i].tid : i \in {j \in DOMAIN journal :
     /\ journal[j].op = "UPDATE"
     /\ \A k \in j + 1 .. Len(journal) :
          ~(journal[k].op = "ACK" /\ journal[k].tid = journal[j].tid)}}

\* A new instance of a client, which has the first n entries of the journal
Reborn(s, n) ==
  LET j == SubSeq(s.journal, 1, n)
  IN  [Fresh EXCEPT !.journal = j, !.safe = n, !.committing = Uncommitted(j)]

\* Rank r fails and another daemon takes it over, with what was on disk.  When
\* rank 0 fails, the others learn that the server is not ready
\* (handle_mds_failure).
Fail(r) ==
  /\ \E n \in cli[r].safe .. Len(cli[r].journal) :
       cli' = [c \in Clients |->
                 IF c = r THEN Reborn(cli[c], n)
                 ELSE IF r = 0 THEN [cli[c] EXCEPT !.ready = FALSE] ELSE cli[c]]
  /\ active' = active \ {r}
  /\ LET cut == IF r = 0 THEN Clients ELSE {r}
     IN  /\ toSrv' = [c \in Clients |-> IF c \in cut THEN <<>> ELSE toSrv[c]]
         /\ toCli' = [c \in Clients |-> IF c \in cut THEN <<>> ELSE toCli[c]]
  /\ IF r # 0 THEN UNCHANGED server
     ELSE \E n \in safe .. Len(jrnl), w \in 0 .. Len(saving) :
            LET j == SubSeq(jrnl, 1, n)
                t == IF w = 0 THEN saved ELSE saving[w]
            IN  /\ jrnl' = j /\ safe' = n
                /\ saved' = t /\ saving' = <<>>
                /\ table' = Recovered(t, j)

Crash(r) ==
  /\ r \in victims
  /\ crashes < MaxCrashes /\ crashes' = crashes + 1
  /\ Fail(r)
  /\ UNCHANGED <<removed, victims, requests, saves>>

\* Rank r becomes active: recovery_done at rank 0 (finish_recovery), or
\* handle_mds_recovery at rank 0 for another rank
Activate(r) ==
  /\ r \notin active
  /\ active' = active \cup {r}
  /\ LET D == IF r = 0 THEN active' ELSE IF Serving THEN {r} ELSE {}
     IN  toCli' = [c \in Clients |-> IF c \in D THEN toCli[c] \o Agrees(table, c)
                                               ELSE toCli[c]]
  /\ UNCHANGED <<server, cli, toSrv, removed, victims, bounds>>

\* The request that gets an AGREE without its answer fails to decode it.
ClientThrows(c) ==
  /\ To(c, "AGREE") /\ Awaited(c) /\ Waiter(c).live /\ Head(toCli[c]).seq = 0
  /\ Fail(c)
  /\ UNCHANGED <<removed, victims, bounds>>

\* The AGREE of a prepare of c's last instance, logged after c has become ready:
\* assert(!server_ready)
ClientAborts(c) ==
  /\ To(c, "AGREE") /\ ~Awaited(c) /\ cli[c].ready
  /\ Fail(c)
  /\ UNCHANGED <<removed, victims, bounds>>

\* The second ROLLBACK of one tid: assert(pending_for_mds.count(tid))
ServerAborts(c) ==
  /\ Serving /\ From(c, "ROLLBACK")
  /\ Head(toSrv[c]).tid \notin DOMAIN table.pending
  /\ Fail(0)
  /\ UNCHANGED <<removed, victims, bounds>>

-----------------------------------------------------------------------------

Init ==
  /\ table = EmptyTable /\ saved = EmptyTable /\ saving = <<>>
  /\ jrnl = <<>> /\ safe = 0
  /\ active = {}
  /\ cli = [c \in Clients |-> Fresh]
  /\ toSrv = [c \in Clients |-> <<>>]
  /\ toCli = [c \in Clients |-> <<>>]
  /\ removed = {}
  /\ victims \in Victims
  /\ requests = 0 /\ crashes = 0 /\ saves = 0

ServerReceive(c) == HandlePrepare(c) \/ HandleCommit(c) \/ HandleRollback(c)

ClientReceive(c) ==
  \/ HandleAgree(c) \/ HandleAgreeInVain(c) \/ HandleStrayAgree(c)
  \/ HandleAck(c) \/ HandleReady(c)

Next ==
  \/ ServerLogged \/ Save \/ Saved \/ CheckOsdMap
  \/ \E c \in Clients : \/ ServerReceive(c) \/ ServerAborts(c)
                        \/ ClientReceive(c) \/ ClientThrows(c) \/ ClientAborts(c)
                        \/ Request(c) \/ Kill(c) \/ ClientLogged(c)
                        \/ Crash(c) \/ Activate(c)

Spec == Init /\ [][Next]_vars

\* Journals are flushed by every tick, messages arrive, and a rank that failed
\* is replaced.
Fairness ==
  /\ WF_vars(ServerLogged)
  /\ \A c \in Clients : /\ WF_vars(ServerReceive(c) \/ ServerAborts(c))
                        /\ WF_vars(ClientReceive(c) \/ ClientThrows(c) \/ ClientAborts(c))
                        /\ WF_vars(ClientLogged(c))
                        /\ WF_vars(Activate(c))

LiveSpec == Spec /\ Fairness

-----------------------------------------------------------------------------
(* Properties *)

\* ETableServer::replay rebuilds what the server had: whatever table object is
\* read back, saved in the middle of transactions that are not in the journal
\* yet, the journal leads from it to the table in memory, without a gap in the
\* versions (assert(version-1 == server->get_version())).
ReplayRebuilds ==
  \A t \in {saved} \cup ToSet(saving) :
    /\ Recovered(t, jrnl) = table
    /\ \A i \in DOMAIN jrnl :
         LET before == Replayed(t, jrnl)[i - 1].version
         IN  before < jrnl[i].version => before = jrnl[i].version - 1

\* A snapshot that a directory of the file system has is in the snap table, or
\* its client will yet commit it: no crash of either side, no AGREE sent again
\* and no ROLLBACK undoes a mksnap that has been answered.
RealmInTable ==
  \A c \in Clients : \A sn \in Realm(c) :
    \/ sn \in table.snaps
    \/ \E tid \in DOMAIN table.pending :
         /\ table.pending[tid].kind = "create" /\ table.pending[tid].snap = sn
         /\ tid \in cli[c].committing

\* A client forgets a transaction only when the server has decided it for good:
\* what can still be lost of the server's journal is neither acked nor rolled
\* back by the client (MDSTableClient::handle_request, ACK).
AckedIsDurable ==
  \A c \in Clients : \A i \in 1 .. cli[c].safe :
    LET e == cli[c].journal[i]
        t == Recovered(saved, SubSeq(jrnl, 1, safe))
    IN  e.op = "ACK" => e.tid \notin DOMAIN t.pending

\* The monitors are asked to remove a snapshot only when no directory has it any
\* more (SnapServer::check_osd_map).  They may be asked before the COMMIT is in
\* the journal: the table of a server that dies then has the snapshot again, but
\* only until the client sends the COMMIT of the destroy again.
SafePurge ==
  /\ \A c \in Clients : Realm(c) \cap (removed \cup table.purge) = {}
  /\ \A sn \in table.snaps \cap (removed \cup table.purge) :
       \E tid \in DOMAIN table.pending :
         LET p == table.pending[tid]
         IN  p.kind = "destroy" /\ p.snap = sn /\ tid \in cli[p.mds].committing

\* Two snapshots do not get the same id, not even when the server dies between
\* the two prepares (last_snap is rebuilt by the replay).
UniqueSnapIds ==
  \A c, d \in Clients : \A i \in DOMAIN cli[c].journal, j \in DOMAIN cli[d].journal :
    LET e == cli[c].journal[i]
        f == cli[d].journal[j]
    IN  (e.op = "UPDATE" /\ e.kind = "create" /\ f.op = "UPDATE" /\ f.kind = "create"
         /\ e.snap = f.snap) => <<c, i>> = <<d, j>>

\* The assertions of the two sides that no crash of one side reaches: a COMMIT
\* names a tid the server has given out (assert(tid <= version)), SERVER_READY
\* comes once (assert(!server_ready)), commit() finds its tid prepared.
AssertionsHold ==
  \A c \in Clients :
    /\ Serving /\ From(c, "COMMIT") => Head(toSrv[c]).tid <= table.version
    /\ To(c, "READY") => ~cli[c].ready
    /\ \A i \in cli[c].safe + 1 .. Len(cli[c].journal) :
         cli[c].journal[i].op = "UPDATE" => cli[c].journal[i].tid \in DOMAIN cli[c].prepared

\* The transactions of c that are prepared and that no request of c goes on with
GivenUp(c) ==
  DOMAIN cli[c].prepared \
    {cli[c].journal[i].tid : i \in cli[c].safe + 1 .. Len(cli[c].journal)}

\* Every transaction is decided in the end, in spite of crashes of either side: none
\* stays committing at a client, and none stays pending at the server, except for
\* those whose request was killed or failed after the prepare, at a client that has
\* not been restarted since.  They stay pending for as long as their client lives.
EventuallySettled ==
  <>[](/\ \A c \in Clients : cli[c].committing = {}
       /\ \A tid \in DOMAIN table.pending : tid \in GivenUp(table.pending[tid].mds))
=============================================================================
