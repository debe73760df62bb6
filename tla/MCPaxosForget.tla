---------------------------- MODULE MCPaxosForget ----------------------------
(***************************************************************************)
(* One behaviour of Paxos with five monitors.  A leader keeps the proposal  *)
(* number of its own COLLECT in memory only (Paxos::collect sets            *)
(* accepted_pn, get_new_proposal_number writes last_pn, Paxos::init reads   *)
(* accepted_pn).  Leaders 2 and 1 die in turn and come back without the     *)
(* promise they had made to themselves; monitor 0 then gets a value         *)
(* accepted under a lower number than the one it already has elsewhere.     *)
(*                                                                          *)
(* The behaviour is given as the list of its steps, each of which is a step *)
(* of Paxos: every step below is an action of module Paxos, restricted to   *)
(* one of its outcomes.                                                     *)
(***************************************************************************)
EXTENDS Paxos, SequencesExt

VARIABLE at     \* how many steps of Script have been taken

Joins(m, e)   == [act |-> "elect", mon |-> m, epoch |-> e]
Wins(m, Q)    == [act |-> "win", mon |-> m, quorum |-> Q]
Gets(m, from) == [act |-> "receive", mon |-> m, from |-> from]
Writes(m)     == [act |-> "finish", mon |-> m]
Dies(m)       == [act |-> "restart", mon |-> m]

\* m takes the VICTORY and the COLLECT of from
Follows(m, from) == <<Gets(m, from), Gets(m, from)>>

Script == FlattenSeq(<<
  \* 2 leads {2, 3, 4} in epoch 2, stores Z under 102, and dies before the
  \* BEGIN reaches anyone
  <<Wins(2, {2, 3, 4})>>, Follows(3, 2), Follows(4, 2),
  <<Gets(2, 3), Gets(2, 4), Dies(2)>>,
  \* 1 leads {1, 3, 4} in epoch 4, stores X under 201, and dies when 3 has it
  <<Joins(1, 3), Joins(3, 3), Joins(4, 3), Wins(1, {1, 3, 4})>>,
  Follows(3, 1), Follows(4, 1),
  <<Gets(1, 3), Gets(1, 4), Gets(3, 1), Gets(4, 1), Gets(1, 3), Gets(1, 4),
    Gets(3, 1), Gets(3, 1), Dies(1)>>,
  \* 0 leads {0, 1, 2} in epoch 6: 1 and 2 promise it 100, and 1 stores X
  \* under 100
  <<Joins(0, 5), Joins(1, 5), Joins(2, 5), Wins(0, {0, 1, 2})>>,
  Follows(1, 0), Follows(2, 0), <<Gets(0, 1), Gets(0, 2), Gets(1, 0)>>,
  \* the same quorum in epoch 8: Z of 102 beats X of 100, and 0 commits it
  <<Joins(0, 7), Joins(1, 7), Joins(2, 7), Wins(0, {0, 1, 2})>>,
  Follows(1, 0), Follows(2, 0), <<Gets(0, 1), Gets(0, 2)>>,
  <<Gets(1, 0), Gets(2, 0), Gets(0, 1), Gets(0, 2), Writes(0)>>,
  \* 2 leads {2, 3, 4} in epoch 10, without having seen that commit: X of 201
  \* beats Z of 200, and 2 commits it
  <<Joins(2, 9), Joins(3, 9), Joins(4, 9), Wins(2, {2, 3, 4})>>,
  Follows(3, 2), Follows(4, 2), <<Gets(2, 3), Gets(2, 4)>>,
  <<Gets(3, 2), Gets(4, 2), Gets(2, 3), Gets(2, 4), Writes(2)>> >>)

Taken(t) ==
  \/ t.act = "elect" /\ Elect(t.mon) /\ mon'[t.mon].epoch = t.epoch
  \/ t.act = "win" /\ Win(t.mon) /\ mon'[t.mon].quorum = t.quorum
  \/ t.act = "receive" /\ Receive(t.mon, t.from)
  \/ t.act = "finish" /\ FinishCommit(t.mon)
  \/ t.act = "restart" /\ Restart(t.mon) /\ \A d \in Rank : net'[t.mon][d] = <<>>

ForgetSpec ==
  /\ Init /\ at = 0
  /\ [][at < Len(Script) /\ at' = at + 1 /\ Taken(Script[at + 1])]_<<vars, at>>
=============================================================================
