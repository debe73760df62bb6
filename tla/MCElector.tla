------------------------------ MODULE MCElector ------------------------------
(* Instances of Elector for TLC: the .cfg files give the bounds. *)
EXTENDS Elector

\* Who takes part in the quorum of a formed cluster
Able == Rank \ oldConn

\* A monitor of a cluster that is formed: every able one followed monitor 0 in epoch 2,
\* and monitor 0 has just been started again.  One that was left behind in the election
\* lacks what the quorum has come to require.
Formed(m) ==
  IF m = 0 THEN [Fresh EXCEPT !.stored = 2, !.joined = TRUE]
  ELSE IF m \in Able
  THEN [Fresh EXCEPT !.state = "peon", !.epoch = 2, !.stored = 2,
                     !.joined = TRUE, !.quorum = Able]
  ELSE [Fresh EXCEPT !.state = "electing", !.epoch = 1, !.stored = 1,
                     !.joined = TRUE, !.leader_acked = 0, !.timer = "extended"]

\* All monitors are just started, or the cluster is formed; monitor 0 may be down for
\* good, unless another one is refused.  Where neither is so, no trouble is to come.
LiveInit ==
  /\ Init!2 /\ Init!4 /\ Init!6 /\ Init!7
  /\ \E formed, dead \in BOOLEAN :
       /\ dead => oldConn = {}
       /\ early = IF dead \/ oldConn # {} THEN 0 ELSE MaxTroubles
       /\ mon = [m \in Rank |-> IF m = 0 /\ dead THEN [Fresh EXCEPT !.state = "exited"]
                                ELSE IF formed THEN Formed(m) ELSE Fresh]
       /\ regime = IF formed
                   THEN {[mon |-> m, epoch |-> 2, leader |-> 0, quorum |-> Able] : m \in Able}
                   ELSE {}

LiveSpec == LiveInit /\ [][Next]_vars /\ Fairness
=============================================================================
