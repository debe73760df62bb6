------------------------------- MODULE MCPaxos -------------------------------
(* Instances of Paxos for TLC: the .cfg files give the bounds. *)
EXTENDS Paxos
=============================================================================
