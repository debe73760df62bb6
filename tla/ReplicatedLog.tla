---------------------------- MODULE ReplicatedLog ----------------------------
(***************************************************************************)
(* What Paxos promises to the services above it: one log, to which versions *)
(* are appended one at a time and of which every monitor knows a prefix     *)
(* that only grows.                                                         *)
(***************************************************************************)
EXTENDS Naturals, Sequences

CONSTANT Members

VARIABLES
  log,    \* the values of versions 1, 2, ...
  known   \* known[m]: the last version m knows of

vars == <<log, known>>

Init == log = <<>> /\ known = [m \in Members |-> 0]

\* m is the first to commit the version after all others
Extend(m) ==
  /\ known' = [known EXCEPT ![m] = @ + 1]
  /\ known[m] = Len(log)
  /\ Len(log') = Len(log) + 1 /\ SubSeq(log', 1, Len(log)) = log

\* m learns of versions that have been committed
Learn(m) ==
  /\ \E v \in known[m] + 1 .. Len(log) : known' = [known EXCEPT ![m] = v]
  /\ UNCHANGED log

Next == \E m \in Members : Extend(m) \/ Learn(m)

Spec == Init /\ [][Next]_vars
=============================================================================
