------------------------------- MODULE Election -------------------------------
(***************************************************************************)
(* What an election promises to the rest of the monitor, with no messages   *)
(* and no timers.  A monitor has a persistent epoch that only grows.  It    *)
(* leaves a quorum at any time.  It wins an election by moving from an odd  *)
(* epoch to the next one with a majority whose members have all reached     *)
(* that odd epoch, and follows a winner only by moving to the winner's      *)
(* epoch from the one just before.  Two monitors may win the same epoch;    *)
(* no monitor enters it twice.                                              *)
(***************************************************************************)
EXTENDS Naturals, FiniteSets

CONSTANTS
  N,         \* the size of the monmap
  MaxEpoch   \* bound on the epochs

Monitors == 0 .. N - 1

VARIABLES
  epoch,     \* epoch[m]: the epoch m will remember after a restart
  role,      \* role[m]: "out", "leader" or "peon"
  leader,    \* leader[m], quorum[m]: the regime m belongs to, if any
  quorum,
  won        \* every regime that was ever announced

vars == <<epoch, role, leader, quorum, won>>

Regime(e, l, Q) == [epoch |-> e, leader |-> l, quorum |-> Q]

Init ==
  /\ epoch = [m \in Monitors |-> 1]
  /\ role = [m \in Monitors |-> "out"]
  /\ leader = [m \in Monitors |-> m]
  /\ quorum = [m \in Monitors |-> {}]
  /\ won = {}

\* m starts or joins an election, bootstraps or restarts.
Leave(m) ==
  /\ role' = [role EXCEPT ![m] = "out"]
  /\ epoch' \in {[epoch EXCEPT ![m] = e] : e \in epoch[m] .. MaxEpoch}
  /\ leader' = [leader EXCEPT ![m] = m]
  /\ quorum' = [quorum EXCEPT ![m] = {}]
  /\ UNCHANGED won

Enter(m, e, l, Q) ==
  /\ epoch[m] + 1 = e
  /\ epoch' = [epoch EXCEPT ![m] = e]
  /\ leader' = [leader EXCEPT ![m] = l]
  /\ quorum' = [quorum EXCEPT ![m] = Q]

Win(m) ==
  /\ epoch[m] % 2 = 1
  /\ \E Q \in SUBSET Monitors :
        /\ m \in Q /\ 2 * Cardinality(Q) > N /\ \A x \in Q : m <= x
        /\ \A x \in Q : epoch[x] >= epoch[m]
        /\ Enter(m, epoch[m] + 1, m, Q)
        /\ won' = won \cup {Regime(epoch[m] + 1, m, Q)}
  /\ role' = [role EXCEPT ![m] = "leader"]

Follow(m) ==
  /\ \E w \in won : m \in w.quorum /\ Enter(m, w.epoch, w.leader, w.quorum)
  /\ role' = [role EXCEPT ![m] = "peon"]
  /\ UNCHANGED won

Next == \E m \in Monitors : Leave(m) \/ Win(m) \/ Follow(m)

Spec == Init /\ [][Next]_vars
=============================================================================
