-------------------------- MODULE MCPGReservations --------------------------
(* Instances of PGReservations for TLC: the .cfg files give the bounds. *)
EXTENDS PGReservations

Place(primary, others, targets) == [primary |-> primary, others |-> others, targets |-> targets]

Cluster(layout, max, slots, priorities, intervals, configs, fulls, giveups, errors, failures, all) ==
  [layout |-> layout, max |-> max, slots |-> slots, priorities |-> priorities,
   left |-> [interval |-> intervals, config |-> configs, full |-> fulls, giveup |-> giveups,
             error |-> errors, failure |-> failures, all |-> all]]

\* Two PGs that need the slots of the same two OSDs, which have one; one trouble
Crossing ==
  Cluster([x |-> Place(1, {2, 3}, {}), y |-> Place(4, {2, 3}, {})], 1, {1, 2}, {3},
          1, 1, 1, 1, 1, 0, 1)

\* A PG that both recovers and backfills, with two targets; two troubles
Wide == Cluster([x |-> Place(1, {2, 3}, {2, 3})], 1, {}, {}, 1, 0, 2, 2, 1, 1, 2)

\* A PG with two replicas in which errors are found
Plain == Cluster([x |-> Place(1, {2, 3}, {})], 1, {1}, {}, 0, 0, 0, 0, 2, 0, 2)

Several == {Crossing, Wide, Plain}
=============================================================================
