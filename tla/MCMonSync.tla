------------------------------ MODULE MCMonSync ------------------------------
EXTENDS MonSync

Start(Q, lc, maxCommits, maxTimeouts, maxCrashes, maxForces) ==
  [quorum |-> Q, lc |-> [m \in Rank |-> lc[m + 1]], commits |-> maxCommits,
   timeouts |-> maxTimeouts, crashes |-> maxCrashes, forces |-> maxForces]

LateMonitor ==
  { \* empty next to a quorum that begins to trim
    Start({0, 1}, <<3, 3, 0>>, 1, 1, 0, 0),
    \* far behind a quorum that goes on committing
    Start({0, 1}, <<4, 4, 1>>, 1, 1, 0, 0),
    \* near a quorum that trims what it needs while it catches up, or while the election
    \* it has called goes on
    Start({0, 1}, <<2, 2, 1>>, 3, 0, 0, 0),
    \* far behind, and behind, a quorum that loses a member
    Start({0, 1}, <<5, 5, 1>>, 0, 0, 1, 0),
    Start({0, 1}, <<5, 5, 3>>, 0, 0, 1, 0),
    \* made to synchronize when all the others are up to date
    Start({0, 1, 2}, <<5, 5, 5>>, 0, 0, 1, 1)}

\* The example of the comment on sync_last_committed_floor: a quorum of two, the third
\* monitor behind
ForcedMember == {Start({0, 2}, <<3, 1, 3>>, 0, 0, 1, 1)}
=============================================================================
