------------------------ MODULE MCTeamEventCredit ------------------------
EXTENDS TeamEventCredit, TLC

TrajectorySymmetry == Permutations(Trajectories)

\* No discount, one of an environment step, one of an internal edge.
MCDiscounts ==
  {[env |-> 2, internal |-> 2], [env |-> 1, internal |-> 2], [env |-> 2, internal |-> 1]}
=============================================================================
