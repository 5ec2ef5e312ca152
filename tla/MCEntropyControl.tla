--------------------------- MODULE MCEntropyControl ---------------------------
(* Small instances of EntropyControl for TLC.                              *)
EXTENDS EntropyControl

CONSTANTS solver, verifier

Row(traj, role, turn, copy, good, eligible, scored, dropped) ==
  [traj |-> traj, role |-> role, turn |-> turn, copy |-> copy, good |-> good,
   eligible |-> eligible, scored |-> scored, dropped |-> dropped]

Executed(traj, role, turn) == Row(traj, role, turn, 1, TRUE, TRUE, TRUE, TRUE)

\* Two trajectories of one solver turn; one action with a copy, and the other
\* role; two turns of one trajectory and an unscored action; an invalid one.
AllBatches ==
  {{Executed(1, solver, 0), Executed(2, solver, 0)},
   {Executed(1, solver, 0), [Executed(1, solver, 0) EXCEPT !.copy = 2], Executed(1, verifier, 0)},
   {Executed(1, solver, 0), Executed(1, solver, 1), Executed(2, solver, 0), Executed(2, solver, 1),
    [Executed(3, solver, 1) EXCEPT !.scored = FALSE]},
   {[Executed(1, solver, 0) EXCEPT !.good = FALSE],
    [Executed(1, verifier, 0) EXCEPT !.dropped = FALSE], Executed(2, verifier, 0)}}

=============================================================================
