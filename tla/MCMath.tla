-------------------------------- MODULE MCMath --------------------------------
(* The math task for TLC: the orchestra on its own, with any rows left out, *)
(* whole rollouts of it, and dynamic sampling over rollouts.               *)
EXTENDS DynamicSampling, TLC

CONSTANTS
  AnyRow,         \* the row the refinement is checked for
  r1, r2, r3, r4

ASSUME AnyRowAssumption == AnyRow \in Rows

VARIABLE alone   \* the orchestra is called with masks of every kind

\* Two questions, two samples each.
MCGroupOf == (r1 :> 1) @@ (r2 :> 1) @@ (r3 :> 2) @@ (r4 :> 2)

MCInit == InitD /\ alone \in BOOLEAN /\ (alone => ~ filter_groups)

MCNext ==
  /\ IF alone THEN Next /\ UNCHANGED <<rolloutVars, dynVars>> ELSE NextD
  /\ UNCHANGED alone

MCSpec == MCInit /\ [][MCNext]_<<vars, dynVars, alone>> /\ WF_orchVars(Step)

Dialogue == INSTANCE MathChain WITH
  phase  <- PhaseOf(AnyRow),
  turns  <- Cardinality(CallsOf(AnyRow)),
  answer <- text_actions[AnyRow]

(* Batching changes nothing for a trajectory: seen from a row, the masked  *)
(* batch run is that row's own Solver/Verifier dialogue, and it makes      *)
(* progress as that dialogue does.  Rows are interchangeable, so one is    *)
(* enough.                                                                 *)
RowsAreIndependent == Dialogue!Spec

=============================================================================
