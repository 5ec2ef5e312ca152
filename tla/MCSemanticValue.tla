--------------------------- MODULE MCSemanticValue ---------------------------
(* Small instances of SemanticValue for TLC.                               *)
EXTENDS SemanticValue, TLC

CONSTANTS TrainQ, ValQ, solver, verifier

Rec(q, label, fate) == [question |-> q, label |-> label, fate |-> fate]

\* Enough of everything at once, one more held-out trajectory of either
\* outcome, one more training trajectory, and rows that are not learnt from.
AllBatches ==
  {{Rec(TrainQ, 0, "ok"), Rec(TrainQ, 1, "ok"), Rec(ValQ, 0, "ok"), Rec(ValQ, 1, "ok")},
   {Rec(ValQ, 0, "ok")},
   {Rec(ValQ, 1, "ok"), Rec(TrainQ, 1, "skipped")},
   {Rec(TrainQ, 1, "ok"), Rec(ValQ, 0, "ineligible")}}

RoleSymmetry == Permutations(Roles)

=============================================================================
