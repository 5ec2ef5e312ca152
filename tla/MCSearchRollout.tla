---------------------------- MODULE MCSearchRollout ----------------------------
(* Small instances of SearchRollout and of its audit for TLC.              *)
EXTENDS SearchAudit, TLC

CONSTANTS a, A, b   \* three query texts; a and A differ in spelling only
ASSUME TextAssumption == Cardinality({a, A, b}) = 3

SpellingOf == [q \in Queries |-> IF q = A THEN a ELSE q]

\* No operator of the rollout tells two rows apart.
RowSymmetry == Permutations(Rows)

=============================================================================
