------------------------------ MODULE MathChain ------------------------------
(***************************************************************************)
(* What the math orchestra promises to one trajectory: the trajectory's    *)
(* own Solver/Verifier dialogue, with no batch around it.  The Solver and  *)
(* the Verifier alternate, the Solver speaks last when the rounds run out, *)
(* the Verifier when it accepts, and the answer in hand is always the one  *)
(* of the latest Solver turn.                                              *)
(***************************************************************************)
EXTENDS Integers

CONSTANT MaxLoop

VARIABLES
  phase,    \* "waiting": not in a run; "running"; "ended"
  turns,    \* agent calls made for the trajectory in this run
  answer    \* turn number of the response it would submit, 0 for none

chainVars == <<phase, turns, answer>>

Init == phase = "waiting" /\ turns = 0 /\ answer = 0

\* A run takes the trajectory up; a later run may also leave it out.
Begin ==
  /\ phase # "running"
  /\ phase' \in {"running", "waiting"}
  /\ turns' = 0
  /\ answer' = 0

Solve ==
  /\ phase = "running"
  /\ turns % 2 = 0
  /\ turns' = turns + 1
  /\ answer' = turns + 1
  /\ phase' = IF turns + 1 = 2 * MaxLoop - 1 THEN "ended" ELSE "running"

Verify ==
  /\ phase = "running"
  /\ turns % 2 = 1
  /\ turns' = turns + 1
  /\ phase' \in {"running", "ended"}
  /\ UNCHANGED answer

Next == Begin \/ Solve \/ Verify

Spec == Init /\ [][Next]_chainVars /\ WF_chainVars(Solve \/ Verify)

=============================================================================
