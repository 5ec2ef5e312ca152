----------------------------- MODULE SearchChain -----------------------------
(***************************************************************************)
(* What the search rollout promises to one trajectory: an episode of its   *)
(* own, with no batch around it.  At every turn the Verifier chooses who   *)
(* acts, and that agent alone writes the turn's text.  Turn MaxSteps is    *)
(* the Answer agent's; the episode ends with it, or with the first text    *)
(* that holds an answer, and is paid for once, when it ends.               *)
(***************************************************************************)
EXTENDS Integers

CONSTANTS MaxSteps, SearchAgent, AnswerAgent, Nobody

VARIABLES
  phase,    \* "deciding", "acting", "acted", "ended"
  turn,     \* turns begun
  chosen,   \* who is to act, Nobody between turns
  author,   \* who wrote the turn's text, Nobody before that
  closes,   \* whether the text holds an answer
  reward

chainVars == <<phase, turn, chosen, author, closes, reward>>

BetweenTurns == chosen = Nobody /\ author = Nobody /\ closes = FALSE

Init == phase = "deciding" /\ turn = 1 /\ BetweenTurns /\ reward = 0

Decide ==
  /\ phase = "deciding" /\ phase' = "acting"
  /\ chosen' \in {AnswerAgent} \cup (IF turn < MaxSteps THEN {SearchAgent} ELSE {})
  /\ UNCHANGED <<turn, author, closes, reward>>

Act ==
  /\ phase = "acting" /\ phase' = "acted"
  /\ author' = chosen
  /\ closes' \in BOOLEAN
  /\ UNCHANGED <<turn, chosen, reward>>

GoOn ==
  /\ phase = "acted" /\ ~ closes /\ turn < MaxSteps
  /\ phase' = "deciding" /\ turn' = turn + 1
  /\ BetweenTurns'
  /\ UNCHANGED reward

End ==
  /\ phase = "acted" /\ (closes \/ turn = MaxSteps)
  /\ phase' = "ended"
  /\ BetweenTurns'
  /\ reward' \in {0, 1}
  /\ UNCHANGED turn

\* The next episode.
Again ==
  /\ phase = "ended" /\ phase' = "deciding"
  /\ turn' = 1 /\ reward' = 0
  /\ UNCHANGED <<chosen, author, closes>>

Next == Decide \/ Act \/ GoOn \/ End \/ Again

Spec == Init /\ [][Next]_chainVars

=============================================================================
