--------------------------- MODULE MathOrchestra ---------------------------
(***************************************************************************)
(* The Solver/Verifier orchestra of the math task: one call of             *)
(* MathMultiAgentOrchestra.run over a batch of rollout rows.  Every loop   *)
(* round sends the rows that are active and not yet approved to the        *)
(* Solver, then (except in the last round) to the Verifier, whose verdict  *)
(* approves rows for good.  The run stops when every row is approved or    *)
(* the rounds are used up.                                                 *)
(*                                                                         *)
(* A response is abstracted to what the program reads of it: the set of    *)
(* verdict tags it contains, and, for a Solver response, its identity,     *)
(* which is its position in the event buffer.                              *)
(***************************************************************************)
EXTENDS Integers, Sequences, FiniteSets

CONSTANTS
  Rows,      \* rows of the rollout batch
  MaxLoop,   \* config.agent.orchestra.math.max_loop_num
  Agents     \* config.agent.agent_ids

SolverAgent   == "Solver Agent"
VerifierAgent == "Verifier Agent"

ASSUME RowsAssumption    == Rows # {} /\ IsFiniteSet(Rows)
ASSUME MaxLoopAssumption == MaxLoop \in Nat \ {0}
ASSUME AgentsAssumption  == Agents \subseteq {SolverAgent, VerifierAgent} /\ Agents # {}

VARIABLES
  pc,             \* where run() is: "idle", "solver", "verifier", "label", "returned"
  active,         \* the active_masks argument, as the set of rows it selects
  loop_i,         \* loop counter
  approved,       \* approved_vector, as the set of rows it selects
  text_actions,   \* per row: buffer position of the response it holds, 0 for ""
  buffer,         \* multiagent_batch_buffer: one entry per agent call
  stop_reason     \* orchestration_stop_reason written into every entry

orchVars == <<pc, active, loop_i, approved, text_actions, buffer, stop_reason>>

-----------------------------------------------------------------------------
\* The verdict tags a response may contain, alone, together or not at all.
Tags      == {"approve", "reject"}
Responses == SUBSET Tags
Decisions == {"not_applicable", "inactive", "approve", "reject", "invalid"}
StopReasons == {"inactive", "verifier_approved", "max_loop_exhausted"}
NoReason  == "unset"

Entries ==
  [agent_id        : {SolverAgent, VerifierAgent},
   loop_index      : 0 .. MaxLoop - 1,
   mask            : SUBSET Rows,      \* agent_active_mask
   approved_before : SUBSET Rows,
   approved_after  : SUBSET Rows,
   response        : [Rows -> Responses],
   decision        : [Rows -> Decisions]]

\* Mutants: approval is not subtracted from the mask of the next call.
SolverMaskForgetsApproval   == active
VerifierMaskForgetsApproval == active

\* The rows each agent is called for: active and not yet approved.
SolverMask   == active \ approved
VerifierMask == active \ approved

\* The round after which run() leaves the loop without a Verifier call.
LastRound == loop_i = MaxLoop - 1

\* Mutant: the reject tag is looked for before the approve tag.
UpdateApprovedRejectFirst(old, mask, response) ==
  old \cup (Rows \ mask) \cup {r \in mask : "reject" \notin response[r]}

\* Mutant: an unreadable verdict counts as a rejection.
UpdateApprovedUnreadableRejects(old, mask, response) ==
  old \cup (Rows \ mask) \cup {r \in mask : "approve" \in response[r]}

\* VerifierAgent.update_approved_vector: a row the Verifier was not asked
\* about, and a row whose verdict cannot be read, both count as approved.
UpdateApproved(old, mask, response) ==
  old \cup (Rows \ mask)
      \cup {r \in mask : "approve" \in response[r] \/ "reject" \notin response[r]}

\* The verdict as the event trace records it, parsed a second time by run().
ParsedVerdict(mask, response) ==
  [r \in Rows |-> IF r \notin mask THEN "inactive"
                  ELSE IF "approve" \in response[r] THEN "approve"
                  ELSE IF "reject" \in response[r] THEN "reject"
                  ELSE "invalid"]

\* orchestration_stop_reason of every row once the loop is over.
StopReasonOf ==
  [r \in Rows |-> IF r \notin active THEN "inactive"
                  ELSE IF r \in approved THEN "verifier_approved"
                  ELSE "max_loop_exhausted"]

-----------------------------------------------------------------------------
Init ==
  /\ pc = "idle"
  /\ active = {}
  /\ loop_i = 0
  /\ approved = {}
  /\ text_actions = [r \in Rows |-> 0]
  /\ buffer = <<>>
  /\ stop_reason = [r \in Rows |-> NoReason]

\* run() is entered: the buffer and every local are fresh, whatever an
\* earlier call left behind.
Run(mask) ==
  /\ pc \in {"idle", "returned"}
  /\ active' = mask
  /\ pc' = "solver"
  /\ loop_i' = 0
  /\ approved' = {}
  /\ text_actions' = [r \in Rows |-> 0]
  /\ buffer' = <<>>
  /\ stop_reason' = [r \in Rows |-> NoReason]

SolverCalled == SolverMask # {} /\ SolverAgent \in Agents

\* What the two calls of a round leave in the buffer.
SolverEntry ==
  [agent_id        |-> SolverAgent,
   loop_index      |-> loop_i,
   mask            |-> SolverMask,
   approved_before |-> approved,
   approved_after  |-> approved,
   response        |-> [r \in Rows |-> {}],
   decision        |-> [r \in Rows |-> "not_applicable"]]

VerifierEntry(response) ==
  [agent_id        |-> VerifierAgent,
   loop_index      |-> loop_i,
   mask            |-> VerifierMask,
   approved_before |-> approved,
   approved_after  |-> UpdateApproved(approved, VerifierMask, response),
   response        |-> response,
   decision        |-> ParsedVerdict(VerifierMask, response)]

\* The Solver half of a round.  Its batch is saved to the buffer and its
\* responses become the rows' current actions; in the last round the loop
\* ends here, before the Verifier.
SolverTurn ==
  /\ pc = "solver"
  /\ IF SolverCalled
     THEN /\ buffer' = Append(buffer, SolverEntry)
          /\ text_actions' = [r \in Rows |-> IF r \in SolverMask
                                             THEN Len(buffer) + 1
                                             ELSE text_actions[r]]
     ELSE UNCHANGED <<buffer, text_actions>>
  /\ pc' = IF LastRound THEN "label" ELSE "verifier"
  /\ UNCHANGED <<active, loop_i, approved, stop_reason>>

VerifierCalled == VerifierMask # {} /\ VerifierAgent \in Agents

\* Mutant: run() does not leave early, and counts only rounds with a verdict.
NextRoundCountsVerdicts ==
  /\ pc' = "solver"
  /\ loop_i' = IF VerifierCalled THEN loop_i + 1 ELSE loop_i

\* What follows the Verifier half of a round: leave when every row of the
\* batch (not only every active one) is approved.
NextRound ==
  /\ pc' = IF approved' = Rows THEN "label" ELSE "solver"
  /\ loop_i' = IF approved' = Rows THEN loop_i ELSE loop_i + 1

VerifierTurn(response) ==
  /\ pc = "verifier"
  /\ IF VerifierCalled
     THEN /\ approved' = UpdateApproved(approved, VerifierMask, response)
          /\ buffer' = Append(buffer, VerifierEntry(response))
     ELSE UNCHANGED <<approved, buffer>>
  /\ NextRound
  /\ UNCHANGED <<active, text_actions, stop_reason>>

\* The epilogue of run(): one stop reason per row, copied into every entry.
Label ==
  /\ pc = "label"
  /\ pc' = "returned"
  /\ stop_reason' = StopReasonOf
  /\ UNCHANGED <<active, loop_i, approved, text_actions, buffer>>

\* The responses a call may return.  Rows outside the mask carry filler.
VerifierResponses ==
  {response \in [Rows -> Responses] : \A r \in Rows \ VerifierMask : response[r] = {}}

Step ==
  \/ SolverTurn
  \/ \E response \in VerifierResponses : VerifierTurn(response)
  \/ Label

\* On its own the orchestra is called again and again, each time with the
\* rows its caller still has to finish (at least one, or the caller stops).
Next ==
  \/ \E mask \in (SUBSET Rows) \ {{}} : Run(mask)
  \/ Step

Spec     == Init /\ [][Next]_orchVars
FairSpec == Spec /\ WF_orchVars(Step)

-----------------------------------------------------------------------------
\* Types of the variables.
TypeOK ==
  /\ pc \in {"idle", "solver", "verifier", "label", "returned"}
  /\ active \subseteq Rows
  /\ loop_i \in 0 .. MaxLoop - 1
  /\ approved \subseteq Rows
  /\ text_actions \in [Rows -> Nat]
  /\ buffer \in Seq(Entries)
  /\ stop_reason \in [Rows -> StopReasons \cup {NoReason}]

\* The buffer positions of the calls row r took part in.
CallsOf(r) == {p \in 1 .. Len(buffer) : r \in buffer[p].mask}

SolverCall(p) == buffer[p].agent_id = SolverAgent

(* When run() returns, the calls of every active row are the first n calls *)
(* of the batch, Solver and Verifier in turn, and n is a legal length: the *)
(* row stopped after a Verifier before the last round, or after the last   *)
(* round's bare Solver (team_event_math_value.allowed_math_chains).        *)
LegalChain ==
  pc = "returned" =>
    \A r \in active :
      \E n \in 1 .. 2 * MaxLoop - 1 :
        /\ CallsOf(r) = 1 .. n
        /\ \A p \in 1 .. n : SolverCall(p) <=> p % 2 = 1
        /\ n % 2 = 0 \/ n = 2 * MaxLoop - 1

(* When run() returns, the action it hands back for an active row is the   *)
(* response of the last Solver call made for that row; if the recorded     *)
(* stop reason is verifier_approved, the call right after it is the        *)
(* Verifier call that let this very answer pass, and otherwise no Verifier *)
(* let any of the row's answers pass.                                      *)
AnswerIsJudged ==
  pc = "returned" =>
    \A r \in active :
      LET a == text_actions[r] IN
      /\ a \in CallsOf(r) /\ SolverCall(a)
      /\ \A p \in CallsOf(r) : SolverCall(p) => p <= a
      /\ IF stop_reason[r] = "verifier_approved"
         THEN /\ a + 1 \in CallsOf(r) /\ ~ SolverCall(a + 1)
              /\ buffer[a + 1].decision[r] # "reject"
         ELSE \A p \in CallsOf(r) : ~ SolverCall(p) => buffer[p].decision[r] = "reject"

ApprovalKept ==
  pc \in {"solver", "verifier", "label"} =>
    /\ approved \subseteq approved'
    /\ \A r \in active \cap approved :
         /\ text_actions'[r] = text_actions[r]
         /\ \A p \in (Len(buffer) + 1) .. Len(buffer') : r \notin (buffer'[p]).mask

(* Approval is final inside a run: once a row is approved, no step of the  *)
(* run revokes it, calls an agent for it or changes the action it holds.   *)
ApprovedRowsAreFinal == [][ApprovalKept]_orchVars

(* Every run returns: the loop cannot go on without calls.                 *)
RunReturns == (pc = "solver") ~> (pc = "returned")

\* The dialogue of one row, seen through the batched run.
PhaseOf(r) ==
  IF r \notin active THEN "waiting"
  ELSE IF r \in approved \/ Cardinality(CallsOf(r)) = 2 * MaxLoop - 1 THEN "ended"
  ELSE "running"

=============================================================================
