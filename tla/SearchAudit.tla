----------------------------- MODULE SearchAudit -----------------------------
(***************************************************************************)
(* The offline audit of the event trace: what audit_search_event_records   *)
(* says of the trajectories SearchRollout recorded (event_trace_audit.py). *)
(* Token lists, identifiers, hashes and prompts are left out.              *)
(***************************************************************************)
EXTENDS SearchRollout

\* The records of a trajectory, those of one of its steps, and one agent's.
Records(r)   == {events[r][i] : i \in 1 .. Len(events[r])}
Steps(r)     == {e.env_step : e \in Records(r)}
StepOf(r, s) == {i \in 1 .. Len(events[r]) : events[r][i].env_step = s}
CallsOf(r, agent) == {i \in 1 .. Len(events[r]) : events[r][i].agent = agent}

\* Mutant: the records carry the environment's count of tool calls.
DumpedAsCounted(r) == tool_callings[r]

\* iter_event_trace_records: the environment counts every step that goes on,
\* a malformed Answer's too, so the dump counts the searches anew.
DumpedToolCallings(r) == Cardinality(CallsOf(r, SearchAgent))

\* _record_shape_errors: the counters of one record.
ShapeIsGood(e) ==
  /\ {e.turn - 1, e.slots, e.attempts, e.successes, e.duplicates} \subseteq Nat
  /\ e.successes <= e.attempts /\ e.duplicates <= e.attempts

\* The Verifier and the owner of the action, in this order, and no one else.
RolesAreLegal(r, s) ==
  \E i, j \in 1 .. Len(events[r]) :
    /\ i < j /\ StepOf(r, s) = {i, j}
    /\ events[r][i].agent = VerifierAgent /\ events[r][j].agent \in {SearchAgent, AnswerAgent}

\* What every record of a step says of the step.
StepFacts(e) == <<e.plan, e.turn, e.slots, e.attempts, e.successes, e.duplicates>>

FieldsAgree(r, s) ==
  /\ Cardinality({StepFacts(events[r][i]) : i \in StepOf(r, s)}) = 1
  /\ \A i \in StepOf(r, s) : events[r][i].turn = s + 1

\* The decision, target, reason and forced flag of a route fit together.
RouteIsLegal(e) ==
  LET p == e.plan IN
  /\ p.decision \in {"yes", "no", "invalid"} /\ p.target \in {SearchAgent, AnswerAgent}
  /\ p.decision = "yes" => p.target = AnswerAgent /\ p.reason = "verifier_yes" /\ ~ p.forced
  /\ p.decision = "no" /\ p.target = SearchAgent => p.reason = "verifier_no" /\ ~ p.forced
  /\ p.decision = "no" /\ p.target = AnswerAgent => p.reason = "forced_last_step" /\ p.forced
  /\ p.decision = "invalid" /\ p.target = SearchAgent =>
       p.reason = "invalid_verifier_fallback_search" /\ ~ p.forced
  /\ p.decision = "invalid" /\ p.target = AnswerAgent =>
       \/ p.reason = "invalid_verifier_fallback_answer" /\ ~ p.forced
       \/ p.reason = "forced_last_step_after_invalid_verifier" /\ p.forced
  /\ p.forced => e.slots = 0

\* One environment action, and its author is the route's target.
ActionIsOwned(r, s) ==
  \E i \in StepOf(r, s) :
    /\ {j \in StepOf(r, s) : events[r][j].is_env_action} = {i}
    /\ events[r][i].agent = events[r][i].plan.target

Statuses == {"success", "no_results", "invalid_query", "api_error",
             "processing_error", "unknown_api_state", "execution_error"}

\* build_search_transition_fields: a Search action counts as a tool call, with
\* the query and the observation the environment reports: neither when it ended
\* the episode, an observation only if there were search tags to ask with.  The
\* environment manager leaves status, validity and result count at None, which
\* excuses nothing.
ToolStatusGiven(e) == e.agent = SearchAgent => ToolStatus(e.docs) \in Statuses
ToolQueryGiven(e)  == e.agent = SearchAgent => e.text.query # NoQuery /\ ~ e.done
ObservationGiven(e) == e.agent = SearchAgent => e.text.tagged /\ ~ e.done

\* A forced Answer call and a forced stop reason come together.
StopIsCompatible(r) ==
  StopReason(r) \in {"forced_answer_submitted", "forced_answer_invalid"}
    <=> \E i \in 1 .. Len(events[r]) : events[r][i].agent = AnswerAgent /\ events[r][i].plan.forced

\* The checks of the audit on one trajectory, by what an error of each says.
Verdict(r) ==
  [shape          |-> \A e \in Records(r) : ShapeIsGood(e),
   order          |-> \A i, j \in 1 .. Len(events[r]) :
                        i < j => events[r][i].env_step <= events[r][j].env_step,
   roles          |-> \A s \in Steps(r) : RolesAreLegal(r, s),
   fields         |-> \A s \in Steps(r) : FieldsAgree(r, s),
   route          |-> \A e \in Records(r) : RouteIsLegal(e),
   owner          |-> \A s \in Steps(r) : ActionIsOwned(r, s),
   tool_status    |-> \A e \in Records(r) : ToolStatusGiven(e),
   tool_query     |-> \A e \in Records(r) : ToolQueryGiven(e),
   observation    |-> \A e \in Records(r) : ObservationGiven(e),
   stop_reason    |-> StopIsCompatible(r),
   verifier_count |-> Cardinality(CallsOf(r, VerifierAgent)) = episode_lengths[r],
   search_count   |-> Cardinality(CallsOf(r, SearchAgent)) = DumpedToolCallings(r),
   answer_ends    |-> \A e \in Records(r) : e.agent = AnswerAgent /\ e.text.closes => e.done]

Complaints(r) == LET v == Verdict(r) IN {check \in DOMAIN v : ~ v[check]}

-----------------------------------------------------------------------------
(* What the audit says of the traces the rollout writes.  Routing, roles,  *)
(* ledger fields, owners, stop reasons and counts of every trajectory      *)
(* pass, with rows that end at different steps and Answer turns that end   *)
(* nothing.  One check never fits the writer: the status, validity and     *)
(* result count of a search are missing, so that the audit passes just the *)
(* trajectories without one.  Two more depend on the texts: a search that  *)
(* ended the episode, which can only be the last call, and one without     *)
(* search tags have neither query nor observation, and one with nothing    *)
(* between its tags has no query                                           *)
(* (audit_search_event_records, build_search_transition_fields, SearchEnv).*)
TraceIsAudited ==
  /\ StopReasonIsOfTheLastStep
  /\ pc = "done" =>
       \A r \in Rows :
         LET errors == Complaints(r) IN
         /\ errors \subseteq {"tool_status", "tool_query", "observation"}
         /\ "tool_status" \in errors <=> Attempts(r) # {}
         /\ "tool_query" \in errors <=>
              \E i \in Attempts(r) : i = Len(events[r]) \/ i \notin Asked(r)
         /\ "observation" \in errors <=>
              \E i \in Attempts(r) : i = Len(events[r]) \/ ~ events[r][i].text.tagged
         /\ errors = {} <=> Attempts(r) = {}

=============================================================================
