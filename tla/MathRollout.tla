----------------------------- MODULE MathRollout -----------------------------
(***************************************************************************)
(* One rollout of the math task: MultiAgentTrajectoryCollector steps the   *)
(* environment with the answers of the orchestra (module MathOrchestra),   *)
(* binds the environment's verdict to the agent calls of every row, and    *)
(* hands each trajectory to the readers that check it again: the chain     *)
(* contract of the event trace, the credit estimator, and the semantic     *)
(* value scorer, which replays the orchestra's stop rule from the texts.   *)
(***************************************************************************)
EXTENDS MathOrchestra

CONSTANT MaxSteps   \* config.env.max_steps
ASSUME MaxStepsAssumption == MaxSteps \in Nat \ {0}

VARIABLES
  phase,            \* "loop", "orchestra", "gather", "gathered", "raised"
  env_step,         \* environment steps taken
  is_done,          \* rows whose environment has finished
  episode_rewards,  \* per row: reward summed over its environment steps
  total,            \* total_batch_list: per row, the events of its calls
  trajectory,       \* the annotated and finalized events, per row
  graded            \* history: per row, the response its environment graded last

rolloutVars == <<phase, env_step, is_done, episode_rewards, total, trajectory, graded>>
vars == <<orchVars, rolloutVars>>

Nobody == "none"   \* Python's None in owner and reference fields

-----------------------------------------------------------------------------
\* resolve_math_terminal_positions: the last call made for an active row, and
\* the last of them that was a Solver call; 0 for None.
LastOf(S) == IF S = {} THEN 0 ELSE CHOOSE p \in S : \A q \in S : q <= p

TerminalPosition(r) == IF r \in active THEN LastOf(CallsOf(r)) ELSE 0

\* Mutant: the first answer is recorded as the submitted one.
SubmittedPositionFirst(r) ==
  IF r \in active
  THEN CHOOSE p \in CallsOf(r) : SolverCall(p) /\ \A q \in CallsOf(r) : p <= q
  ELSE 0

SubmittedPosition(r) ==
  IF r \in active THEN LastOf({p \in CallsOf(r) : SolverCall(p)}) ELSE 0

\* annotate_math_step_events: the facts call p of row r is given.  Only the
\* row's last call owns the environment's transition and carries its outcome.
EventOf(r, p, reward, done) ==
  LET owner == TerminalPosition(r) = p IN
  [agent_id         |-> buffer[p].agent_id,
   response         |-> buffer[p].response[r],
   is_env_action    |-> owner,
   env_action_owner |-> IF owner THEN buffer[p].agent_id ELSE Nobody,
   env_reward       |-> IF owner THEN reward[r] ELSE 0,
   env_done         |-> owner /\ r \in done,
   position         |-> p,
   submitted        |-> SubmittedPosition(r),
   transition       |-> TerminalPosition(r)]

\* The k-th call of row r.
Call(r, k) == CHOOSE p \in CallsOf(r) : Cardinality({q \in CallsOf(r) : q <= p}) = k

\* The events of one environment step of row r, in call order.
StepEvents(r, reward, done) ==
  [k \in 1 .. Cardinality(CallsOf(r)) |-> EventOf(r, Call(r, k), reward, done)]

\* The adapter refuses a step without any agent call.
AnnotateRaises == buffer = <<>>

-----------------------------------------------------------------------------
\* annotate_trajectory_events: stable identities in call order.
Kind(e) == IF e.agent_id = SolverAgent THEN "math_solution" ELSE "math_verifier"

RoleIndex(events, i) ==
  Cardinality({j \in 1 .. i - 1 : events[j].agent_id = events[i].agent_id})

\* allowed_math_chains: k Solver rounds, each followed by the Verifier except
\* the last one of a chain that used every round.
AllowedChains ==
  {[i \in 1 .. (IF k < MaxLoop THEN 2 * k ELSE 2 * k - 1) |->
      IF i % 2 = 1 THEN "math_solution" ELSE "math_verifier"] : k \in 1 .. MaxLoop}

\* finalize_math_trajectory_events and team_event_math_value._validated_chains:
\* the complete chain contract.
ChainRaises(events) ==
  LET n == Len(events) IN
  \/ events = <<>>
  \/ [i \in 1 .. n |-> Kind(events[i])] \notin AllowedChains
  \/ {i \in 1 .. n : events[i].is_env_action} # {n}
  \/ {i \in 1 .. n : events[i].env_done} # {n}
  \/ \E i \in 1 .. n - 1 : events[i].env_action_owner # Nobody \/ events[i].env_reward # 0
  \/ events[n].env_action_owner # events[n].agent_id
  \/ events[n].env_reward \notin {0, 1}
  \/ \A i \in 1 .. n : events[i].position = events[1].submitted => events[i].agent_id # SolverAgent
  \/ events[1].transition # events[n].position

\* The references of a finalized trajectory, as event indices.
IndexOfPosition(events, p) ==
  CHOOSE i \in 1 .. Len(events) : events[i].position = p

Finalized(events) ==
  [i \in 1 .. Len(events) |->
     [agent_id             |-> events[i].agent_id,
      response             |-> events[i].response,
      env_reward           |-> events[i].env_reward,
      position             |-> events[i].position,
      role_event_index     |-> RoleIndex(events, i),
      submitted_solution   |-> IndexOfPosition(events, events[1].submitted),
      transition_owner     |-> Len(events)]]

-----------------------------------------------------------------------------
\* semantic_credit._collect_trajectories and semantic_value._validate_record:
\* the scorer replays the stop rule over the recorded texts and drops a
\* trajectory that does not stop exactly where the replay says it must.
ReplayTerminal(e) ==
  IF e.agent_id = SolverAgent
  THEN e.role_event_index + 1 = MaxLoop
  ELSE "approve" \in e.response \/ "reject" \notin e.response

ReplayRaises(events) ==
  \E i \in 1 .. Len(events) :
    \/ (events[i].agent_id = SolverAgent) # (i % 2 = 1)
    \/ events[i].role_event_index # (i - 1) \div 2
    \/ ReplayTerminal(events[i]) # (i = Len(events))

-----------------------------------------------------------------------------
RolloutInit ==
  /\ phase = "loop"
  /\ env_step = 0
  /\ is_done = {}
  /\ episode_rewards = [r \in Rows |-> 0]
  /\ total = [r \in Rows |-> <<>>]
  /\ trajectory = [r \in Rows |-> <<>>]
  /\ graded = [r \in Rows |-> 0]

InitR == Init /\ RolloutInit

\* The loop hands the orchestra the rows that are not done.
CallOrchestra ==
  /\ phase = "loop"
  /\ Run(Rows \ is_done)
  /\ phase' = "orchestra"
  /\ UNCHANGED <<env_step, is_done, episode_rewards, total, trajectory, graded>>

OrchestraStep == phase = "orchestra" /\ Step /\ UNCHANGED rolloutVars

\* MathEnv.step: an empty action earns nothing, any other is graded 0 or 1,
\* and the environment is always done afterwards.
Grades == {reward \in [Rows -> {0, 1}] : \A r \in Rows : text_actions[r] = 0 => reward[r] = 0}

\* env.step for all rows, the annotation of the calls with its outcome, and
\* the collection of the calls of the active rows.
EnvStep(reward) ==
  LET done == Rows IN
  /\ phase = "orchestra" /\ pc = "returned"
  /\ IF AnnotateRaises
     THEN /\ phase' = "raised"
          /\ UNCHANGED <<env_step, is_done, episode_rewards, total, graded>>
     ELSE /\ env_step' = env_step + 1
          /\ episode_rewards' = [r \in Rows |-> episode_rewards[r]
                                   + (IF r \in active THEN reward[r] ELSE 0)]
          /\ total' = [r \in Rows |-> total[r] \o StepEvents(r, reward, done)]
          /\ is_done' = is_done \cup done
          /\ graded' = text_actions
          /\ phase' = IF is_done' = Rows \/ env_step' = MaxSteps THEN "gather" ELSE "loop"
  /\ UNCHANGED <<orchVars, trajectory>>

\* gather_rollout_data: a trajectory that breaks the chain contract fails the
\* whole rollout.
Gather ==
  /\ phase = "gather"
  /\ IF \E r \in Rows : ChainRaises(total[r])
     THEN phase' = "raised" /\ UNCHANGED trajectory
     ELSE phase' = "gathered" /\ trajectory' = [r \in Rows |-> Finalized(total[r])]
  /\ UNCHANGED <<orchVars, env_step, is_done, episode_rewards, total, graded>>

\* The trainer starts the next rollout with fresh collections; the orchestra
\* object, and whatever its last run left in it, is reused.
NextRollout ==
  /\ phase = "gathered"
  /\ phase' = "loop"
  /\ env_step' = 0
  /\ is_done' = {}
  /\ episode_rewards' = [r \in Rows |-> 0]
  /\ total' = [r \in Rows |-> <<>>]
  /\ trajectory' = [r \in Rows |-> <<>>]
  /\ graded' = [r \in Rows |-> 0]
  /\ UNCHANGED orchVars

Progress ==
  \/ CallOrchestra
  \/ OrchestraStep
  \/ \E reward \in Grades : EnvStep(reward)
  \/ Gather

NextR == Progress \/ NextRollout

SpecR == InitR /\ [][NextR]_vars

-----------------------------------------------------------------------------
(* Whatever the agents answer, no row makes the event adapter or the chain *)
(* contract raise: the orchestra produces only chains the trace accepts,   *)
(* so a rollout is never lost.                                             *)
RolloutNeverRaises == phase # "raised"

(* The scorer's own replay of the stop rule agrees with the orchestra on   *)
(* every trajectory: none is dropped as truncated or as running on after   *)
(* its end, and a Verifier event approves its row exactly where the replay *)
(* says the dialogue is over.                                              *)
ReplayAgrees == phase = "gathered" => \A r \in Rows : ~ ReplayRaises(trajectory[r])

(* No reader of a rollout disagrees with the orchestra.                    *)
ReadersAgree == RolloutNeverRaises /\ ReplayAgrees

(* The trajectory's outcome is attached to the right responses: its        *)
(* submitted solution is the response the environment graded, its rewards  *)
(* add up to the episode's reward, and only its last event carries one.    *)
CreditFollowsGrade ==
  phase = "gathered" =>
    \A r \in Rows :
      LET t == trajectory[r]
          n == Len(t) IN
      /\ t[t[n].submitted_solution].position = graded[r]
      /\ t[t[n].transition_owner].env_reward = episode_rewards[r]
      /\ \A i \in 1 .. n - 1 : t[i].env_reward = 0
      /\ graded[r] \in {t[n].position, t[n].position - 1}

=============================================================================
