---------------------------- MODULE SearchRollout ----------------------------
(***************************************************************************)
(* A rollout of the search task.  At every step the orchestra's Verifier   *)
(* routes each unfinished row to the Search or the Answer agent, the       *)
(* environments run the texts on a thread pool, and the environment        *)
(* manager records the outcome in the row's protocol ledger, which is all  *)
(* the agents see of the past at the next step (search_orchestra.py,       *)
(* search_protocol.py, env_manager.py, rollout_loop.py, SearchEnv).        *)
(***************************************************************************)
EXTENDS Integers, Sequences, FiniteSets

CONSTANTS
  Rows,           \* the rows of the batch
  MaxSteps,       \* config.env.max_steps: the loop's, and each environment's
  Queries,        \* query texts the Search agent may write
  Spelling,       \* Spelling[q]: q casefolded, its white space collapsed
  NoQuery,        \* the query of a text without one: extract_search_query's None
  Retrieval,      \* what the retriever may answer: with documents or not
  HistoryLimit,   \* env.search_protocol.max_history
  InvalidRoute    \* env.search_protocol.invalid_verifier_route

VerifierAgent == "Verifier Agent"
SearchAgent == "Search Agent"
AnswerAgent == "Answer Agent"
Nobody      == "inactive"

ASSUME SearchAssumption ==
  /\ Rows # {} /\ IsFiniteSet(Rows)
  /\ MaxSteps \in Nat \ {0} /\ HistoryLimit \in Nat
  /\ NoQuery \notin Queries /\ DOMAIN Spelling = Queries
  /\ Retrieval # {} /\ Retrieval \subseteq BOOLEAN
  /\ InvalidRoute \in {SearchAgent, AnswerAgent}

VARIABLES
  pc,               \* "verify", "search", "answer", "env", "done"
  step,             \* _step + 1
  plan,             \* last_route_plan: [decision, target, reason, forced] of each row
  text_actions,     \* the text each row submits: [by, query, tagged, closes]
  env,              \* SearchEnv of each row: [turns, done, score]
  result,           \* what each row's thread returned, NoResult before that
  ledger,           \* search_protocol_states
  shown,            \* the copy of the ledger in the observation of this step
  is_done,          \* rows whose environment has finished
  episode_rewards,
  episode_lengths,
  tool_callings,
  events            \* total_batch_list: the calls of each row

vars == <<pc, step, plan, text_actions, env, result, ledger, shown, is_done,
          episode_rewards, episode_lengths, tool_callings, events>>

-----------------------------------------------------------------------------
(* Texts.  general_projection cuts an agent's answer down to its own tags, *)
(* and to "" when they are missing; what is between the tags is free, so   *)
(* a search action may hold a pair of <answer> tags.  Between its own tags *)
(* there may be nothing: the ledger then reads no query, while SearchEnv   *)
(* asks the retriever for "".  An Answer text closes or is "", so that its *)
(* search tags are never looked for.                                       *)
EmptyText(by) == [by |-> by, query |-> NoQuery, tagged |-> FALSE, closes |-> FALSE]

Blank == EmptyText(Nobody)

TextsOf(agent) ==
  IF agent = SearchAgent
  THEN [by : {SearchAgent}, query : {NoQuery}, tagged : BOOLEAN, closes : {FALSE}]
         \cup [by : {SearchAgent}, query : Queries, tagged : {TRUE}, closes : BOOLEAN]
  ELSE [by : {AnswerAgent}, query : {NoQuery}, tagged : {FALSE}, closes : BOOLEAN]

NewLedger ==
  [turns |-> 0, attempts |-> 0, successes |-> 0, duplicates |-> 0, status |-> "none",
   seen |-> {}, queries |-> <<>>, evidence |-> <<>>, evidence_count |-> 0]

\* History pruning: the last n entries, all of them if there are fewer.
Kept(s, n) == IF Len(s) <= n THEN s ELSE SubSeq(s, Len(s) - n + 1, Len(s))

\* Mutant: a repeat is looked for among the queries the ledger still keeps.
IsDuplicateOfKept(l, q) ==
  q # NoQuery /\ \E i \in 1 .. Len(l.queries) : l.queries[i].norm = Spelling[q]

\* A repeat of any earlier query, kept or pruned, up to spelling.
IsDuplicate(l, q) == q # NoQuery /\ Spelling[q] \in l.seen

\* SearchEnv.step describes a tool call by tool_calling, tool_name and
\* tool_input.  The retriever's status stays inside SearchToolGroup.search, and
\* SearchEnvironmentManager.step sets the missing tool_status to None.
ToolStatus(docs) == "none"

\* update_search_protocol_state: one factual transition of a row.
Recorded(l, text, is_search, docs) ==
  LET turn    == l.turns + 1
      q       == text.query
      dup     == IsDuplicate(l, q)
      given   == ToolStatus(docs)
      status  == IF given # "none" THEN given
                 ELSE IF q = NoQuery THEN "invalid_query" ELSE "unknown"
      success == status = "success"
      proof   == success /\ q # NoQuery /\ docs
      entry   == [turn |-> turn, norm |-> IF q = NoQuery THEN NoQuery ELSE Spelling[q], dup |-> dup]
  IN  IF ~ is_search THEN [l EXCEPT !.turns = turn]
      ELSE [turns          |-> turn,
            attempts       |-> l.attempts + 1,
            successes      |-> l.successes + (IF success THEN 1 ELSE 0),
            duplicates     |-> l.duplicates + (IF dup THEN 1 ELSE 0),
            status         |-> status,
            seen           |-> l.seen \cup (IF q = NoQuery THEN {} ELSE {Spelling[q]}),
            queries        |-> Kept(Append(l.queries, entry), HistoryLimit),
            evidence       |-> Kept(IF proof THEN Append(l.evidence, turn) ELSE l.evidence, HistoryLimit),
            evidence_count |-> l.evidence_count + (IF proof THEN 1 ELSE 0)]

\* remaining_search_slots: what a prompt says under "Retrieval slots
\* remaining, including this decision".
RemainingSlots(l) == IF l.turns + 1 >= MaxSteps THEN 0 ELSE MaxSteps - (l.turns + 1)

-----------------------------------------------------------------------------
Active(r) == ~ is_done[r]

Plan(decision, target, reason, forced) ==
  [decision |-> decision, target |-> target, reason |-> reason, forced |-> forced]

FallbackReason == IF InvalidRoute = SearchAgent THEN "invalid_verifier_fallback_search"
                  ELSE "invalid_verifier_fallback_answer"

\* Mutant: the last step is recognised one step too late.
RouteUnforced(decision, s) ==
  IF decision = "yes" THEN Plan("yes", AnswerAgent, "verifier_yes", FALSE)
  ELSE IF s > MaxSteps THEN Plan(decision, AnswerAgent, "forced_last_step", TRUE)
  ELSE IF decision = "no" THEN Plan("no", SearchAgent, "verifier_no", FALSE)
  ELSE Plan("invalid", InvalidRoute, FallbackReason, FALSE)

\* plan_search_routes for an active row; s is one-indexed.
Route(decision, s) ==
  IF decision = "yes" THEN Plan("yes", AnswerAgent, "verifier_yes", FALSE)
  ELSE IF s >= MaxSteps
       THEN Plan(decision, AnswerAgent, IF decision = "no" THEN "forced_last_step"
                                        ELSE "forced_last_step_after_invalid_verifier", TRUE)
  ELSE IF decision = "no" THEN Plan("no", SearchAgent, "verifier_no", FALSE)
  ELSE Plan("invalid", InvalidRoute, FallbackReason, FALSE)

Mask(agent) == {r \in Rows : plan[r].target = agent}

NoPlan   == Plan("inactive", Nobody, "inactive", FALSE)
NewEnv   == [turns |-> 0, done |-> FALSE, score |-> 0]
NoResult == [reward |-> 0, done |-> FALSE, docs |-> FALSE, ready |-> FALSE]

\* reset() of the environments, the manager and the orchestra, at the head of
\* vanilla_multi_turn_loop.
Init ==
  /\ pc = "verify" /\ step = 1
  /\ plan = [r \in Rows |-> NoPlan]
  /\ text_actions = [r \in Rows |-> Blank]
  /\ env = [r \in Rows |-> NewEnv]
  /\ result = [r \in Rows |-> NoResult]
  /\ ledger = [r \in Rows |-> NewLedger]
  /\ shown = [r \in Rows |-> NewLedger]
  /\ is_done = [r \in Rows |-> FALSE]
  /\ episode_rewards = [r \in Rows |-> 0]
  /\ episode_lengths = [r \in Rows |-> 0]
  /\ tool_callings = [r \in Rows |-> 0]
  /\ events = [r \in Rows |-> <<>>]

\* The Verifier is called for the active rows; its parsed decisions become the
\* route plan, published with its search mask.  text_actions starts blank.
VerifierCall ==
  /\ pc = "verify" /\ pc' = "search"
  /\ \E decision \in [{r \in Rows : Active(r)} -> {"yes", "no", "invalid"}] :
        plan' = [r \in Rows |-> IF Active(r) THEN Route(decision[r], step) ELSE NoPlan]
  /\ text_actions' = [r \in Rows |-> Blank]
  /\ UNCHANGED <<step, env, result, ledger, shown, is_done, episode_rewards,
                 episode_lengths, tool_callings, events>>

\* Mutant: an agent's answers replace the texts of every row of the batch.
UpdateTextActionUnmasked(agent, response) ==
  [r \in Rows |-> IF Mask(agent) = {} THEN text_actions[r]
                  ELSE IF r \in Mask(agent) THEN response[r] ELSE EmptyText(agent)]

\* update_text_action under the agent's mask.
UpdateTextAction(agent, response) ==
  [r \in Rows |-> IF r \in Mask(agent) THEN response[r] ELSE text_actions[r]]

\* An agent is called if its mask has any row; otherwise nothing changes.
Call(agent) ==
  \E response \in [Mask(agent) -> TextsOf(agent)] :
    text_actions' = UpdateTextAction(agent, response)

SearchCall ==
  /\ pc = "search" /\ pc' = "answer"
  /\ Call(SearchAgent)
  /\ UNCHANGED <<step, plan, env, result, ledger, shown, is_done,
                 episode_rewards, episode_lengths, tool_callings, events>>

AnswerCall ==
  /\ pc = "answer" /\ pc' = "env"
  /\ Call(AnswerAgent)
  /\ UNCHANGED <<step, plan, env, result, ledger, shown, is_done,
                 episode_rewards, episode_lengths, tool_callings, events>>

\* SearchEnv._is_done, sticky once it held.
Ends(e, text) == e.done \/ e.turns + 1 >= MaxSteps \/ text.closes

\* SearchEnv.step on row r's thread; every row runs, the finished ones too.
\* The score is the grader's, taken when the episode ends.  The retriever is
\* asked while the episode goes on, about what is between the search tags; a
\* text without a pair of them returns no observation.
EnvThread(r) ==
  /\ pc = "env" /\ ~ result[r].ready
  /\ LET text == text_actions[r]
         over == Ends(env[r], text)
     IN  \E score \in IF env[r].done THEN {env[r].score} ELSE IF over THEN {0, 1} ELSE {0},
            docs \in IF over \/ ~ text.tagged THEN {FALSE} ELSE Retrieval :
           /\ env' = [env EXCEPT ![r] = [turns |-> @.turns + 1, done |-> over, score |-> score]]
           /\ result' = [result EXCEPT ![r] = [reward |-> score, done |-> over, docs |-> docs, ready |-> TRUE]]
  /\ UNCHANGED <<pc, step, plan, text_actions, ledger, shown, is_done,
                 episode_rewards, episode_lengths, tool_callings, events>>

\* Mutant: the rewards of finished rows are added again at every later step.
RewardsOfEveryRow == [r \in Rows |-> episode_rewards[r] + result[r].reward]

Rewards ==
  [r \in Rows |-> IF Active(r) THEN episode_rewards[r] + result[r].reward ELSE episode_rewards[r]]

\* SearchEnvironmentManager.step: only active rows advance, and the route's
\* search mask, not the text, says what was a retrieval.
Ledgers ==
  [r \in Rows |-> IF Active(r)
                  THEN Recorded(ledger[r], text_actions[r], r \in Mask(SearchAgent), result[r].docs)
                  ELSE ledger[r]]

\* The calls of a step: the Verifier's for the active rows, then the one of the
\* agent whose mask the row is in.  The masks are disjoint: a plan has one target.
Called(r) ==
  IF ~ Active(r) THEN <<>>
  ELSE IF r \in Mask(SearchAgent) THEN <<VerifierAgent, SearchAgent>>
  ELSE IF r \in Mask(AnswerAgent) THEN <<VerifierAgent, AnswerAgent>>
  ELSE <<VerifierAgent>>

\* One call, with the ledger its prompt showed and, if it owns the action, the
\* transition it caused.
EventOf(r, agent) ==
  LET owns == agent # VerifierAgent IN
  [agent |-> agent, env_step |-> step - 1, plan |-> plan[r], is_env_action |-> owns,
   turn |-> shown[r].turns + 1, slots |-> RemainingSlots(shown[r]),
   attempts |-> shown[r].attempts, successes |-> shown[r].successes,
   duplicates |-> shown[r].duplicates,
   text |-> IF owns THEN text_actions[r] ELSE Blank,
   docs |-> owns /\ result[r].docs, done |-> owns /\ result[r].done]

\* SearchEnv.step reports a tool call at every step that does not end the
\* episode, Search's or not.
ToolCalling(r) == Active(r) /\ ~ result[r].done

StepEvents(r) == [i \in 1 .. Len(Called(r)) |-> EventOf(r, Called(r)[i])]

\* The gather after the threads, and the rest of the loop body.
EndOfStep ==
  /\ pc = "env" /\ \A r \in Rows : result[r].ready
  /\ ledger' = Ledgers
  /\ shown' = Ledgers
  /\ episode_rewards' = Rewards
  /\ episode_lengths' = [r \in Rows |-> episode_lengths[r] + (IF Active(r) THEN 1 ELSE 0)]
  /\ tool_callings' = [r \in Rows |-> tool_callings[r] + (IF ToolCalling(r) THEN 1 ELSE 0)]
  /\ events' = [r \in Rows |-> events[r] \o StepEvents(r)]
  /\ is_done' = [r \in Rows |-> is_done[r] \/ result[r].done]
  /\ IF step = MaxSteps \/ \A r \in Rows : is_done'[r]
     THEN pc' = "done" /\ step' = step
     ELSE pc' = "verify" /\ step' = step + 1
  /\ result' = [r \in Rows |-> NoResult]
  /\ UNCHANGED <<plan, text_actions, env>>

\* Everything the loop and the environments start a rollout with.
Reset ==
  /\ pc' = "verify" /\ step' = 1
  /\ plan' = [r \in Rows |-> NoPlan]
  /\ text_actions' = [r \in Rows |-> Blank]
  /\ env' = [r \in Rows |-> NewEnv]
  /\ result' = [r \in Rows |-> NoResult]
  /\ is_done' = [r \in Rows |-> FALSE]
  /\ episode_rewards' = [r \in Rows |-> 0]
  /\ episode_lengths' = [r \in Rows |-> 0]
  /\ tool_callings' = [r \in Rows |-> 0]
  /\ events' = [r \in Rows |-> <<>>]
  /\ ledger' = [r \in Rows |-> NewLedger]
  /\ shown' = [r \in Rows |-> NewLedger]

NextRollout == pc = "done" /\ Reset

Next ==
  \/ VerifierCall \/ SearchCall \/ AnswerCall
  \/ \E r \in Rows : EnvThread(r)
  \/ EndOfStep \/ NextRollout

Spec == Init /\ [][Next]_vars

-----------------------------------------------------------------------------
\* A row's own episode, as SearchChain describes it.
InTurn == pc \in {"search", "answer", "env"}

PhaseOf(r) ==
  IF is_done[r] THEN "ended" ELSE IF pc = "verify" THEN "deciding"
  ELSE IF InTurn /\ text_actions[r].by # Nobody THEN "acted" ELSE "acting"

Chain(r) == INSTANCE SearchChain WITH
  phase  <- PhaseOf(r),
  turn   <- IF is_done[r] THEN episode_lengths[r] ELSE episode_lengths[r] + 1,
  chosen <- IF InTurn THEN plan[r].target ELSE Nobody,
  author <- IF InTurn THEN text_actions[r].by ELSE Nobody,
  closes <- InTurn /\ text_actions[r].closes,
  reward <- episode_rewards[r]

Last(r) == events[r][Len(events[r])]

\* The stop reason of a finished trajectory, from its terminal text and all of
\* its events, as the event trace computes it.
StopReason(r) ==
  LET answers == {i \in 1 .. Len(events[r]) : events[r][i].agent = AnswerAgent}
      forced  == {i \in answers : events[r][i].plan.forced}
  IN  IF Last(r).text.closes THEN IF forced # {} THEN "forced_answer_submitted" ELSE "answer_submitted"
      ELSE IF forced # {} THEN "forced_answer_invalid"
      ELSE IF answers # {} THEN "answer_invalid"
      ELSE IF episode_lengths[r] >= MaxSteps THEN "max_steps_exhausted"
      ELSE "env_done"

-----------------------------------------------------------------------------
(* The retrieval attempts of row r, those with a query, and their words.  *)
Attempts(r) == {i \in 1 .. Len(events[r]) : events[r][i].agent = SearchAgent}
Asked(r)    == {i \in Attempts(r) : events[r][i].text.query # NoQuery}
Spelt(r)    == {Spelling[events[r][i].text.query] : i \in Asked(r)}

(* The counters survive the pruning of the ledger and count what this very *)
(* trajectory did: every Search turn is an attempt, whatever its text and  *)
(* whatever Answer wrote, and a query is a duplicate exactly if it spells  *)
(* an earlier one (update_search_protocol_state, new_search_protocol_state).*)
CountersAreExact ==
  \A r \in Rows :
    /\ ledger[r].attempts = Cardinality(Attempts(r))
    /\ ledger[r].duplicates = Cardinality(Asked(r)) - Cardinality(Spelt(r))

(* The budget in the prompt and the router agree: while slots are left, a  *)
(* "no" is answered by the Search agent, and with none left it is not; and *)
(* the number is that of the searches the row can still make               *)
(* (search_protocol_metadata against plan_search_routes).                  *)
SlotsTellTheRoute ==
  pc = "verify" =>
    \A r \in Rows : Active(r) =>
      /\ RemainingSlots(shown[r]) > 0 <=> Route("no", step).target = SearchAgent
      /\ RemainingSlots(shown[r]) = Cardinality({s \in step .. MaxSteps : Route("no", s).target = SearchAgent})

(* Batching changes nothing for a trajectory: seen from any row, the       *)
(* rollout is that row's own episode.  No agent's text reaches a row it    *)
(* was not asked for, rows that go on neither extend, pay nor restart a    *)
(* finished one, whose text stays blank, and turn MaxSteps is Answer's     *)
(* (update_text_action, the active masks of the rollout loop).             *)
RowsAreIndependent ==
  /\ \A r \in Rows : Chain(r)!Init
  /\ [][\A r \in Rows : [Chain(r)!Next]_(Chain(r)!chainVars)]_vars

(* The clocks agree: the announced budget is the router's, and when the    *)
(* rollout stops every row has finished, the loop's budget and the         *)
(* environments' agreeing, and its last word was Answer's unless the       *)
(* Search agent itself wrote an answer (plan_search_routes, SearchEnv).    *)
EveryRowIsAnswered ==
  /\ SlotsTellTheRoute
  /\ pc = "done" =>
       \A r \in Rows : /\ is_done[r]
                       /\ Last(r).agent = AnswerAgent \/ Last(r).text.closes
                       /\ Last(r).plan.forced => episode_lengths[r] = MaxSteps

(* A row is paid once: nothing before its episode ends, and its score      *)
(* after, however often its environment is stepped again and hands out the *)
(* final reward (SearchEnv.step, rollout_loop's active masks).             *)
PaidOnce ==
  \A r \in Rows : episode_rewards[r] = IF is_done[r] THEN env[r].score ELSE 0

(* The stop reason, computed over the whole trajectory, speaks of its last *)
(* step: it is a forced one exactly if that step overrode the Verifier, it *)
(* says submitted exactly if that text ended the episode, and no           *)
(* trajectory is laid to exhaustion (rollout_loop's event trace).          *)
StopReasonIsOfTheLastStep ==
  pc = "done" =>
    \A r \in Rows :
      /\ StopReason(r) \in {"forced_answer_submitted", "forced_answer_invalid"} <=> Last(r).plan.forced
      /\ StopReason(r) \in {"forced_answer_submitted", "answer_submitted"} <=> Last(r).text.closes
      /\ StopReason(r) \notin {"max_steps_exhausted", "env_done"}

(* What the retriever returned for a query is in the ledger the next       *)
(* prompt shows: "agents receive a bounded, factual query/evidence ledger  *)
(* instead of the raw multi-agent transcript" (ppo_trainer.yaml).  The     *)
(* code does not achieve this: no tool_status ever reaches the ledger.     *)
EvidenceIsRecorded ==
  \A r \in Rows :
    ledger[r].evidence_count = Cardinality({i \in Asked(r) : events[r][i].docs})

=============================================================================
