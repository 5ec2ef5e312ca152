--------------------------- MODULE TeamEventCredit ---------------------------
(* The credit of one question's group of rollouts: the baselines of its     *)
(* events (answer matching for the math task; exact states, or the values   *)
(* of what was retrieved, for the search task), the advantages over the     *)
(* team's chain and over each agent's own chain, and their centring per     *)
(* agent.                                                                   *)
(*                                                                          *)
(* A trajectory is the answer key of each of its Solver texts, or the       *)
(* agent and key of each of its environment steps, and what it earned; its  *)
(* events follow from that.  Numbers are fixed-point, in units of           *)
(* 1 / Scale, and every division is exact.  Discounts are given in halves.  *)
EXTENDS Integers, Sequences, FiniteSets, FiniteSetsExt, Functions

CONSTANTS
  Trajectories,   \* traj_uid of the group's rollouts
  MaxLoop,        \* Solver rounds of the math task, environment steps of the search task
  Keys,           \* answer keys, queries
  NoKey,          \* the key of a text that holds none
  NoDocs,         \* the key of a search that finds nothing
  Strength,       \* question_parent_strength
  Beta,           \* beta
  ParentAlpha,    \* parent_alpha
  ParentBeta,     \* question_parent_beta
  DepthWindow,    \* depth_window
  Penalty,        \* invalid_action_penalty_coef, in units of 1 / Scale
  Scale,
  Discounts       \* pairs [env, internal] for gamma and lam

ASSUME CreditAssumption ==
  /\ IsFiniteSet(Trajectories) /\ Cardinality(Trajectories) >= 2
  /\ MaxLoop \in Nat \ {0} /\ Scale \in Nat \ {0}
  /\ Strength \in Nat \ {0} /\ Beta \in Nat \ {0} /\ Penalty \in Nat
  /\ ParentAlpha \in Nat \ {0} /\ ParentBeta \in Nat /\ DepthWindow \in Nat
  /\ NoKey \notin Keys /\ NoDocs \notin Keys \cup {NoKey}
  /\ Discounts \subseteq [env : 0 .. 2, internal : 0 .. 2]
  /\ [env |-> 2, internal |-> 2] \in Discounts

None == [env |-> 2, internal |-> 2]

VARIABLES
  stage,     \* "rollout", "values", "advantages", "done"
  engine,    \* "math_answer_loto", "legacy_loto", "boundary_loto"
  group,     \* the trajectories rolled out so far
  gamma,     \* [env |-> gamma, internal |-> internal_gamma]
  lam,       \* [env |-> lam, internal |-> internal_lam], also the agent-local ones
  values,    \* per trajectory and event: its baseline
  team,      \* team_raw_advantages
  local,     \* local_raw_advantages
  credit     \* normalized_advantages

creditVars == <<stage, engine, group, gamma, lam, values, team, local, credit>>

\* The engines that refuse discounts and agent-local chains.
IsStrict == engine # "legacy_loto"

-----------------------------------------------------------------------------
\* a / b; a cfg whose Scale is too coarse makes TLC stop here.
Exact(a, b) == IF a % b = 0 THEN a \div b ELSE "inexact"

MeanOver(f, S) == Exact(SumFunctionOnSet(f, S), Cardinality(S))

\* What the trajectories in S earned, of those of g.
Earned(g, S) == SumFunctionOnSet([u \in S |-> g[u].success * Scale], S)

\* allowed_math_chains: Solver and Verifier in turn, a Verifier after every
\* round but the last possible one.
MathChains ==
  [task : {"math"}, acts : UNION {[1 .. n -> Keys \cup {NoKey}] : n \in 1 .. MaxLoop},
   success : {0, 1}]

\* A Verifier and a Search or Answer call per step; an Answer with tags ends
\* the episode, and the last step is an Answer.  Here every Search text holds
\* a query and no answer, its key standing for what it found as well, and the
\* Verifier of the last step says no.
SearchChains(found) ==
  LET open   == [by : {"Search"}, key : found] \cup {[by |-> "Answer", key |-> NoKey]}
      closed == [by : {"Answer"}, key : Keys]
      Ends(n) == closed \cup (IF n = MaxLoop THEN {[by |-> "Answer", key |-> NoKey]} ELSE {})
      acts   == UNION {{Append(s, e) : s \in [1 .. n - 1 -> open], e \in Ends(n)} : n \in 1 .. MaxLoop}
  IN  {tr \in [task : {"search"}, acts : acts, success : {0, 1}] :
         tr.acts[Len(tr.acts)].key = NoKey => tr.success = 0}

ChainsOf(e) ==
  IF e = "math_answer_loto" THEN MathChains
  ELSE SearchChains(IF e = "boundary_loto" THEN Keys \cup {NoDocs} ELSE Keys)

\* The events of a trajectory.
Length(tr) ==
  IF tr.task = "math" /\ Len(tr.acts) = MaxLoop THEN 2 * MaxLoop - 1 ELSE 2 * Len(tr.acts)
Events(tr) == 1 .. Length(tr)

\* The values f gives the events of a trajectory, in order.
PerEvent(tr, f) == SubSeq(f, 1, Length(tr))

Round(i) == (i + 1) \div 2   \* round or environment step of event i

Agent(tr, i) ==
  IF tr.task = "math" THEN IF i % 2 = 1 THEN "Solver" ELSE "Verifier"
  ELSE IF i % 2 = 1 THEN "Verifier" ELSE tr.acts[Round(i)].by

Agents == {"Solver", "Verifier", "Search", "Answer"}
EventsOf(tr, agent) == {i \in Events(tr) : Agent(tr, i) = agent}

\* state_key: the acting agent's prompt, made of what was said before.
State(tr, i) ==
  [agent |-> Agent(tr, i),
   said |-> SubSeq(tr.acts, 1, IF tr.task = "math" THEN i \div 2 ELSE (i - 1) \div 2)]

Peers(g, t) == DOMAIN g \ {t}

-----------------------------------------------------------------------------
\* The answer-matching estimator.

\* Mutant: the question's prior is the mean of the whole group.
QuestionParentOfAll(g, t) == Exact(Earned(g, DOMAIN g), Cardinality(DOMAIN g))

QuestionParent(g, t) == Exact(Earned(g, Peers(g, t)), Cardinality(Peers(g, t)))

\* Round k of a trajectory has a Solver event, and it is not the terminal one.
Comparable(tr, k) == k <= Len(tr.acts) /\ k # MaxLoop

SameRound(g, t, k) == {u \in Peers(g, t) : Comparable(g[u], k)}

\* Mutant: the prior counts once, whatever its strength.
RoundParentUnscaled(g, t, k) ==
  LET S == SameRound(g, t, k) IN
  Exact(Earned(g, S) + QuestionParent(g, t),
        Cardinality(S) + Strength)

RoundParent(g, t, k) ==
  LET S == SameRound(g, t, k) IN
  Exact(Earned(g, S) + Strength * QuestionParent(g, t),
        Cardinality(S) + Strength)

\* The rounds in which a peer gave the answer of t's round k.
Matches(g, t, k, u) ==
  {j \in 1 .. Len(g[u].acts) :
     Comparable(g[u], j) /\ g[t].acts[k] # NoKey /\ g[u].acts[j] = g[t].acts[k]}

\* Weights in units of the smallest one, cross_round_decay being one half.
Unit == 2 ^ (MaxLoop - 1)
Distance(j, k) == IF j < k THEN k - j ELSE j - k
CrossWeight(rounds, k) ==
  IF rounds = {} THEN 0 ELSE Unit \div 2 ^ Min({Distance(j, k) : j \in rounds})

\* The weights of t's peers for its answer of round k: those who gave it in
\* the same round, and only if nobody did those who gave it in another round.
Weights(g, t, k) ==
  LET rounds == [u \in Peers(g, t) |-> Matches(g, t, k, u)]
      same   == {u \in Peers(g, t) : k \in rounds[u]}
  IN  [u \in Peers(g, t) |->
         IF same = {} THEN CrossWeight(rounds[u], k)
         ELSE IF u \in same THEN Unit ELSE 0]

\* The value after the answer of round k.
AnswerValue(g, t, k) ==
  LET w == Weights(g, t, k) IN
  Exact(SumFunctionOnSet([u \in Peers(g, t) |-> w[u] * g[u].success * Scale], Peers(g, t))
          + Unit * Beta * RoundParent(g, t, k),
        SumFunctionOnSet(w, Peers(g, t)) + Unit * Beta)

\* estimate_math_values, pre: a Solver's answer moves the value, a Verifier
\* carries it.
MathValues(g, t) ==
  LET Last(i) == Max({k \in 1 .. i - 1 : Agent(g[t], k) = "Solver"})
  IN  [i \in Events(g[t]) |->
         IF i = 1 THEN QuestionParent(g, t) ELSE AnswerValue(g, t, Round(Last(i)))]

-----------------------------------------------------------------------------
\* The transition out of event i: discount d of an environment step or of an
\* internal edge, nothing after the last event.
Carry(tr, d, i, x) ==
  IF i = Length(tr) THEN 0
  ELSE Exact(x * (IF tr.task = "search" /\ i % 2 = 0 THEN d.env ELSE d.internal), 2)

\* The owner of the terminal action is paid; a Search or Answer text without
\* its tags is fined (the math profile takes environment rewards only).
Reward(tr, i) ==
  (IF i = Length(tr) THEN tr.success * Scale ELSE 0)
    - (IF tr.task = "search" /\ i % 2 = 0 /\ tr.acts[Round(i)].key = NoKey THEN Penalty ELSE 0)

\* monte_carlo_return of a trajectory.
Returns(tr, d) ==
  LET G[i \in Events(tr)] ==
        Reward(tr, i) + (IF i = Length(tr) THEN 0 ELSE Carry(tr, d, i, G[i + 1]))
  IN  PerEvent(tr, G)

\* The events of trajectory u that event i of t is compared with: those in the
\* same state, or of the same agent at the same environment step, or of the
\* same agent.
Alike(level, g, t, i, u) ==
  {j \in EventsOf(g[u], Agent(g[t], i)) :
     \/ level = "exact" /\ State(g[u], j) = State(g[t], i)
     \/ level = "depth" /\ Round(j) = Round(i)
     \/ level = "role"}

\* loto_value: the peers' mean of their own means.
LotoValue(level, g, t, i, G) ==
  LET S == {u \in Peers(g, t) : Alike(level, g, t, i, u) # {}} IN
  IF S = {} THEN {}
  ELSE {MeanOver([u \in S |-> MeanOver(G[u], Alike(level, g, t, i, u))], S)}

\* The first level with a peer decides; without any the value is zero.
LegacyValues(g, t, d) ==
  LET G == [u \in Peers(g, t) |-> Returns(g[u], d)]
      Value(i) ==
        LET exact == LotoValue("exact", g, t, i, G)
            depth == LotoValue("depth", g, t, i, G)
            role  == LotoValue("role", g, t, i, G)
        IN  CHOOSE v \in (IF exact # {} THEN exact ELSE IF depth # {} THEN depth
                          ELSE IF role # {} THEN role ELSE {0}) : TRUE
  IN  [i \in Events(g[t]) |-> Value(i)]

-----------------------------------------------------------------------------
\* The boundary estimator: the value of what is known after an event.

\* The latest documents before step k; those of event i, a Verifier's being
\* the latest.  An empty search clears them.
DocsBefore(tr, k) ==
  LET searches == {j \in 1 .. k - 1 : tr.acts[j].by = "Search"} IN
  IF searches = {} THEN NoDocs ELSE tr.acts[Max(searches)].key

Docs(tr, i) == IF Agent(tr, i) = "Search" THEN tr.acts[Round(i)].key ELSE DocsBefore(tr, Round(i))

\* The kernel, for documents that are the same or have no word in common.
Similarity(x, y) == IF x # NoDocs /\ x = y THEN 1 ELSE 0

\* route_reason of a step.
Reason(tr, k) ==
  IF tr.acts[k].by = "Search" THEN "verifier_no"
  ELSE IF k = MaxLoop THEN "forced_last_step" ELSE "verifier_yes"

\* The weight of event j of a peer for event i, in units of the smallest one,
\* cross_depth_decay being one half.  Verifiers are compared if they took the
\* same route, the first steps among themselves, and across steps only if for
\* the same reason.
Score(tr, i, peer, j) ==
  LET k == Round(i)
      d == Distance(Round(j), k)
      fits ==
        /\ Agent(peer, j) = Agent(tr, i) /\ d <= DepthWindow
        /\ Agent(tr, i) = "Verifier" =>
             /\ peer.acts[Round(j)].by = tr.acts[k].by
             /\ Round(j) = 1 <=> k = 1
             /\ d > 0 => Reason(peer, Round(j)) = Reason(tr, k)
      alike == IF Agent(tr, i) = "Verifier" /\ k = 1 THEN 1
               ELSE Similarity(Docs(tr, i), Docs(peer, j))
  IN  IF fits THEN (alike * 2 ^ DepthWindow) \div 2 ^ d ELSE 0

\* A peer counts once, with its best event.
PeerWeight(tr, i, peer) == Max({Score(tr, i, peer, j) : j \in Events(peer)})

\* Mutant: the question's prior counts once, whatever its strength.
StepParentUnscaled(g, t, i) ==
  LET S == {u \in Peers(g, t) : \E j \in EventsOf(g[u], Agent(g[t], i)) : Round(j) = Round(i)} IN
  IF S = {} THEN QuestionParent(g, t)
  ELSE Exact(Earned(g, S) + QuestionParent(g, t),
             Cardinality(S) + ParentBeta)

\* The prior of event i: the mean of the peers with such an event at this
\* step, and the question's.
StepParent(g, t, i) ==
  LET S == {u \in Peers(g, t) : \E j \in EventsOf(g[u], Agent(g[t], i)) : Round(j) = Round(i)} IN
  IF S = {} THEN QuestionParent(g, t)
  ELSE Exact(Earned(g, S) + ParentBeta * QuestionParent(g, t),
             Cardinality(S) + ParentBeta)

\* The value after a Verifier's or a Search event.
BoundaryValue(g, t, i) ==
  LET w == [u \in Peers(g, t) |-> PeerWeight(g[t], i, g[u])]
      unit == 2 ^ DepthWindow
  IN  Exact(SumFunctionOnSet([u \in Peers(g, t) |-> w[u] * g[u].success * Scale], Peers(g, t))
              + unit * ParentAlpha * StepParent(g, t, i),
            SumFunctionOnSet(w, Peers(g, t)) + unit * ParentAlpha)

\* estimate_boundary_values, pre: an Answer that ends nothing carries the value.
BoundaryValues(g, t) ==
  LET Last(i) == Max({k \in 1 .. i - 1 : Agent(g[t], k) # "Answer"})
  IN  [i \in Events(g[t]) |->
         IF i = 1 THEN QuestionParent(g, t) ELSE BoundaryValue(g, t, Last(i))]

Values(g, t, d) ==
  IF engine = "math_answer_loto" THEN MathValues(g, t)
  ELSE IF engine = "boundary_loto" THEN BoundaryValues(g, t) ELSE LegacyValues(g, t, d)

-----------------------------------------------------------------------------
\* Team GAE: the chain of all events, whoever produced them.
TeamAdvantages(tr, v, dg, dl) ==
  LET A[i \in Events(tr)] ==
        Reward(tr, i) - v[i]
          + (IF i = Length(tr) THEN 0
             ELSE Carry(tr, dg, i, v[i + 1]) + Carry(tr, dg, i, Carry(tr, dl, i, A[i + 1])))
  IN  PerEvent(tr, A)

\* Mutant: only the first edge of a segment is discounted.
AcrossFirstEdge(tr, d, i, stop, x) == IF stop = Length(tr) + 1 THEN 0 ELSE Carry(tr, d, i, x)

\* x, at event stop, seen from event i: the factors of all edges in between.
Across(tr, d, i, stop, x) ==
  LET back[k \in i .. stop] == IF k = stop THEN x ELSE Carry(tr, d, k, back[k + 1])
  IN  back[i]

\* The rewards of the events from i up to before stop, seen from i.
SegmentReward(tr, d, i, stop) ==
  LET sum[k \in i .. stop] ==
        IF k = stop THEN 0 ELSE Reward(tr, k) + Carry(tr, d, k, sum[k + 1])
  IN  sum[i]

\* The agent's next decision after event i, one past the end if there is none.
NextOwn(tr, i) == Min({Length(tr) + 1} \cup {j \in EventsOf(tr, Agent(tr, i)) : j > i})

\* Agent-local GAE: the other agents' events in between are environment.
LocalAdvantages(tr, v, dg, dl) ==
  LET A[i \in Events(tr)] ==
        LET stop == NextOwn(tr, i) IN
        SegmentReward(tr, dg, i, stop) - v[i]
          + (IF stop \notin Events(tr) THEN 0
             ELSE Across(tr, dg, i, stop, v[stop])
                    + Across(tr, dg, i, stop, Across(tr, dl, i, stop, A[stop])))
  IN  PerEvent(tr, A)

\* The trajectories of the group in which an agent acted.
Cohort(g, agent) == {t \in DOMAIN g : EventsOf(g[t], agent) # {}}

\* Mutant: every event of the cohort weighs the same.
CohortMeanOfEvents(g, A, agent) ==
  LET S == {p \in (DOMAIN g) \X (1 .. 2 * MaxLoop) : p[2] \in EventsOf(g[p[1]], agent)} IN
  MeanOver([p \in S |-> A[p[1]][p[2]]], S)

\* The mean of an agent's advantages, each trajectory weighing the same.
CohortMean(g, A, agent) ==
  MeanOver([t \in Cohort(g, agent) |-> MeanOver(A[t], EventsOf(g[t], agent))], Cohort(g, agent))

\* normalize_event_advantages without the division by the standard deviation,
\* a positive factor of the whole cohort; an agent alone is left as it is.
Centred(g, A) ==
  LET Mean(agent) == IF Cardinality(Cohort(g, agent)) < 2 THEN 0 ELSE CohortMean(g, A, agent)
      mean == [Solver |-> Mean("Solver"), Verifier |-> Mean("Verifier"),
               Search |-> Mean("Search"), Answer |-> Mean("Answer")]
  IN  [t \in DOMAIN g |-> [i \in Events(g[t]) |-> A[t][i] - mean[Agent(g[t], i)]]]

\* agent_local_mode "blend" with a mix of one half.
Blended(A, L) == [t \in DOMAIN A |-> [i \in DOMAIN A[t] |-> Exact(A[t][i] + L[t][i], 2)]]

-----------------------------------------------------------------------------
Nothing == [t \in {} |-> 0]

\* A question for one of the engines, nothing rolled out.
CreditInit ==
  /\ stage = "rollout" /\ group = Nothing
  /\ engine \in {"math_answer_loto", "legacy_loto", "boundary_loto"}
  /\ gamma = None /\ lam = None
  /\ values = Nothing /\ team = Nothing /\ local = Nothing /\ credit = Nothing

\* The group with tr as trajectory t.
Extended(t, tr) == [u \in DOMAIN group \cup {t} |-> IF u = t THEN tr ELSE group[u]]

\* Trajectory t of the group is finished.
FinishTrajectory(t) ==
  /\ stage = "rollout" /\ t \notin DOMAIN group
  /\ \E tr \in ChainsOf(engine) : group' = Extended(t, tr)
  /\ stage' = IF DOMAIN group' = Trajectories THEN "values" ELSE stage
  /\ UNCHANGED <<engine, gamma, lam, values, team, local, credit>>

\* Answer matching and boundary values refuse any discount.
Estimate(d) ==
  /\ stage = "values" /\ stage' = "advantages"
  /\ IsStrict => d = None
  /\ gamma' = d
  /\ values' = [t \in Trajectories |-> Values(group, t, d)]
  /\ UNCHANGED <<engine, group, lam, team, local, credit>>

\* ... and any agent-local mode.  Without blending the local chain is a
\* diagnostic ("shadow"), or is not computed at all ("off").
Advantage(d, blend) ==
  /\ stage = "advantages" /\ stage' = "done"
  /\ IsStrict => ~ blend
  /\ lam' = d
  /\ team' = [t \in Trajectories |-> TeamAdvantages(group[t], values[t], gamma, d)]
  /\ local' = IF IsStrict THEN Nothing
              ELSE [t \in Trajectories |-> LocalAdvantages(group[t], values[t], gamma, d)]
  /\ \E raw \in {IF blend THEN Blended(team', local') ELSE team'} : credit' = Centred(group, raw)
  /\ UNCHANGED <<engine, group, gamma, values>>

NextQuestion ==
  /\ stage = "done" /\ stage' = "rollout" /\ group' = Nothing
  /\ gamma' = None /\ lam' = None
  /\ values' = Nothing /\ team' = Nothing /\ local' = Nothing /\ credit' = Nothing
  /\ UNCHANGED engine

CreditNext ==
  \/ \E t \in Trajectories : FinishTrajectory(t)
  \/ \E d \in Discounts : Estimate(d)
  \/ \E d \in Discounts, blend \in BOOLEAN : Advantage(d, blend)
  \/ NextQuestion

CreditSpec == CreditInit /\ [][CreditNext]_creditVars

-----------------------------------------------------------------------------
\* The baselines v of a trajectory's events, each with the state it is for.
WithStates(tr, v) == {[state |-> State(tr, i), value |-> v[i]] : i \in Events(tr)}

(* A baseline is fixed before the event it is for acts: of the trajectory  *)
(* that finishes last, whatever it says and earns from an event on, the    *)
(* event has one baseline (loto_value, estimate_math_values,               *)
(* estimate_boundary_values: "whole-trajectory-out").                      *)
BaselineSeesNoOutcome ==
  stage = "rollout" /\ Cardinality(DOMAIN group) = Cardinality(Trajectories) - 1 =>
    \A t \in Trajectories \ DOMAIN group, d \in IF IsStrict THEN {None} ELSE Discounts :
      \A baselines \in {UNION {WithStates(tr, Values(Extended(t, tr), t, d)) : tr \in ChainsOf(engine)}} :
        \A b, c \in baselines : b.state = c.state => b.value = c.value

(* A baseline of the two strict engines is an average of what the          *)
(* trajectory's peers earned, whatever mixture of matches and priors made  *)
(* it: peers that all earned the same leave nothing to shrink or inflate   *)
(* (estimate_math_values, estimate_boundary_values).                       *)
BaselineWithinPeers ==
  stage = "advantages" /\ IsStrict =>
    \A t \in Trajectories :
      LET earned == {group[u].success * Scale : u \in Peers(group, t)} IN
      \A i \in Events(group[t]) : values[t][i] \in Min(earned) .. Max(earned)

(* With full traces both recursions, over the team's chain and over each   *)
(* agent's own with the others as its environment, give every event the    *)
(* discounted return that follows it less its baseline, although an        *)
(* agent's own chain may skip any number of events of the others           *)
(* (compute_team_event_gae_advantage).                                     *)
FullTraceIsReturnLessBaseline ==
  stage = "done" /\ lam = None =>
    \A t \in Trajectories :
      LET G == Returns(group[t], gamma) IN
      \A i \in Events(group[t]) :
        /\ team[t][i] = G[i] - values[t][i]
        /\ ~ IsStrict => local[t][i] = team[t][i]

(* After normalization no agent is pushed up or down as a whole: over the  *)
(* group its trajectories' mean credits cancel, however many events each   *)
(* trajectory has, in team and in blended credit alike; an agent that      *)
(* acted in one trajectory only keeps its signal (normalize_event_-        *)
(* advantages).                                                            *)
CohortsAreCentred ==
  stage = "done" =>
    \A agent \in Agents :
      Cardinality(Cohort(group, agent)) >= 2 =>
        SumFunctionOnSet([t \in Cohort(group, agent) |->
                            MeanOver(credit[t], EventsOf(group[t], agent))],
                         Cohort(group, agent)) = 0

=============================================================================
