------------------------- MODULE SearchRolloutProofs -------------------------
(***************************************************************************)
(* Proofs about SearchRollout and the audit of its trace, for every batch, *)
(* every step budget, every vocabulary of queries, every retriever and     *)
(* every history limit.                                                    *)
(***************************************************************************)
EXTENDS SearchAudit, FiniteSetTheorems, SequenceTheorems, TLAPS

Agents    == {SearchAgent, AnswerAgent, Nobody}
Spellings == {Spelling[q] : q \in Queries}

TextType == [by : Agents, query : Queries \cup {NoQuery}, tagged : BOOLEAN, closes : BOOLEAN]

Reasons == {"inactive", "verifier_yes", "verifier_no", "forced_last_step",
            "forced_last_step_after_invalid_verifier",
            "invalid_verifier_fallback_search", "invalid_verifier_fallback_answer"}

PlanType == [decision : {"yes", "no", "invalid", "inactive"}, target : Agents,
             reason : Reasons, forced : BOOLEAN]

LedgerType ==
  [turns : Nat, attempts : Nat, successes : Nat, duplicates : Nat, status : {"none", "success", "invalid_query", "unknown"},
   seen : SUBSET Spellings,
   queries : Seq([turn : Nat, norm : Spellings \cup {NoQuery}, dup : BOOLEAN]),
   evidence : Seq(Nat), evidence_count : Nat]

EventType ==
  [agent : {VerifierAgent, SearchAgent, AnswerAgent}, env_step : Nat, plan : PlanType,
   is_env_action : BOOLEAN, turn : Nat, slots : Nat, attempts : Nat, successes : Nat,
   duplicates : Nat, text : TextType, docs : BOOLEAN, done : BOOLEAN]

RouteTypes ==
  /\ pc \in {"verify", "search", "answer", "env", "done"}
  /\ step \in 1 .. MaxSteps
  /\ plan \in [Rows -> PlanType]
  /\ text_actions \in [Rows -> TextType]
  /\ env \in [Rows -> [turns : Nat, done : BOOLEAN, score : {0, 1}]]
  /\ result \in [Rows -> [reward : {0, 1}, done : BOOLEAN, docs : BOOLEAN, ready : BOOLEAN]]
  /\ is_done \in [Rows -> BOOLEAN]
  /\ episode_rewards \in [Rows -> {0, 1}]
  /\ episode_lengths \in [Rows -> Nat]
  /\ tool_callings \in [Rows -> Nat]

LedgerTypes ==
  /\ ledger \in [Rows -> LedgerType]
  /\ shown \in [Rows -> LedgerType]
  /\ events \in [Rows -> Seq(EventType)]

TypeOK == RouteTypes /\ LedgerTypes

-----------------------------------------------------------------------------
(* The inductive invariant.  The environment's clock runs for every row,   *)
(* the ledger's and the loop's for the rows that go on, and all of them    *)
(* tell the same step.                                                     *)
ClocksAgree ==
  \A r \in Rows :
    /\ env[r].turns = IF result[r].ready \/ pc = "done" THEN step ELSE step - 1
    /\ shown[r] = ledger[r]
    /\ Active(r) => ledger[r].turns = step - 1 /\ episode_lengths[r] = step - 1

(* A thread's result is its environment's word; a row that goes on has an  *)
(* environment that goes on, and it ends by a text or at the last step.    *)
ThreadsAgree ==
  \A r \in Rows :
    /\ result[r].ready => pc = "env" /\ result[r].done = env[r].done /\ result[r].reward = env[r].score
    /\ ~ Active(r) => env[r].done
    /\ Active(r) /\ ~ result[r].ready => ~ env[r].done
    /\ ~ env[r].done => env[r].score = 0
    /\ Active(r) /\ result[r].ready => (result[r].done <=> text_actions[r].closes \/ step = MaxSteps)

(* Inside a step, the rows that go on have a route, at the last step and   *)
(* when forced to Answer, and the finished ones have none.                 *)
Routed ==
  InTurn => \A r \in Rows :
    /\ ~ Active(r) => plan[r] = NoPlan
    /\ Active(r) => plan[r].target \in {SearchAgent, AnswerAgent}
    /\ step = MaxSteps => plan[r].target # SearchAgent
    /\ plan[r].forced => step = MaxSteps

(* The agent a row is routed to writes its text when its turn comes.       *)
TextsAreOwned ==
  \A r \in Rows :
    /\ pc = "search" => text_actions[r] = Blank
    /\ pc = "answer" => IF plan[r].target = SearchAgent THEN text_actions[r].by = SearchAgent
                        ELSE text_actions[r] = Blank
    /\ pc = "env" => text_actions[r].by = plan[r].target
                     /\ (~ Active(r) => text_actions[r] = Blank)

EndsTogether == pc = "done" => \A r \in Rows : is_done[r]

(* The last word of a finished row is an answer, by Answer or by Search,   *)
(* and if its route was forced the row used all of its steps.              *)
LastWord ==
  \A r \in Rows : is_done[r] =>
    /\ Len(events[r]) > 0
    /\ Last(r).agent = AnswerAgent \/ Last(r).text.closes
    /\ Last(r).plan.forced => episode_lengths[r] = MaxSteps

(* What the ledger has seen is what the trajectory asked.                  *)
SeenIsSpelt == \A r \in Rows : ledger[r].seen = Spelt(r)

(* An active row's plan is the router's, for whatever the Verifier said.    *)
RoutesKnown ==
  InTurn => \A r \in Rows : Active(r) => \E d \in {"yes", "no", "invalid"} : plan[r] = Route(d, step)

(* Nothing succeeds or repeats that was not attempted.                     *)
LedgersAreSane ==
  \A r \in Rows : ledger[r].successes <= ledger[r].attempts /\ ledger[r].duplicates <= ledger[r].attempts

(* Step k of a row is the Verifier's record v and the record a of the      *)
(* agent it chose, both made from the same ledger; last says that the      *)
(* episode ended with it.                                                  *)
StepRecorded(v, a, k, last) ==
  /\ v.agent = VerifierAgent /\ a.agent = a.plan.target
  /\ ~ v.is_env_action /\ a.is_env_action
  /\ \A e \in {v, a} : e.env_step = k - 1 /\ e.turn = k /\ ShapeIsGood(e) /\ RouteIsLegal(e)
  /\ StepFacts(v) = StepFacts(a)
  /\ a.plan.forced => k = MaxSteps
  /\ ~ v.done /\ (a.done <=> last) /\ (a.text.closes => a.done)

(* A trace is the steps of its row, one after the other.                   *)
TraceIsOfSteps ==
  \A r \in Rows :
    /\ Len(events[r]) = 2 * episode_lengths[r] /\ episode_lengths[r] <= MaxSteps
    /\ \A k \in 1 .. episode_lengths[r] :
         StepRecorded(events[r][2 * k - 1], events[r][2 * k], k,
                      is_done[r] /\ k = episode_lengths[r])

StepInv == RouteTypes /\ LedgerTypes /\ ClocksAgree /\ ThreadsAgree /\ Routed
           /\ TextsAreOwned /\ EndsTogether /\ PaidOnce

IInv == StepInv /\ LastWord /\ SeenIsSpelt /\ CountersAreExact
        /\ RoutesKnown /\ LedgersAreSane /\ TraceIsOfSteps

-----------------------------------------------------------------------------
(* The operators.                                                          *)

(* Every text an agent can write is a text.                                *)
LEMMA TextsTyped ==
  ASSUME NEW agent \in {SearchAgent, AnswerAgent}
  PROVE  /\ TextsOf(agent) \subseteq TextType
         /\ \A t \in TextsOf(agent) : t.by = agent
  <1>1. CASE agent = SearchAgent
    <2>1. \A t \in [by : {SearchAgent}, query : {NoQuery}, tagged : BOOLEAN, closes : {FALSE}] :
             t \in TextType /\ t.by = SearchAgent
      BY DEF TextType, Agents
    <2>2. \A t \in [by : {SearchAgent}, query : Queries, tagged : {TRUE}, closes : BOOLEAN] :
             t \in TextType /\ t.by = SearchAgent
      BY DEF TextType, Agents
    <2> QED
      BY <1>1, <2>1, <2>2 DEF TextsOf
  <1>2. CASE agent = AnswerAgent
    BY <1>2 DEF TextsOf, TextType, Agents, SearchAgent, AnswerAgent
  <1> QED
    BY <1>1, <1>2

(* Pruning keeps a sequence over its set.                                  *)
LEMMA KeptTyped ==
  ASSUME NEW S, NEW s \in Seq(S), NEW n \in Nat
  PROVE  Kept(s, n) \in Seq(S)
  BY DEF Kept

(* A route plan is one, to a working agent, and to Answer at the last step *)
(* and whenever it overrides the Verifier.                                 *)
LEMMA RoutesLegal ==
  ASSUME NEW d \in {"yes", "no", "invalid"}, NEW s \in 1 .. MaxSteps
  PROVE  /\ Route(d, s) \in PlanType
         /\ Route(d, s).target \in {SearchAgent, AnswerAgent}
         /\ s = MaxSteps => Route(d, s).target = AnswerAgent
         /\ Route(d, s).forced => s = MaxSteps
  <1>1. Route(d, s) \in PlanType
    BY SearchAssumption DEF Route, Plan, PlanType, Agents, Reasons, FallbackReason,
       SearchAgent, AnswerAgent, Nobody
  <1>2. Route(d, s).target \in {SearchAgent, AnswerAgent}
    BY SearchAssumption DEF Route, Plan
  <1>3. s = MaxSteps => Route(d, s).target = AnswerAgent
    BY SearchAssumption DEF Route, Plan
  <1>4. Route(d, s).forced => s = MaxSteps
    BY SearchAssumption DEF Route, Plan
  <1> QED
    BY <1>1, <1>2, <1>3, <1>4

(* A transition of the ledger is a ledger, one turn older.                 *)
LEMMA RecordedTyped ==
  ASSUME NEW l \in LedgerType, NEW t \in TextType, NEW is_search \in BOOLEAN, NEW docs \in BOOLEAN
  PROVE  /\ Recorded(l, t, is_search, docs) \in LedgerType
         /\ Recorded(l, t, is_search, docs).turns = l.turns + 1
  <1> DEFINE entry == [turn |-> l.turns + 1,
                       norm |-> IF t.query = NoQuery THEN NoQuery ELSE Spelling[t.query],
                       dup  |-> IsDuplicate(l, t.query)]
             Entries == [turn : Nat, norm : Spellings \cup {NoQuery}, dup : BOOLEAN]
  <1>1. IsDuplicate(l, t.query) \in BOOLEAN
    BY DEF IsDuplicate
  <1>2. entry \in Entries
    BY <1>1 DEF LedgerType, TextType, Spellings
  <1>3. Append(l.queries, entry) \in Seq(Entries)
    BY <1>2 DEF LedgerType
  <1>4. Kept(Append(l.queries, entry), HistoryLimit) \in Seq(Entries)
    BY <1>3, KeptTyped, SearchAssumption
  <1>5. /\ l.evidence \in Seq(Nat) /\ l.turns + 1 \in Nat
        /\ Append(l.evidence, l.turns + 1) \in Seq(Nat)
    BY DEF LedgerType
  <1>6. /\ Kept(Append(l.evidence, l.turns + 1), HistoryLimit) \in Seq(Nat)
        /\ Kept(l.evidence, HistoryLimit) \in Seq(Nat)
    BY <1>5, KeptTyped, SearchAssumption
  <1>7. IF t.query = NoQuery THEN TRUE ELSE Spelling[t.query] \in Spellings
    BY DEF TextType, Spellings
  <1> HIDE DEF entry
  <1>8. CASE ~ is_search
    <2>1. Recorded(l, t, is_search, docs) = [l EXCEPT !.turns = l.turns + 1]
      BY <1>8 DEF Recorded
    <2> QED
      BY <1>5, <2>1 DEF LedgerType
  <1>9. CASE is_search
    <2> DEFINE n == Recorded(l, t, is_search, docs)
    <2>1. l.attempts \in Nat /\ l.successes \in Nat /\ l.duplicates \in Nat /\ l.evidence_count \in Nat
      BY DEF LedgerType
    <2>2. l.seen \cup (IF t.query = NoQuery THEN {} ELSE {Spelling[t.query]}) \in SUBSET Spellings
      BY <1>7 DEF LedgerType
    <2>3. /\ n = [turns |-> n.turns, attempts |-> n.attempts, successes |-> n.successes,
                 duplicates |-> n.duplicates, status |-> n.status, seen |-> n.seen,
                 queries |-> n.queries, evidence |-> n.evidence, evidence_count |-> n.evidence_count]
          /\ n.turns = l.turns + 1
      BY <1>9 DEF Recorded
    <2>4. n.attempts \in Nat /\ n.successes \in Nat /\ n.duplicates \in Nat /\ n.evidence_count \in Nat
      BY <1>9, <2>1 DEF Recorded
    <2>5. n.status \in {"none", "success", "invalid_query", "unknown"} /\ n.seen \in SUBSET Spellings
      BY <1>9, <2>2 DEF Recorded, ToolStatus
    <2>6. n.queries \in Seq(Entries)
      BY <1>4, <1>9 DEF Recorded, entry
    <2>7. n.evidence \in Seq(Nat)
      BY <1>6, <1>9 DEF Recorded
    <2> HIDE DEF n
    <2>8. n \in LedgerType
      BY <1>5, <2>3, <2>4, <2>5, <2>6, <2>7 DEF LedgerType
    <2> QED
      BY <2>3, <2>8 DEF n
  <1> QED
    BY <1>8, <1>9

\* The values a rollout starts with.
LEMMA NewTyped ==
  /\ NewLedger \in LedgerType /\ Blank \in TextType /\ NoPlan \in PlanType
  /\ Blank.by = Nobody /\ Blank.closes = FALSE /\ NoPlan.target = Nobody /\ NoPlan.forced = FALSE
  /\ NewLedger.turns = 0 /\ NewLedger.seen = {} /\ NewLedger.attempts = 0 /\ NewLedger.duplicates = 0
  BY DEF NewLedger, LedgerType, Blank, EmptyText, TextType, NoPlan, Plan, PlanType, Agents, Reasons

-----------------------------------------------------------------------------
(* The steps.  A plan or a text concerns its own row; what a conjunct of   *)
(* StepInv says of other variables an agent's call leaves alone.           *)
LEMMA StepInit == Init => StepInv
  <1> SUFFICES ASSUME Init PROVE StepInv
    OBVIOUS
  <1> USE DEF Init
  <1>1. RouteTypes /\ LedgerTypes
    BY SearchAssumption, NewTyped DEF RouteTypes, LedgerTypes, NewEnv, NoResult
  <1>2. ClocksAgree /\ ThreadsAgree
    BY NewTyped DEF ClocksAgree, ThreadsAgree, NewEnv, NoResult, Active
  <1>3. Routed /\ TextsAreOwned /\ EndsTogether /\ PaidOnce
    BY DEF Routed, InTurn, TextsAreOwned, EndsTogether, PaidOnce
  <1> QED
    BY <1>1, <1>2, <1>3 DEF StepInv

\* The Verifier's call and the routes keep the invariant.
LEMMA VerifierStep == StepInv /\ VerifierCall => StepInv'
  <1> SUFFICES ASSUME StepInv, VerifierCall PROVE StepInv'
    OBVIOUS
  <1> USE DEF StepInv, VerifierCall
  <1>1. PICK decision \in [{r \in Rows : Active(r)} -> {"yes", "no", "invalid"}] :
          plan' = [r \in Rows |-> IF Active(r) THEN Route(decision[r], step) ELSE NoPlan]
    OBVIOUS
  <1>2. ASSUME NEW r \in Rows
        PROVE  /\ plan'[r] \in PlanType
               /\ Active(r) => /\ plan'[r].target \in {SearchAgent, AnswerAgent}
                               /\ step = MaxSteps => plan'[r].target = AnswerAgent
                               /\ plan'[r].forced => step = MaxSteps
               /\ ~ Active(r) => plan'[r] = NoPlan
    <2>1. CASE Active(r)
      <3>1. decision[r] \in {"yes", "no", "invalid"} /\ plan'[r] = Route(decision[r], step)
        BY <1>1, <2>1
      <3> QED
        BY <2>1, <3>1, RoutesLegal DEF RouteTypes
    <2>2. CASE ~ Active(r)
      BY <1>1, <2>2, NewTyped
    <2> QED
      BY <2>1, <2>2
  <1>3. RouteTypes' /\ LedgerTypes'
    BY <1>1, <1>2, NewTyped DEF RouteTypes, LedgerTypes
  <1>4. ClocksAgree' /\ ThreadsAgree'
    BY DEF ClocksAgree, ThreadsAgree, Active
  <1>5. Routed'
    BY <1>2, NewTyped DEF Routed, Active, SearchAgent, AnswerAgent, Nobody
  <1>6. TextsAreOwned' /\ EndsTogether' /\ PaidOnce'
    BY DEF TextsAreOwned, EndsTogether, PaidOnce
  <1> QED
    BY <1>3, <1>4, <1>5, <1>6

(* What an agent's call does to the texts.                                 *)
LEMMA CallWrites ==
  ASSUME RouteTypes, NEW agent \in {SearchAgent, AnswerAgent}, Call(agent)
  PROVE  /\ text_actions' \in [Rows -> TextType]
         /\ \A r \in Rows : IF plan[r].target = agent THEN text_actions'[r].by = agent
                             ELSE text_actions'[r] = text_actions[r]
  <1>1. PICK response \in [Mask(agent) -> TextsOf(agent)] :
          text_actions' = [r \in Rows |-> IF r \in Mask(agent) THEN response[r] ELSE text_actions[r]]
    BY DEF Call, UpdateTextAction
  <1>2. \A r \in Mask(agent) : response[r] \in TextType /\ response[r].by = agent
    BY TextsTyped
  <1> QED
    BY <1>1, <1>2 DEF RouteTypes, Mask

\* So does a call of Search or Answer.
LEMMA AgentStep == StepInv /\ (SearchCall \/ AnswerCall) => StepInv'
  <1> SUFFICES ASSUME StepInv, SearchCall \/ AnswerCall PROVE StepInv'
    OBVIOUS
  <1> USE DEF StepInv
  <1>1. RouteTypes' /\ LedgerTypes'
    BY CallWrites DEF RouteTypes, LedgerTypes, SearchCall, AnswerCall
  <1>2. ClocksAgree' /\ ThreadsAgree'
    BY DEF ClocksAgree, ThreadsAgree, Active, SearchCall, AnswerCall
  <1>3. Routed'
    BY DEF Routed, InTurn, Active, SearchCall, AnswerCall
  <1>4. TextsAreOwned'
    <2>1. CASE SearchCall
      BY <2>1, CallWrites DEF SearchCall, TextsAreOwned, Active
    <2>2. CASE AnswerCall
      <3>1. ASSUME NEW r \in Rows
            PROVE  /\ text_actions'[r].by = plan[r].target
                   /\ ~ Active(r) => text_actions'[r] = Blank
        <4>1. plan[r].target \in Agents /\ (~ Active(r) => plan[r] = NoPlan)
          BY <2>2 DEF AnswerCall, RouteTypes, PlanType, Routed, InTurn
        <4>2. /\ plan[r].target = AnswerAgent => text_actions'[r].by = AnswerAgent
              /\ plan[r].target # AnswerAgent => text_actions'[r] = text_actions[r]
          BY <2>2, CallWrites DEF AnswerCall
        <4>3. IF plan[r].target = SearchAgent THEN text_actions[r].by = SearchAgent
              ELSE text_actions[r] = Blank
          BY <2>2 DEF AnswerCall, TextsAreOwned
        <4> QED
          BY <4>1, <4>2, <4>3, NewTyped DEF Agents, SearchAgent, AnswerAgent, Nobody
      <3> QED
        BY <2>2, <3>1 DEF AnswerCall, TextsAreOwned, Active
    <2> QED
      BY <2>1, <2>2
  <1>5. EndsTogether' /\ PaidOnce'
    BY DEF EndsTogether, PaidOnce, SearchCall, AnswerCall
  <1> QED
    BY <1>1, <1>2, <1>3, <1>4, <1>5

\* An environment's thread runs its own row only.
LEMMA ThreadStep == ASSUME StepInv, NEW r \in Rows, EnvThread(r) PROVE StepInv'
  <1> USE DEF StepInv
  <1> DEFINE over == Ends(env[r], text_actions[r])
  <1>1. PICK score \in IF env[r].done THEN {env[r].score} ELSE IF over THEN {0, 1} ELSE {0},
             docs \in IF over \/ ~ text_actions[r].tagged THEN {FALSE} ELSE Retrieval :
          /\ env' = [env EXCEPT ![r] = [turns |-> @.turns + 1, done |-> over, score |-> score]]
          /\ result' = [result EXCEPT ![r] = [reward |-> score, done |-> over, docs |-> docs, ready |-> TRUE]]
    BY DEF EnvThread
  <1>2. /\ over \in BOOLEAN /\ docs \in BOOLEAN /\ score \in {0, 1}
        /\ env[r].done => over /\ score = env[r].score
        /\ ~ over => score = 0
    BY SearchAssumption DEF RouteTypes, Ends, TextType
  <1>3. ~ env[r].done => (over <=> text_actions[r].closes \/ step = MaxSteps)
    BY SearchAssumption DEF RouteTypes, ClocksAgree, Ends, EnvThread, TextType
  <1> HIDE DEF over
  <1>4. RouteTypes' /\ LedgerTypes'
    BY <1>1, <1>2 DEF RouteTypes, LedgerTypes, EnvThread
  <1>5. ClocksAgree'
    BY <1>1 DEF ClocksAgree, RouteTypes, EnvThread, Active
  <1>6. ThreadsAgree'
    BY <1>1, <1>2, <1>3 DEF ThreadsAgree, RouteTypes, EnvThread, Active
  <1>7. Routed' /\ TextsAreOwned' /\ EndsTogether'
    BY DEF Routed, InTurn, TextsAreOwned, EndsTogether, EnvThread, Active
  <1>8. PaidOnce'
    BY <1>1, <1>2 DEF PaidOnce, ThreadsAgree, RouteTypes, EnvThread, Active
  <1> QED
    BY <1>4, <1>5, <1>6, <1>7, <1>8

(* The end of a step: every thread is back, and a row that goes on has     *)
(* finished exactly if its text or its budget says so.                     *)
LEMMA EndFacts ==
  ASSUME StepInv, EndOfStep, NEW r \in Rows
  PROVE  /\ is_done'[r] = env[r].done
         /\ pc' = "verify" => step' = step + 1 /\ step < MaxSteps
         /\ pc' = "done" => step' = step
         /\ pc' \in {"verify", "done"}
         /\ step = MaxSteps => is_done'[r]
         /\ pc' = "done" => is_done'[r]
         /\ Active(r) => (is_done'[r] <=> text_actions[r].closes \/ step = MaxSteps)
  <1> USE DEF StepInv, EndOfStep
  <1>1. ASSUME NEW q \in Rows
        PROVE  /\ is_done'[q] = env[q].done
               /\ Active(q) => (is_done'[q] <=> text_actions[q].closes \/ step = MaxSteps)
               /\ step = MaxSteps => is_done'[q]
    <2>1. result[q].done = env[q].done
      BY DEF ThreadsAgree
    <2>2. is_done'[q] = (is_done[q] \/ result[q].done)
      OBVIOUS
    <2>3. is_done[q] \in BOOLEAN /\ env[q].done \in BOOLEAN
      BY DEF RouteTypes
    <2>4. is_done[q] => env[q].done
      BY DEF ThreadsAgree, Active
    <2>5. ~ is_done[q] => (result[q].done <=> text_actions[q].closes \/ step = MaxSteps)
      BY DEF ThreadsAgree, Active
    <2> QED
      BY <2>1, <2>2, <2>3, <2>4, <2>5 DEF Active
  <1>2. \/ pc' = "done" /\ step' = step /\ (step = MaxSteps \/ \A q \in Rows : is_done'[q])
        \/ pc' = "verify" /\ step' = step + 1 /\ step # MaxSteps
    OBVIOUS
  <1>3. step \in 1 .. MaxSteps
    BY DEF RouteTypes
  <1> HIDE DEF EndOfStep, StepInv
  <1> QED
    BY <1>1, <1>2, <1>3, SearchAssumption

\* The ledgers after a step: a turn more for the rows that go on.
LEMMA LedgersTyped ==
  ASSUME StepInv, NEW r \in Rows
  PROVE  /\ Ledgers[r] \in LedgerType
         /\ Active(r) => Ledgers[r].turns = ledger[r].turns + 1
         /\ ~ Active(r) => Ledgers[r] = ledger[r]
  <1>1. /\ text_actions[r] \in TextType /\ (r \in Mask(SearchAgent)) \in BOOLEAN
        /\ result[r].docs \in BOOLEAN /\ ledger[r] \in LedgerType
    BY DEF StepInv, RouteTypes, LedgerTypes
  <1>2. /\ Recorded(ledger[r], text_actions[r], r \in Mask(SearchAgent), result[r].docs) \in LedgerType
        /\ Recorded(ledger[r], text_actions[r], r \in Mask(SearchAgent), result[r].docs).turns
              = ledger[r].turns + 1
    BY <1>1, RecordedTyped
  <1> QED
    BY <1>1, <1>2 DEF Ledgers

(* A row that goes on makes two calls, a finished one none.                *)
LEMMA TwoCalls ==
  ASSUME NEW r \in Rows, Active(r), plan[r].target \in {SearchAgent, AnswerAgent}
  PROVE  Called(r) = <<VerifierAgent, plan[r].target>>
  BY DEF Called, Mask, SearchAgent, AnswerAgent

\* The events recorded of a step.
LEMMA EventTyped ==
  ASSUME StepInv, NEW r \in Rows, NEW agent \in {VerifierAgent, SearchAgent, AnswerAgent}
  PROVE  EventOf(r, agent) \in EventType
  <1>1. RemainingSlots(shown[r]) \in Nat
    <2>1. shown[r].turns \in Nat
      BY DEF StepInv, LedgerTypes, LedgerType
    <2> QED
      BY <2>1, SearchAssumption DEF RemainingSlots
  <1>2. /\ step - 1 \in Nat /\ plan[r] \in PlanType /\ text_actions[r] \in TextType
        /\ result[r].docs \in BOOLEAN /\ result[r].done \in BOOLEAN
    BY DEF StepInv, RouteTypes
  <1>3. shown[r] \in LedgerType
    BY DEF StepInv, LedgerTypes
  <1>4. /\ shown[r].turns + 1 \in Nat /\ shown[r].attempts \in Nat
        /\ shown[r].successes \in Nat /\ shown[r].duplicates \in Nat
    BY <1>3 DEF LedgerType
  <1>5. (IF agent # VerifierAgent THEN text_actions[r] ELSE Blank) \in TextType
    BY <1>2, NewTyped
  <1> QED
    BY <1>1, <1>2, <1>4, <1>5 DEF EventOf, EventType

(* The trace of a row grows by the two events of the step, or stays.       *)
LEMMA TraceGrows ==
  ASSUME StepInv, EndOfStep, NEW r \in Rows
  PROVE  /\ events'[r] \in Seq(EventType)
         /\ ~ Active(r) => events'[r] = events[r]
         /\ Active(r) => /\ Len(events'[r]) = Len(events[r]) + 2
                         /\ \A i \in 1 .. Len(events[r]) : events'[r][i] = events[r][i]
                         /\ events'[r][Len(events[r]) + 1] = EventOf(r, VerifierAgent)
                         /\ events'[r][Len(events[r]) + 2] = EventOf(r, plan[r].target)
  <1>1. events[r] \in Seq(EventType) /\ events'[r] = events[r] \o StepEvents(r)
    BY DEF StepInv, LedgerTypes, EndOfStep
  <1>2. CASE Active(r)
    <2>1. plan[r].target \in {SearchAgent, AnswerAgent}
      BY <1>2 DEF StepInv, Routed, InTurn, EndOfStep
    <2>2. Called(r) = <<VerifierAgent, plan[r].target>>
      BY <1>2, <2>1, TwoCalls
    <2>3. /\ EventOf(r, VerifierAgent) \in EventType
          /\ EventOf(r, plan[r].target) \in EventType
      BY <2>1, EventTyped
    <2>4. StepEvents(r) = <<EventOf(r, VerifierAgent), EventOf(r, plan[r].target)>>
      BY <2>2 DEF StepEvents
    <2> QED
      BY <1>1, <1>2, <2>3, <2>4
  <1>3. CASE ~ Active(r)
    <2>1. StepEvents(r) = <<>>
      BY <1>3 DEF StepEvents, Called
    <2> QED
      BY <1>1, <1>3, <2>1
  <1> QED
    BY <1>2, <1>3

\* The end of a step: payments, ledgers and events together.
LEMMA EndStep == StepInv /\ EndOfStep => StepInv'
  <1> SUFFICES ASSUME StepInv, EndOfStep PROVE StepInv'
    OBVIOUS
  <1>0. /\ RouteTypes /\ LedgerTypes /\ ClocksAgree /\ ThreadsAgree /\ PaidOnce
        /\ plan' = plan /\ text_actions' = text_actions /\ env' = env
        /\ result' = [r \in Rows |-> NoResult]
        /\ \A r \in Rows : result[r].ready
        /\ pc = "env" /\ pc' \in {"verify", "done"} /\ step' \in {step, step + 1}
    BY DEF StepInv, EndOfStep
  <1>1. \A r \in Rows : /\ is_done'[r] = env[r].done
                        /\ pc' = "verify" => step' = step + 1 /\ step < MaxSteps
                        /\ pc' = "done" => step' = step
                        /\ pc' = "done" => is_done'[r]
    BY EndFacts
  <1>2. \A r \in Rows : Active(r) => /\ result[r].reward = env[r].score
                                     /\ result[r].done = env[r].done
    BY <1>0 DEF ThreadsAgree
  <1>3. \A r \in Rows : episode_rewards'[r] = IF is_done'[r] THEN env[r].score ELSE 0
    <2> SUFFICES ASSUME NEW r \in Rows
                 PROVE  episode_rewards'[r] = IF is_done'[r] THEN env[r].score ELSE 0
      OBVIOUS
    <2>1. CASE Active(r)
      BY <1>0, <1>1, <1>2, <2>1 DEF EndOfStep, Rewards, PaidOnce, ThreadsAgree, RouteTypes, Active
    <2>2. CASE ~ Active(r)
      BY <1>0, <1>1, <2>2 DEF EndOfStep, Rewards, PaidOnce, ThreadsAgree, RouteTypes, Active
    <2> QED
      BY <2>1, <2>2
  <1>4. RouteTypes'
    <2>1. is_done' \in [Rows -> BOOLEAN]
      BY <1>0, <1>1 DEF EndOfStep, RouteTypes
    <2>2. episode_rewards' \in [Rows -> {0, 1}]
      BY <1>0, <1>3 DEF EndOfStep, Rewards, RouteTypes
    <2>3. episode_lengths' \in [Rows -> Nat] /\ tool_callings' \in [Rows -> Nat]
      BY <1>0 DEF EndOfStep, RouteTypes
    <2>4. step' \in 1 .. MaxSteps
      BY <1>0, <1>1, SearchAssumption DEF EndOfStep, RouteTypes
    <2> QED
      BY <1>0, <2>1, <2>2, <2>3, <2>4 DEF RouteTypes, NoResult
  <1>5. LedgerTypes'
    <2>1. ledger' \in [Rows -> LedgerType] /\ shown' = ledger'
      BY LedgersTyped DEF EndOfStep, Ledgers
    <2>2. events' \in [Rows -> Seq(EventType)]
      BY TraceGrows DEF EndOfStep
    <2> QED
      BY <2>1, <2>2 DEF LedgerTypes
  <1>6. ClocksAgree'
    <2> SUFFICES ASSUME NEW r \in Rows
                 PROVE  /\ env'[r].turns = IF result'[r].ready \/ pc' = "done" THEN step' ELSE step' - 1
                        /\ shown'[r] = ledger'[r]
                        /\ ~ is_done'[r] => ledger'[r].turns = step' - 1 /\ episode_lengths'[r] = step' - 1
      BY DEF ClocksAgree, Active
    <2>1. env[r].turns = step /\ ~ result'[r].ready /\ step \in Nat
      BY <1>0, SearchAssumption DEF ClocksAgree, NoResult, RouteTypes
    <2>2. shown'[r] = ledger'[r] /\ ledger'[r] = Ledgers[r]
      BY DEF EndOfStep
    <2>3. ~ is_done'[r] => Active(r) /\ pc' = "verify"
      BY <1>0, <1>1 DEF Active, ThreadsAgree
    <2>4. Active(r) => ledger'[r].turns = step /\ episode_lengths'[r] = step
      <3>1. Active(r) => Ledgers[r].turns = ledger[r].turns + 1
        BY LedgersTyped
      <3>2. Active(r) => ledger[r].turns = step - 1 /\ episode_lengths[r] = step - 1
        BY <1>0 DEF ClocksAgree
      <3>3. Active(r) => episode_lengths'[r] = episode_lengths[r] + 1
        BY DEF EndOfStep
      <3> QED
        BY <2>1, <2>2, <3>1, <3>2, <3>3
    <2> QED
      BY <1>0, <1>1, <2>1, <2>2, <2>3, <2>4
  <1>7. ThreadsAgree'
    BY <1>0, <1>1 DEF ThreadsAgree, NoResult, Active
  <1>8. Routed' /\ TextsAreOwned' /\ EndsTogether'
    BY <1>0, <1>1 DEF Routed, InTurn, TextsAreOwned, EndsTogether
  <1>9. PaidOnce'
    BY <1>0, <1>3 DEF PaidOnce
  <1> QED
    BY <1>4, <1>5, <1>6, <1>7, <1>8, <1>9 DEF StepInv

\* The next rollout starts over.
LEMMA RolloutStep == StepInv /\ NextRollout => StepInv'
  <1> SUFFICES ASSUME StepInv, NextRollout PROVE StepInv'
    OBVIOUS
  <1> USE DEF NextRollout, Reset
  <1>1. RouteTypes' /\ LedgerTypes'
    BY SearchAssumption, NewTyped DEF RouteTypes, LedgerTypes, NewEnv, NoResult
  <1>2. ClocksAgree' /\ ThreadsAgree'
    BY NewTyped DEF ClocksAgree, ThreadsAgree, NewEnv, NoResult, Active
  <1>3. Routed' /\ TextsAreOwned' /\ EndsTogether' /\ PaidOnce'
    BY DEF Routed, InTurn, TextsAreOwned, EndsTogether, PaidOnce
  <1> QED
    BY <1>1, <1>2, <1>3 DEF StepInv

\* StepInv is inductive.
LEMMA StepInductive == StepInv /\ [Next]_vars => StepInv'
  <1> SUFFICES ASSUME StepInv, [Next]_vars PROVE StepInv'
    OBVIOUS
  <1>1. CASE UNCHANGED vars
    BY <1>1 DEF vars, StepInv, RouteTypes, LedgerTypes, ClocksAgree, ThreadsAgree, Routed, InTurn,
       TextsAreOwned, EndsTogether, PaidOnce, Active
  <1> QED
    BY <1>1, VerifierStep, AgentStep, ThreadStep, EndStep, RolloutStep DEF Next

-----------------------------------------------------------------------------
(* The trace.  Only the end of a step writes it.                           *)
LEMMA TraceIsStable ==
  ASSUME VerifierCall \/ SearchCall \/ AnswerCall \/ (\E r \in Rows : EnvThread(r)) \/ UNCHANGED vars
  PROVE  UNCHANGED <<events, ledger, is_done, episode_lengths>>
  BY DEF VerifierCall, SearchCall, AnswerCall, EnvThread, vars

(* The two events of a step.                                               *)
LEMMA StepEventFacts ==
  ASSUME StepInv, EndOfStep, NEW r \in Rows, Active(r)
  PROVE  LET n == Len(events[r]) IN
         /\ n \in Nat /\ Len(events'[r]) = n + 2
         /\ \A i \in 1 .. n : events'[r][i] = events[r][i]
         /\ events'[r][n + 1].agent = VerifierAgent
         /\ events'[r][n + 2].agent = plan[r].target
         /\ events'[r][n + 2].text = text_actions[r]
         /\ events'[r][n + 2].plan = plan[r]
         /\ plan[r].target \in {SearchAgent, AnswerAgent}
  <1>1. plan[r].target \in {SearchAgent, AnswerAgent}
    BY DEF StepInv, Routed, InTurn, EndOfStep
  <1>2. /\ EventOf(r, VerifierAgent).agent = VerifierAgent
        /\ EventOf(r, plan[r].target).agent = plan[r].target
        /\ EventOf(r, plan[r].target).text = text_actions[r]
        /\ EventOf(r, plan[r].target).plan = plan[r]
    BY <1>1 DEF EventOf, VerifierAgent, SearchAgent, AnswerAgent
  <1>3. Len(events[r]) \in Nat
    BY DEF StepInv, LedgerTypes
  <1> QED
    BY <1>1, <1>2, <1>3, TraceGrows

\* A row's last word stays what it was.
LEMMA LastWordStep == StepInv /\ LastWord /\ [Next]_vars => LastWord'
  <1> SUFFICES ASSUME StepInv, LastWord, [Next]_vars PROVE LastWord'
    OBVIOUS
  <1>1. CASE EndOfStep
    <2> SUFFICES ASSUME NEW r \in Rows, is_done'[r]
                 PROVE  /\ Len(events'[r]) > 0
                        /\ Last(r)'.agent = AnswerAgent \/ Last(r)'.text.closes
                        /\ Last(r)'.plan.forced => episode_lengths'[r] = MaxSteps
      BY DEF LastWord
    <2>1. CASE Active(r)
      <3>1. /\ Len(events'[r]) > 0
            /\ Last(r)'.agent = plan[r].target
            /\ Last(r)'.text = text_actions[r]
            /\ Last(r)'.plan = plan[r]
            /\ plan[r].target \in {SearchAgent, AnswerAgent}
        BY <1>1, <2>1, StepEventFacts DEF Last
      <3>2. text_actions[r].closes \/ step = MaxSteps
        BY <1>1, <2>1, EndFacts
      <3>3. /\ step = MaxSteps => plan[r].target # SearchAgent
            /\ plan[r].forced => step = MaxSteps
        BY <1>1 DEF EndOfStep, StepInv, Routed, InTurn
      <3>4. episode_lengths'[r] = (step - 1) + 1 /\ step \in Int
        BY <1>1, <2>1 DEF EndOfStep, StepInv, ClocksAgree, RouteTypes
      <3> QED
        BY <3>1, <3>2, <3>3, <3>4
    <2>2. CASE ~ Active(r)
      <3>1. events'[r] = events[r]
        BY <1>1, <2>2, TraceGrows
      <3>2. episode_lengths'[r] = episode_lengths[r]
        BY <1>1, <2>2 DEF EndOfStep, StepInv, RouteTypes
      <3> QED
        BY <2>2, <3>1, <3>2 DEF LastWord, Last, Active
    <2> QED
      BY <2>1, <2>2
  <1>2. CASE NextRollout
    BY <1>2 DEF NextRollout, Reset, LastWord
  <1>3. CASE UNCHANGED <<events, ledger, is_done, episode_lengths>>
    BY <1>3 DEF LastWord, Last
  <1> QED
    BY <1>1, <1>2, <1>3, TraceIsStable DEF Next

(* The indices of the searches are finitely many.                          *)
LEMMA IndicesFinite ==
  ASSUME StepInv, NEW r \in Rows
  PROVE  /\ IsFiniteSet(Attempts(r)) /\ IsFiniteSet(Asked(r)) /\ IsFiniteSet(Spelt(r))
         /\ Cardinality(Attempts(r)) \in Nat /\ Cardinality(Asked(r)) \in Nat
         /\ Cardinality(Spelt(r)) \in Nat
  <1>1. Len(events[r]) \in Nat
    BY DEF StepInv, LedgerTypes
  <1>2. IsFiniteSet(1 .. Len(events[r]))
    BY <1>1, FS_Interval
  <1>3. IsFiniteSet(Attempts(r)) /\ IsFiniteSet(Asked(r))
    BY <1>2, FS_Subset DEF Attempts, Asked
  <1>4. IsFiniteSet(Spelt(r))
    <2> DEFINE word == [i \in Asked(r) |-> Spelling[events[r][i].text.query]]
    <2>1. word \in Surjection(Asked(r), Spelt(r))
      BY DEF Surjection, Spelt
    <2> QED
      BY <1>3, <2>1, FS_Surjection
  <1> QED
    BY <1>3, <1>4, FS_CardinalityType

(* What the end of a step adds to them.                                    *)
LEMMA IndicesGrow ==
  ASSUME StepInv, EndOfStep, NEW r \in Rows
  PROVE  LET n        == Len(events[r]) + 2
             searches == Active(r) /\ plan[r].target = SearchAgent
             asks     == searches /\ text_actions[r].query # NoQuery
         IN  /\ n \notin Attempts(r) /\ n \notin Asked(r)
             /\ Attempts(r)' = IF searches THEN Attempts(r) \cup {n} ELSE Attempts(r)
             /\ Asked(r)' = IF asks THEN Asked(r) \cup {n} ELSE Asked(r)
             /\ Spelt(r)' = IF asks THEN Spelt(r) \cup {Spelling[text_actions[r].query]} ELSE Spelt(r)
  <1> DEFINE n        == Len(events[r])
             searches == Active(r) /\ plan[r].target = SearchAgent
             asks     == searches /\ text_actions[r].query # NoQuery
  <1>1. n \in Nat
    BY DEF StepInv, LedgerTypes
  <1>2. n + 2 \notin Attempts(r) /\ n + 2 \notin Asked(r)
    BY <1>1 DEF Attempts, Asked
  <1>3. CASE ~ Active(r)
    BY <1>2, <1>3, TraceGrows DEF Attempts, Asked, Spelt
  <1>4. CASE Active(r)
    <2>1. /\ Len(events'[r]) = n + 2
          /\ \A i \in 1 .. n : events'[r][i] = events[r][i]
          /\ events'[r][n + 1].agent = VerifierAgent
          /\ events'[r][n + 2].agent = plan[r].target
          /\ events'[r][n + 2].text = text_actions[r]
      BY <1>4, StepEventFacts
    <2> HIDE DEF n
    <2>2. 1 .. (n + 2) = (1 .. n) \cup {n + 1, n + 2}
      BY <1>1
    <2>3. Attempts(r) = {i \in 1 .. n : events[r][i].agent = SearchAgent}
      BY DEF Attempts, n
    <2>4. Attempts(r)' = {i \in 1 .. (n + 2) : events'[r][i].agent = SearchAgent}
      BY <2>1 DEF Attempts
    <2>5. Attempts(r)' = IF searches THEN Attempts(r) \cup {n + 2} ELSE Attempts(r)
      BY <1>4, <2>1, <2>2, <2>3, <2>4 DEF VerifierAgent, SearchAgent
    <2>6. \A i \in Attempts(r) : events'[r][i] = events[r][i]
      BY <2>1, <2>3
    <2>7. Asked(r)' = IF asks THEN Asked(r) \cup {n + 2} ELSE Asked(r)
      BY <2>1, <2>5, <2>6 DEF Asked
    <2>8. \A i \in Asked(r) : events'[r][i] = events[r][i]
      BY <2>6 DEF Asked
    <2>9. Spelt(r)' = IF asks THEN Spelt(r) \cup {Spelling[text_actions[r].query]} ELSE Spelt(r)
      BY <2>1, <2>7, <2>8 DEF Spelt
    <2> QED
      BY <1>2, <2>5, <2>7, <2>9 DEF n
  <1> QED
    BY <1>3, <1>4

(* What the end of a step records of a search.                             *)
LEMMA RecordedCounts ==
  ASSUME StepInv, EndOfStep, NEW r \in Rows
  PROVE  LET searches == Active(r) /\ plan[r].target = SearchAgent
             q        == text_actions[r].query
             asks     == searches /\ q # NoQuery
         IN  /\ ledger'[r].attempts = ledger[r].attempts + (IF searches THEN 1 ELSE 0)
             /\ ledger'[r].duplicates = ledger[r].duplicates
                  + (IF asks /\ Spelling[q] \in ledger[r].seen THEN 1 ELSE 0)
             /\ ledger'[r].seen = ledger[r].seen \cup (IF asks THEN {Spelling[q]} ELSE {})
  <1>1. ledger'[r] = Ledgers[r] /\ (r \in Mask(SearchAgent) <=> plan[r].target = SearchAgent)
    BY DEF EndOfStep, Mask
  <1>2. ledger[r].attempts \in Nat /\ ledger[r].duplicates \in Nat
    BY DEF StepInv, LedgerTypes, LedgerType
  <1>3. CASE ~ Active(r)
    BY <1>1, <1>2, <1>3 DEF Ledgers
  <1>4. CASE Active(r) /\ plan[r].target = SearchAgent
    BY <1>1, <1>2, <1>4 DEF Ledgers, Recorded, IsDuplicate
  <1>5. CASE Active(r) /\ plan[r].target # SearchAgent
    BY <1>1, <1>2, <1>5 DEF Ledgers, Recorded
  <1> QED
    BY <1>3, <1>4, <1>5

\* The counters grow with the events they count.
LEMMA CountersStep ==
  StepInv /\ SeenIsSpelt /\ CountersAreExact /\ [Next]_vars => SeenIsSpelt' /\ CountersAreExact'
  <1> SUFFICES ASSUME StepInv, SeenIsSpelt, CountersAreExact, [Next]_vars
               PROVE  SeenIsSpelt' /\ CountersAreExact'
    OBVIOUS
  <1>1. CASE EndOfStep
    <2> SUFFICES ASSUME NEW r \in Rows
                 PROVE  /\ ledger'[r].seen = Spelt(r)'
                        /\ ledger'[r].attempts = Cardinality(Attempts(r)')
                        /\ ledger'[r].duplicates = Cardinality(Asked(r)') - Cardinality(Spelt(r)')
      BY DEF SeenIsSpelt, CountersAreExact
    <2> DEFINE n        == Len(events[r]) + 2
               searches == Active(r) /\ plan[r].target = SearchAgent
               word     == Spelling[text_actions[r].query]
               asks     == searches /\ text_actions[r].query # NoQuery
    <2>1. /\ n \notin Attempts(r) /\ n \notin Asked(r)
          /\ Attempts(r)' = IF searches THEN Attempts(r) \cup {n} ELSE Attempts(r)
          /\ Asked(r)' = IF asks THEN Asked(r) \cup {n} ELSE Asked(r)
          /\ Spelt(r)' = IF asks THEN Spelt(r) \cup {word} ELSE Spelt(r)
      BY <1>1, IndicesGrow
    <2>2. /\ ledger'[r].attempts = ledger[r].attempts + (IF searches THEN 1 ELSE 0)
          /\ ledger'[r].duplicates = ledger[r].duplicates
               + (IF asks /\ word \in ledger[r].seen THEN 1 ELSE 0)
          /\ ledger'[r].seen = ledger[r].seen \cup (IF asks THEN {word} ELSE {})
      BY <1>1, RecordedCounts
    <2>3. /\ ledger[r].seen = Spelt(r)
          /\ ledger[r].attempts = Cardinality(Attempts(r))
          /\ ledger[r].duplicates = Cardinality(Asked(r)) - Cardinality(Spelt(r))
      BY DEF SeenIsSpelt, CountersAreExact
    <2>4. /\ Cardinality(Attempts(r)) \in Nat /\ Cardinality(Asked(r)) \in Nat
          /\ Cardinality(Spelt(r)) \in Nat
      BY IndicesFinite
    <2>5. /\ Cardinality(Attempts(r) \cup {n}) = Cardinality(Attempts(r)) + 1
          /\ Cardinality(Asked(r) \cup {n}) = Cardinality(Asked(r)) + 1
          /\ Cardinality(Spelt(r) \cup {word})
               = IF word \in Spelt(r) THEN Cardinality(Spelt(r)) ELSE Cardinality(Spelt(r)) + 1
      BY <2>1, IndicesFinite, FS_AddElement
    <2> HIDE DEF n, searches, word, asks
    <2>6. CASE asks
      <3>1. searches
        BY <2>6 DEF asks
      <3> QED
        BY <2>1, <2>2, <2>3, <2>4, <2>5, <2>6, <3>1
    <2>7. CASE ~ asks
      BY <2>1, <2>2, <2>3, <2>4, <2>5, <2>7
    <2> QED
      BY <2>6, <2>7
  <1>2. CASE NextRollout
    <2> SUFFICES ASSUME NEW r \in Rows
                 PROVE  /\ ledger'[r].seen = Spelt(r)'
                        /\ ledger'[r].attempts = Cardinality(Attempts(r)')
                        /\ ledger'[r].duplicates = Cardinality(Asked(r)') - Cardinality(Spelt(r)')
      BY DEF SeenIsSpelt, CountersAreExact
    <2>1. events'[r] = <<>> /\ ledger'[r] = NewLedger
      BY <1>2 DEF NextRollout, Reset
    <2>2. Attempts(r)' = {} /\ Asked(r)' = {} /\ Spelt(r)' = {}
      BY <2>1 DEF Attempts, Asked, Spelt
    <2> QED
      BY <2>1, <2>2, NewTyped, FS_EmptySet
  <1>3. CASE UNCHANGED <<events, ledger, is_done, episode_lengths>>
    <2>1. ASSUME NEW r \in Rows
          PROVE  Attempts(r)' = Attempts(r) /\ Asked(r)' = Asked(r) /\ Spelt(r)' = Spelt(r)
      BY <1>3 DEF Spelt, Asked, Attempts
    <2> QED
      BY <1>3, <2>1 DEF SeenIsSpelt, CountersAreExact
  <1> QED
    BY <1>1, <1>2, <1>3, TraceIsStable DEF Next

-----------------------------------------------------------------------------
(* The records the audit reads.                                            *)
(* The audit accepts every route of the router, a forced one at the last   *)
(* step, where no slot is left.                                            *)
LEMMA RouteAudited ==
  ASSUME NEW d \in {"yes", "no", "invalid"}, NEW s \in 1 .. MaxSteps, NEW e,
         e.plan = Route(d, s), s = MaxSteps => e.slots = 0
  PROVE  RouteIsLegal(e)
  <1> DEFINE p == Route(d, s)
  <1>1. p.forced => e.slots = 0
    BY RoutesLegal
  <1>2. CASE d = "yes"
    <2>1. p = Plan("yes", AnswerAgent, "verifier_yes", FALSE)
      BY <1>2 DEF Route
    <2> QED
      BY <1>1, <2>1 DEF RouteIsLegal, Plan
  <1>3. CASE d # "yes" /\ s >= MaxSteps
    <2>1. e.plan = Plan(d, AnswerAgent, IF d = "no" THEN "forced_last_step"
                                        ELSE "forced_last_step_after_invalid_verifier", TRUE)
      BY <1>3 DEF Route
    <2>2. /\ e.plan.decision = d /\ e.plan.target = AnswerAgent /\ e.plan.forced = TRUE
          /\ e.plan.reason = IF d = "no" THEN "forced_last_step"
                             ELSE "forced_last_step_after_invalid_verifier"
      BY <2>1 DEF Plan
    <2>3. e.slots = 0
      BY <1>3, SearchAssumption
    <2> QED
      BY <1>3, <2>2, <2>3 DEF RouteIsLegal, SearchAgent, AnswerAgent
  <1>4. CASE d = "no" /\ ~ (s >= MaxSteps)
    <2>1. e.plan = Plan("no", SearchAgent, "verifier_no", FALSE)
      BY <1>4 DEF Route
    <2>2. /\ e.plan.decision = "no" /\ e.plan.target = SearchAgent /\ e.plan.forced = FALSE
          /\ e.plan.reason = "verifier_no"
      BY <2>1 DEF Plan
    <2> QED
      BY <2>2 DEF RouteIsLegal, SearchAgent, AnswerAgent
  <1>5. CASE d = "invalid" /\ ~ (s >= MaxSteps)
    <2>1. e.plan = Plan("invalid", InvalidRoute, FallbackReason, FALSE)
      BY <1>5 DEF Route
    <2>2. /\ e.plan.decision = "invalid" /\ e.plan.target = InvalidRoute /\ e.plan.forced = FALSE
          /\ e.plan.reason = FallbackReason
      BY <2>1 DEF Plan
    <2> QED
      BY <2>2, SearchAssumption DEF RouteIsLegal, SearchAgent, AnswerAgent, FallbackReason
  <1> QED
    BY <1>2, <1>3, <1>4, <1>5

\* A plan stays the router's until the step is over.
LEMMA RoutesStep == StepInv /\ RoutesKnown /\ [Next]_vars => RoutesKnown'
  <1> SUFFICES ASSUME StepInv, RoutesKnown, [Next]_vars PROVE RoutesKnown'
    OBVIOUS
  <1>1. CASE VerifierCall
    BY <1>1 DEF VerifierCall, RoutesKnown, InTurn, Active
  <1>2. CASE EndOfStep \/ NextRollout
    BY <1>2 DEF EndOfStep, NextRollout, Reset, RoutesKnown, InTurn
  <1>3. CASE SearchCall \/ AnswerCall \/ (\E r \in Rows : EnvThread(r)) \/ UNCHANGED vars
    BY <1>3 DEF SearchCall, AnswerCall, EnvThread, vars, RoutesKnown, InTurn, Active
  <1> QED
    BY <1>1, <1>2, <1>3 DEF Next

\* A search adds at least as many attempts as successes and duplicates.
LEMMA LedgersStep == StepInv /\ LedgersAreSane /\ [Next]_vars => LedgersAreSane'
  <1> SUFFICES ASSUME StepInv, LedgersAreSane, [Next]_vars PROVE LedgersAreSane'
    OBVIOUS
  <1>1. CASE EndOfStep
    <2> SUFFICES ASSUME NEW r \in Rows
                 PROVE  /\ ledger'[r].successes <= ledger'[r].attempts
                        /\ ledger'[r].duplicates <= ledger'[r].attempts
      BY DEF LedgersAreSane
    <2>1. /\ ledger[r].attempts \in Nat /\ ledger[r].duplicates \in Nat /\ ledger[r].successes \in Nat
          /\ ledger[r].successes <= ledger[r].attempts
          /\ ledger[r].duplicates <= ledger[r].attempts
      BY DEF StepInv, LedgerTypes, LedgerType, LedgersAreSane
    <2>2. ledger'[r] = Ledgers[r] /\ (r \in Mask(SearchAgent) <=> plan[r].target = SearchAgent)
      BY <1>1 DEF EndOfStep, Mask
    <2>3. \/ /\ ledger'[r].attempts = ledger[r].attempts + 1
             /\ ledger'[r].successes \in {ledger[r].successes, ledger[r].successes + 1}
             /\ ledger'[r].duplicates \in {ledger[r].duplicates, ledger[r].duplicates + 1}
          \/ /\ ledger'[r].attempts = ledger[r].attempts
             /\ ledger'[r].successes = ledger[r].successes
             /\ ledger'[r].duplicates = ledger[r].duplicates
      <3>1. CASE ~ Active(r)
        BY <2>2, <3>1 DEF Ledgers
      <3>2. CASE Active(r) /\ plan[r].target = SearchAgent
        BY <2>1, <2>2, <3>2 DEF Ledgers, Recorded
      <3>3. CASE Active(r) /\ plan[r].target # SearchAgent
        BY <2>1, <2>2, <3>3 DEF Ledgers, Recorded
      <3> QED
        BY <3>1, <3>2, <3>3
    <2> QED
      BY <2>1, <2>3
  <1>2. CASE NextRollout
    BY <1>2 DEF NextRollout, Reset, LedgersAreSane, NewLedger
  <1>3. CASE UNCHANGED <<events, ledger, is_done, episode_lengths>>
    BY <1>3 DEF LedgersAreSane
  <1> QED
    BY <1>1, <1>2, <1>3, TraceIsStable DEF Next

\* What the end of a step records of a row that goes on.
LEMMA StepIsRecorded ==
  ASSUME StepInv, RoutesKnown, LedgersAreSane, EndOfStep, NEW r \in Rows, Active(r)
  PROVE  StepRecorded(EventOf(r, VerifierAgent), EventOf(r, plan[r].target), step, is_done'[r])
  <1> DEFINE v == EventOf(r, VerifierAgent)
             a == EventOf(r, plan[r].target)
  <1>1. /\ step \in 1 .. MaxSteps /\ shown[r] = ledger[r] /\ shown[r].turns = step - 1
        /\ plan[r].target \in {SearchAgent, AnswerAgent}
        /\ plan[r].forced => step = MaxSteps
    BY DEF StepInv, RouteTypes, ClocksAgree, Routed, InTurn, EndOfStep
  <1>2. PICK d \in {"yes", "no", "invalid"} : plan[r] = Route(d, step)
    BY DEF RoutesKnown, InTurn, EndOfStep
  <1>3. /\ shown[r].attempts \in Nat /\ shown[r].successes \in Nat /\ shown[r].duplicates \in Nat
        /\ shown[r].successes <= shown[r].attempts /\ shown[r].duplicates <= shown[r].attempts
    BY <1>1 DEF StepInv, LedgerTypes, LedgerType, LedgersAreSane
  <1>4. RemainingSlots(shown[r]) \in Nat /\ (step = MaxSteps => RemainingSlots(shown[r]) = 0)
    BY <1>1, SearchAssumption DEF RemainingSlots
  <1>5. ASSUME NEW agent \in {VerifierAgent, SearchAgent, AnswerAgent}
        PROVE  LET e == EventOf(r, agent) IN
               /\ e.agent = agent /\ e.plan = plan[r] /\ e.env_step = step - 1 /\ e.turn = step
               /\ e.slots = RemainingSlots(shown[r])
               /\ e.attempts = shown[r].attempts /\ e.successes = shown[r].successes
               /\ e.duplicates = shown[r].duplicates
    BY <1>1 DEF EventOf
  <1>6. /\ ~ v.is_env_action /\ ~ v.done
        /\ a.is_env_action /\ a.done = result[r].done /\ a.text = text_actions[r]
    <2>1. v.is_env_action = FALSE /\ v.done = FALSE
      BY DEF EventOf
    <2>2. plan[r].target # VerifierAgent
      BY <1>1 DEF VerifierAgent, SearchAgent, AnswerAgent
    <2>3. result[r].done \in BOOLEAN
      BY DEF StepInv, RouteTypes
    <2>4. a.is_env_action = TRUE /\ a.done = result[r].done /\ a.text = text_actions[r]
      BY <2>2, <2>3 DEF EventOf
    <2> QED
      BY <2>1, <2>4
  <1>7. /\ result[r].done \in BOOLEAN /\ result[r].ready
        /\ result[r].done = env[r].done /\ is_done'[r] = env[r].done
        /\ text_actions[r].closes => result[r].done
    BY EndFacts DEF StepInv, RouteTypes, ThreadsAgree, EndOfStep
  <1>8. ASSUME NEW e \in {v, a}
        PROVE  e.env_step = step - 1 /\ e.turn = step /\ ShapeIsGood(e) /\ RouteIsLegal(e)
    <2>1. PICK agent \in {VerifierAgent, SearchAgent, AnswerAgent} : e = EventOf(r, agent)
      BY <1>1
    <2>2. /\ e.plan = plan[r] /\ e.env_step = step - 1 /\ e.turn = step
          /\ e.slots = RemainingSlots(shown[r])
          /\ e.attempts = shown[r].attempts /\ e.successes = shown[r].successes
          /\ e.duplicates = shown[r].duplicates
      BY <1>5, <2>1
    <2>3. RouteIsLegal(e)
      BY <1>1, <1>2, <1>4, <2>2, RouteAudited
    <2>4. ShapeIsGood(e)
      BY <1>1, <1>3, <1>4, <2>2 DEF ShapeIsGood
    <2> QED
      BY <2>2, <2>3, <2>4
  <1>9. /\ v.agent = VerifierAgent /\ a.agent = plan[r].target /\ a.plan = plan[r]
        /\ StepFacts(v) = StepFacts(a)
    BY <1>1, <1>5 DEF StepFacts
  <1> HIDE DEF v, a
  <1>10. StepRecorded(v, a, step, is_done'[r])
    BY <1>1, <1>6, <1>7, <1>8, <1>9 DEF StepRecorded
  <1> QED
    BY <1>10 DEF v, a

\* A trace stays one of steps: the row's last one is added behind the others.
LEMMA TraceStep ==
  StepInv /\ RoutesKnown /\ LedgersAreSane /\ TraceIsOfSteps /\ [Next]_vars => TraceIsOfSteps'
  <1> SUFFICES ASSUME StepInv, RoutesKnown, LedgersAreSane, TraceIsOfSteps, [Next]_vars
               PROVE  TraceIsOfSteps'
    OBVIOUS
  <1>1. CASE EndOfStep
    <2> SUFFICES ASSUME NEW r \in Rows
                 PROVE  /\ Len(events'[r]) = 2 * episode_lengths'[r] /\ episode_lengths'[r] <= MaxSteps
                        /\ \A k \in 1 .. episode_lengths'[r] :
                             StepRecorded(events'[r][2 * k - 1], events'[r][2 * k], k,
                                          is_done'[r] /\ k = episode_lengths'[r])
      BY DEF TraceIsOfSteps
    <2> DEFINE n == episode_lengths[r]
    <2>1. /\ Len(events[r]) = 2 * n /\ n <= MaxSteps /\ n \in Nat
          /\ \A k \in 1 .. n : StepRecorded(events[r][2 * k - 1], events[r][2 * k], k, is_done[r] /\ k = n)
      BY DEF TraceIsOfSteps, StepInv, RouteTypes
    <2>2. is_done[r] \in BOOLEAN /\ is_done'[r] \in BOOLEAN
      BY <1>1, EndFacts DEF StepInv, RouteTypes
    <2>3. CASE Active(r)
      <3>1. /\ n = step - 1 /\ step \in 1 .. MaxSteps /\ MaxSteps \in Nat /\ ~ is_done[r]
            /\ episode_lengths'[r] = n + 1
        BY <1>1, <2>3, SearchAssumption DEF StepInv, ClocksAgree, RouteTypes, Active, EndOfStep
      <3>2. /\ Len(events'[r]) = 2 * n + 2
            /\ \A i \in 1 .. 2 * n : events'[r][i] = events[r][i]
            /\ events'[r][2 * n + 1] = EventOf(r, VerifierAgent)
            /\ events'[r][2 * n + 2] = EventOf(r, plan[r].target)
        <4>1. /\ Len(events'[r]) = Len(events[r]) + 2
              /\ \A i \in 1 .. Len(events[r]) : events'[r][i] = events[r][i]
              /\ events'[r][Len(events[r]) + 1] = EventOf(r, VerifierAgent)
              /\ events'[r][Len(events[r]) + 2] = EventOf(r, plan[r].target)
          BY <1>1, <2>3, TraceGrows
        <4>2. Len(events[r]) = 2 * n
          BY <2>1
        <4> QED
          BY <4>1, <4>2
      <3>3. StepRecorded(EventOf(r, VerifierAgent), EventOf(r, plan[r].target), step, is_done'[r])
        BY <1>1, <2>3, StepIsRecorded
      <3> HIDE DEF n
      <3>4. ASSUME NEW k \in 1 .. n + 1
            PROVE  StepRecorded(events'[r][2 * k - 1], events'[r][2 * k], k, is_done'[r] /\ k = n + 1)
        <4>1. CASE k = n + 1
          <5>1. 2 * k - 1 = 2 * n + 1 /\ 2 * k = 2 * n + 2 /\ k = step
            BY <2>1, <3>1, <4>1
          <5>2. (is_done'[r] /\ k = n + 1) = is_done'[r]
            BY <2>2, <4>1
          <5> QED
            BY <3>2, <3>3, <5>1, <5>2
        <4>2. CASE k # n + 1
          <5>1. k \in 1 .. n /\ 2 * k - 1 \in 1 .. 2 * n /\ 2 * k \in 1 .. 2 * n
            BY <2>1, <4>2
          <5>2. (is_done[r] /\ k = n) = FALSE /\ (is_done'[r] /\ k = n + 1) = FALSE
            BY <3>1, <4>2
          <5> QED
            BY <2>1, <3>2, <5>1, <5>2
        <4> QED
          BY <4>1, <4>2
      <3>5. n + 1 <= MaxSteps /\ 2 * n + 2 = 2 * (n + 1)
        BY <2>1, <3>1
      <3> QED
        BY <3>1, <3>2, <3>4, <3>5
    <2>4. CASE ~ Active(r)
      <3>1. events'[r] = events[r]
        BY <1>1, <2>4, TraceGrows
      <3>2. episode_lengths'[r] = n
        BY <1>1, <2>1, <2>4 DEF EndOfStep
      <3>3. is_done'[r] = is_done[r]
        BY <1>1, <2>2, <2>4 DEF EndOfStep, Active
      <3> HIDE DEF n
      <3> QED
        BY <2>1, <3>1, <3>2, <3>3
    <2> QED
      BY <2>3, <2>4
  <1>2. CASE NextRollout
    BY <1>2, SearchAssumption DEF NextRollout, Reset, TraceIsOfSteps
  <1>3. CASE UNCHANGED <<events, ledger, is_done, episode_lengths>>
    BY <1>3 DEF TraceIsOfSteps
  <1> QED
    BY <1>1, <1>2, <1>3, TraceIsStable DEF Next

-----------------------------------------------------------------------------
(* What the audit says of a trace of steps.                                *)
\* The step of a record.
LEMMA StepOfRecord ==
  ASSUME StepInv, TraceIsOfSteps, NEW r \in Rows, NEW i \in 1 .. Len(events[r])
  PROVE  \E k \in 1 .. episode_lengths[r] :
           /\ i \in {2 * k - 1, 2 * k}
           /\ StepRecorded(events[r][2 * k - 1], events[r][2 * k], k,
                           is_done[r] /\ k = episode_lengths[r])
  <1> DEFINE n == episode_lengths[r]
             k == (i + 1) \div 2
  <1>1. n \in Nat /\ i \in 1 .. 2 * n
    BY DEF TraceIsOfSteps, StepInv, RouteTypes
  <1>2. k \in 1 .. n /\ i \in {2 * k - 1, 2 * k}
    BY <1>1
  <1> HIDE DEF k
  <1> QED
    BY <1>2 DEF TraceIsOfSteps

\* The records of a step are its two.
LEMMA RecordsOfStep ==
  ASSUME StepInv, TraceIsOfSteps, NEW r \in Rows, NEW k \in 1 .. episode_lengths[r]
  PROVE  /\ StepOf(r, k - 1) = {2 * k - 1, 2 * k}
         /\ {2 * k - 1, 2 * k} \subseteq 1 .. Len(events[r])
  <1>1. episode_lengths[r] \in Nat /\ Len(events[r]) = 2 * episode_lengths[r]
    BY DEF TraceIsOfSteps, StepInv, RouteTypes
  <1>2. {2 * k - 1, 2 * k} \subseteq 1 .. Len(events[r])
    BY <1>1
  <1>3. events[r][2 * k - 1].env_step = k - 1 /\ events[r][2 * k].env_step = k - 1
    BY DEF TraceIsOfSteps, StepRecorded
  <1>4. ASSUME NEW i \in 1 .. Len(events[r]), events[r][i].env_step = k - 1
        PROVE  i \in {2 * k - 1, 2 * k}
    <2>1. PICK m \in 1 .. episode_lengths[r] :
            /\ i \in {2 * m - 1, 2 * m}
            /\ StepRecorded(events[r][2 * m - 1], events[r][2 * m], m,
                            is_done[r] /\ m = episode_lengths[r])
      BY StepOfRecord
    <2>2. events[r][i].env_step = m - 1
      BY <2>1 DEF StepRecorded
    <2> QED
      BY <1>1, <1>4, <2>1, <2>2
  <1> QED
    BY <1>2, <1>3, <1>4 DEF StepOf

\* What the audit asks of a single record.
LEMMA RecordPasses ==
  ASSUME StepInv, TraceIsOfSteps, NEW r \in Rows, NEW e \in Records(r)
  PROVE  /\ ShapeIsGood(e) /\ RouteIsLegal(e)
         /\ e.agent = AnswerAgent /\ e.text.closes => e.done
         /\ e.env_step \in {k - 1 : k \in 1 .. episode_lengths[r]}
  <1>1. PICK i \in 1 .. Len(events[r]) : e = events[r][i]
    BY DEF Records
  <1>2. PICK k \in 1 .. episode_lengths[r] :
          /\ i \in {2 * k - 1, 2 * k}
          /\ StepRecorded(events[r][2 * k - 1], events[r][2 * k], k,
                          is_done[r] /\ k = episode_lengths[r])
    BY StepOfRecord
  <1>3. e.env_step = k - 1 /\ ShapeIsGood(e) /\ RouteIsLegal(e)
    BY <1>1, <1>2 DEF StepRecorded
  <1>4. e.agent = AnswerAgent /\ e.text.closes => e.done
    BY <1>1, <1>2 DEF StepRecorded, VerifierAgent, AnswerAgent
  <1> QED
    BY <1>3, <1>4

\* And of a step.
LEMMA StepPasses ==
  ASSUME StepInv, TraceIsOfSteps, NEW r \in Rows, NEW s \in Steps(r)
  PROVE  RolesAreLegal(r, s) /\ FieldsAgree(r, s) /\ ActionIsOwned(r, s)
  <1>1. PICK k \in 1 .. episode_lengths[r] : s = k - 1
    BY RecordPasses DEF Steps
  <1> DEFINE i == 2 * k - 1
             j == 2 * k
             v == events[r][i]
             a == events[r][j]
  <1>2. StepOf(r, s) = {i, j} /\ i \in 1 .. Len(events[r]) /\ j \in 1 .. Len(events[r])
    BY <1>1, RecordsOfStep
  <1>3. i < j
    OBVIOUS
  <1>4. StepRecorded(v, a, k, is_done[r] /\ k = episode_lengths[r])
    BY DEF TraceIsOfSteps
  <1> HIDE DEF i, j, v, a
  <1>5. /\ v.agent = VerifierAgent /\ a.agent = a.plan.target
        /\ ~ v.is_env_action /\ a.is_env_action
        /\ v.turn = k /\ a.turn = k /\ RouteIsLegal(a)
        /\ StepFacts(v) = StepFacts(a)
    BY <1>4 DEF StepRecorded
  <1>6. RolesAreLegal(r, s)
    <2>1. a.agent \in {SearchAgent, AnswerAgent}
      BY <1>5 DEF RouteIsLegal
    <2> QED
      BY <1>2, <1>3, <1>5, <2>1 DEF RolesAreLegal, v, a
  <1>7. FieldsAgree(r, s)
    <2>1. {StepFacts(events[r][m]) : m \in StepOf(r, s)} = {StepFacts(v)}
      BY <1>2, <1>5 DEF v, a
    <2>2. Cardinality({StepFacts(v)}) = 1
      BY FS_Singleton
    <2>3. \A m \in StepOf(r, s) : events[r][m].turn = s + 1
      BY <1>1, <1>2, <1>5 DEF v, a
    <2> QED
      BY <2>1, <2>2, <2>3 DEF FieldsAgree
  <1>8. ActionIsOwned(r, s)
    <2>1. {m \in StepOf(r, s) : events[r][m].is_env_action} = {j}
      BY <1>2, <1>5 DEF v, a
    <2> QED
      BY <1>2, <1>5, <2>1 DEF ActionIsOwned, a
  <1> QED
    BY <1>6, <1>7, <1>8

\* Steps are recorded in order.
LEMMA RecordsInOrder ==
  ASSUME StepInv, TraceIsOfSteps, NEW r \in Rows,
         NEW i \in 1 .. Len(events[r]), NEW j \in 1 .. Len(events[r]), i < j
  PROVE  events[r][i].env_step <= events[r][j].env_step
  <1>1. PICK k \in 1 .. episode_lengths[r] :
          /\ i \in {2 * k - 1, 2 * k}
          /\ StepRecorded(events[r][2 * k - 1], events[r][2 * k], k,
                          is_done[r] /\ k = episode_lengths[r])
    BY StepOfRecord
  <1>2. PICK m \in 1 .. episode_lengths[r] :
          /\ j \in {2 * m - 1, 2 * m}
          /\ StepRecorded(events[r][2 * m - 1], events[r][2 * m], m,
                          is_done[r] /\ m = episode_lengths[r])
    BY StepOfRecord
  <1>3. events[r][i].env_step = k - 1 /\ events[r][j].env_step = m - 1
    BY <1>1, <1>2 DEF StepRecorded
  <1> QED
    BY <1>1, <1>2, <1>3

\* There are as many odd positions as steps.
LEMMA OddPositions ==
  ASSUME NEW n \in Nat, NEW C, \A k \in 1 .. n : 2 * k - 1 \in C,
         \A i \in C : \E k \in 1 .. n : i = 2 * k - 1
  PROVE  Cardinality(C) = n
  <1> DEFINE f == [k \in 1 .. n |-> 2 * k - 1]
  <1>1. f \in [1 .. n -> C]
    OBVIOUS
  <1>2. \A k, m \in 1 .. n : f[k] = f[m] => k = m
    OBVIOUS
  <1>3. \A i \in C : \E k \in 1 .. n : f[k] = i
    OBVIOUS
  <1> HIDE DEF f
  <1>4. f \in Bijection(1 .. n, C)
    BY <1>1, <1>2, <1>3 DEF Bijection, Injection, Surjection, IsInjective
  <1>5. ExistsBijection(1 .. n, C)
    BY <1>4 DEF ExistsBijection
  <1>6. IsFiniteSet(1 .. n) /\ Cardinality(1 .. n) = n
    BY FS_Interval
  <1> QED
    BY <1>5, <1>6, FS_Bijection

\* The Verifier was asked once in every step.
LEMMA VerifierCounted ==
  ASSUME StepInv, TraceIsOfSteps, NEW r \in Rows
  PROVE  Cardinality(CallsOf(r, VerifierAgent)) = episode_lengths[r]
  <1>1. episode_lengths[r] \in Nat
    BY DEF StepInv, RouteTypes
  <1>2. ASSUME NEW k \in 1 .. episode_lengths[r] PROVE 2 * k - 1 \in CallsOf(r, VerifierAgent)
    <2>1. 2 * k - 1 \in 1 .. Len(events[r]) /\ events[r][2 * k - 1].agent = VerifierAgent
      BY RecordsOfStep DEF TraceIsOfSteps, StepRecorded
    <2> QED
      BY <2>1 DEF CallsOf
  <1>3. ASSUME NEW i \in CallsOf(r, VerifierAgent)
        PROVE  \E k \in 1 .. episode_lengths[r] : i = 2 * k - 1
    <2>1. i \in 1 .. Len(events[r]) /\ events[r][i].agent = VerifierAgent
      BY DEF CallsOf
    <2>2. PICK k \in 1 .. episode_lengths[r] :
            /\ i \in {2 * k - 1, 2 * k}
            /\ StepRecorded(events[r][2 * k - 1], events[r][2 * k], k,
                            is_done[r] /\ k = episode_lengths[r])
      BY <2>1, StepOfRecord
    <2>3. events[r][2 * k].agent \in {SearchAgent, AnswerAgent}
      BY <2>2 DEF StepRecorded, RouteIsLegal
    <2>4. i # 2 * k
      BY <2>1, <2>3 DEF VerifierAgent, SearchAgent, AnswerAgent
    <2> QED
      BY <2>2, <2>4
  <1> QED
    BY <1>1, <1>2, <1>3, OddPositions

\* The last record of a finished row: the only one that ended the episode, and
\* the only one that can be a forced answer.
LEMMA LastRecord ==
  ASSUME StepInv, LastWord, TraceIsOfSteps, NEW r \in Rows, is_done[r]
  PROVE  /\ Len(events[r]) \in 1 .. Len(events[r])
         /\ Last(r).done /\ Last(r).agent \in {SearchAgent, AnswerAgent}
         /\ Last(r).plan.forced => Last(r).agent = AnswerAgent
         /\ \A i \in 1 .. Len(events[r]) :
              /\ events[r][i].done => i = Len(events[r])
              /\ events[r][i].agent = AnswerAgent /\ events[r][i].plan.forced => i = Len(events[r])
  <1> DEFINE n == episode_lengths[r]
  <1>1. n \in Nat /\ Len(events[r]) = 2 * n /\ n <= MaxSteps /\ Len(events[r]) > 0 /\ MaxSteps \in Nat
    BY SearchAssumption DEF TraceIsOfSteps, StepInv, RouteTypes, LastWord
  <1>2. n \in 1 .. n /\ Len(events[r]) \in 1 .. Len(events[r])
    BY <1>1
  <1>3. StepRecorded(events[r][2 * n - 1], events[r][2 * n], n, is_done[r] /\ n = n)
    BY <1>2 DEF TraceIsOfSteps
  <1>4. Last(r) = events[r][2 * n]
    BY <1>1 DEF Last
  <1>5. Last(r).done /\ Last(r).agent = Last(r).plan.target /\ RouteIsLegal(Last(r))
    BY <1>3, <1>4 DEF StepRecorded
  <1>6. /\ Last(r).agent \in {SearchAgent, AnswerAgent}
        /\ Last(r).plan.forced => Last(r).agent = AnswerAgent
    BY <1>5 DEF RouteIsLegal
  <1>7. ASSUME NEW i \in 1 .. Len(events[r])
        PROVE  /\ events[r][i].done => i = Len(events[r])
               /\ events[r][i].agent = AnswerAgent /\ events[r][i].plan.forced => i = Len(events[r])
    <2>1. PICK k \in 1 .. n :
            /\ i \in {2 * k - 1, 2 * k}
            /\ StepRecorded(events[r][2 * k - 1], events[r][2 * k], k, is_done[r] /\ k = n)
      BY StepOfRecord
    <2>2. CASE i = 2 * k - 1
      BY <2>1, <2>2 DEF StepRecorded, VerifierAgent, AnswerAgent
    <2>3. CASE i = 2 * k
      <3>1. events[r][i].done => k = n
        BY <2>1, <2>3 DEF StepRecorded
      <3>2. events[r][i].plan.forced => k = MaxSteps
        BY <2>1, <2>3 DEF StepRecorded
      <3> QED
        BY <1>1, <2>3, <3>1, <3>2
    <2> QED
      BY <2>1, <2>2, <2>3
  <1> QED
    BY <1>2, <1>5, <1>6, <1>7

\* The stop reason of a finished row.
LEMMA StopReasonFits ==
  ASSUME StepInv, LastWord, TraceIsOfSteps, NEW r \in Rows, is_done[r]
  PROVE  /\ StopReason(r) = IF Last(r).text.closes
                            THEN IF Last(r).plan.forced THEN "forced_answer_submitted" ELSE "answer_submitted"
                            ELSE IF Last(r).plan.forced THEN "forced_answer_invalid" ELSE "answer_invalid"
         /\ Last(r).plan.forced <=>
              \E i \in 1 .. Len(events[r]) : events[r][i].agent = AnswerAgent /\ events[r][i].plan.forced
  <1> DEFINE answers == {i \in 1 .. Len(events[r]) : events[r][i].agent = AnswerAgent}
             forced  == {i \in answers : events[r][i].plan.forced}
  <1>1. Last(r).plan.forced => Len(events[r]) \in forced
    BY LastRecord DEF Last
  <1>2. \A i \in forced : i = Len(events[r]) /\ Last(r).plan.forced
    BY LastRecord DEF Last
  <1>3. ~ Last(r).text.closes => Len(events[r]) \in answers
    BY LastRecord DEF LastWord, Last
  <1>4. StopReason(r) =
          IF Last(r).text.closes THEN IF forced # {} THEN "forced_answer_submitted" ELSE "answer_submitted"
          ELSE IF forced # {} THEN "forced_answer_invalid"
          ELSE IF answers # {} THEN "answer_invalid"
          ELSE IF episode_lengths[r] >= MaxSteps THEN "max_steps_exhausted"
          ELSE "env_done"
    BY DEF StopReason
  <1>5. Last(r).plan.forced <=>
          \E i \in 1 .. Len(events[r]) : events[r][i].agent = AnswerAgent /\ events[r][i].plan.forced
    BY <1>1, <1>2
  <1> HIDE DEF answers, forced
  <1> QED
    BY <1>1, <1>2, <1>3, <1>4, <1>5

\* The verdict on a trace that has passed all the checks but three.
LEMMA VerdictErrors ==
  ASSUME NEW a \in BOOLEAN, NEW b \in BOOLEAN, NEW c \in BOOLEAN, NEW v,
         v = [shape |-> TRUE, order |-> TRUE, roles |-> TRUE, fields |-> TRUE, route |-> TRUE,
              owner |-> TRUE, tool_status |-> a, tool_query |-> b, observation |-> c,
              stop_reason |-> TRUE, verifier_count |-> TRUE, search_count |-> TRUE, answer_ends |-> TRUE]
  PROVE  LET errors == {check \in DOMAIN v : ~ v[check]} IN
         /\ errors \subseteq {"tool_status", "tool_query", "observation"}
         /\ "tool_status" \in errors <=> ~ a
         /\ "tool_query" \in errors <=> ~ b
         /\ "observation" \in errors <=> ~ c
  OBVIOUS

\* What the audit says of a finished row.
LEMMA RowIsAudited ==
  ASSUME StepInv, LastWord, TraceIsOfSteps, NEW r \in Rows, is_done[r]
  PROVE  LET errors == Complaints(r) IN
         /\ errors \subseteq {"tool_status", "tool_query", "observation"}
         /\ "tool_status" \in errors <=> Attempts(r) # {}
         /\ "tool_query" \in errors <=>
              \E i \in Attempts(r) : i = Len(events[r]) \/ i \notin Asked(r)
         /\ "observation" \in errors <=>
              \E i \in Attempts(r) : i = Len(events[r]) \/ ~ events[r][i].text.tagged
         /\ errors = {} <=> Attempts(r) = {}
  <1> DEFINE a == \A e \in Records(r) : ToolStatusGiven(e)
             b == \A e \in Records(r) : ToolQueryGiven(e)
             c == \A e \in Records(r) : ObservationGiven(e)
             v == Verdict(r)
  <1>1. /\ \A e \in Records(r) : /\ ShapeIsGood(e) /\ RouteIsLegal(e)
                                 /\ e.agent = AnswerAgent /\ e.text.closes => e.done
        /\ \A s \in Steps(r) : RolesAreLegal(r, s) /\ FieldsAgree(r, s) /\ ActionIsOwned(r, s)
        /\ Cardinality(CallsOf(r, VerifierAgent)) = episode_lengths[r]
    BY RecordPasses, StepPasses, VerifierCounted
  <1>2. \A i, j \in 1 .. Len(events[r]) : i < j => events[r][i].env_step <= events[r][j].env_step
    BY RecordsInOrder
  <1>3. StopIsCompatible(r)
    BY StopReasonFits DEF StopIsCompatible
  <1>4. Cardinality(CallsOf(r, SearchAgent)) = DumpedToolCallings(r)
    BY DEF DumpedToolCallings
  <1>5. v = [shape |-> TRUE, order |-> TRUE, roles |-> TRUE, fields |-> TRUE, route |-> TRUE,
             owner |-> TRUE, tool_status |-> a, tool_query |-> b, observation |-> c,
             stop_reason |-> TRUE, verifier_count |-> TRUE, search_count |-> TRUE, answer_ends |-> TRUE]
    <2> DEFINE shape    == \A e \in Records(r) : ShapeIsGood(e)
               order    == \A i, j \in 1 .. Len(events[r]) :
                             i < j => events[r][i].env_step <= events[r][j].env_step
               roles    == \A s \in Steps(r) : RolesAreLegal(r, s)
               fields   == \A s \in Steps(r) : FieldsAgree(r, s)
               route    == \A e \in Records(r) : RouteIsLegal(e)
               owner    == \A s \in Steps(r) : ActionIsOwned(r, s)
               stop     == StopIsCompatible(r)
               verifier == Cardinality(CallsOf(r, VerifierAgent)) = episode_lengths[r]
               search   == Cardinality(CallsOf(r, SearchAgent)) = DumpedToolCallings(r)
               answer   == \A e \in Records(r) : e.agent = AnswerAgent /\ e.text.closes => e.done
    <2>1. v = [shape |-> shape, order |-> order, roles |-> roles, fields |-> fields, route |-> route,
               owner |-> owner, tool_status |-> a, tool_query |-> b, observation |-> c,
               stop_reason |-> stop, verifier_count |-> verifier, search_count |-> search,
               answer_ends |-> answer]
      BY DEF Verdict
    <2>2. shape = TRUE /\ route = TRUE /\ answer = TRUE
      BY <1>1
    <2>3. roles = TRUE /\ fields = TRUE /\ owner = TRUE
      BY <1>1
    <2>4. order = TRUE
      BY <1>2
    <2>5. stop = TRUE
      BY <1>3 DEF StopIsCompatible
    <2>6. verifier = TRUE /\ search = TRUE
      BY <1>1, <1>4
    <2> HIDE DEF v, a, b, c, shape, order, roles, fields, route, owner, stop, verifier, search, answer
    <2> QED
      BY <2>1, <2>2, <2>3, <2>4, <2>5, <2>6
  <1>6. a <=> Attempts(r) = {}
    <2>1. \A e : ToolStatusGiven(e) <=> e.agent # SearchAgent
      BY DEF ToolStatusGiven, ToolStatus, Statuses
    <2> QED
      BY <2>1 DEF Records, Attempts
  <1>7. \A i \in 1 .. Len(events[r]) : events[r][i].done <=> i = Len(events[r])
    BY LastRecord DEF Last
  <1>8. /\ b <=> ~ \E i \in Attempts(r) : i = Len(events[r]) \/ i \notin Asked(r)
        /\ c <=> ~ \E i \in Attempts(r) : i = Len(events[r]) \/ ~ events[r][i].text.tagged
    <2>1. b <=> \A i \in Attempts(r) : events[r][i].text.query # NoQuery /\ ~ events[r][i].done
      BY DEF ToolQueryGiven, Records, Attempts
    <2>2. c <=> \A i \in Attempts(r) : events[r][i].text.tagged /\ ~ events[r][i].done
      BY DEF ObservationGiven, Records, Attempts
    <2>3. Attempts(r) \subseteq 1 .. Len(events[r])
      BY DEF Attempts
    <2> HIDE DEF b, c
    <2>4. b <=> ~ \E i \in Attempts(r) : i = Len(events[r]) \/ i \notin Asked(r)
      BY <1>7, <2>1, <2>3 DEF Asked
    <2>5. c <=> ~ \E i \in Attempts(r) : i = Len(events[r]) \/ ~ events[r][i].text.tagged
      BY <1>7, <2>2, <2>3
    <2> QED
      BY <2>4, <2>5
  <1>9. a \in BOOLEAN /\ b \in BOOLEAN /\ c \in BOOLEAN
    OBVIOUS
  <1>10. Attempts(r) = {} => b /\ c
    BY <1>8
  <1> HIDE DEF a, b, c, v
  <1> DEFINE errors == {check \in DOMAIN v : ~ v[check]}
  <1>11. /\ errors \subseteq {"tool_status", "tool_query", "observation"}
         /\ "tool_status" \in errors <=> ~ a
         /\ "tool_query" \in errors <=> ~ b
         /\ "observation" \in errors <=> ~ c
    BY <1>5, <1>9, VerdictErrors
  <1>12. Complaints(r) = errors
    BY DEF Complaints, v
  <1> HIDE DEF errors
  <1>13. errors = {} <=> a /\ b /\ c
    BY <1>9, <1>11
  <1> QED
    BY <1>6, <1>8, <1>9, <1>10, <1>11, <1>12, <1>13

\* Without events there is nothing to count.
LEMMA TraceInit == Init => LastWord /\ SeenIsSpelt /\ CountersAreExact
  <1> SUFFICES ASSUME Init PROVE LastWord /\ SeenIsSpelt /\ CountersAreExact
    OBVIOUS
  <1>1. LastWord
    BY DEF Init, LastWord
  <1>2. \A r \in Rows : /\ ledger[r] = NewLedger
                        /\ Attempts(r) = {} /\ Asked(r) = {} /\ Spelt(r) = {}
    BY DEF Init, Attempts, Asked, Spelt
  <1>3. Cardinality({}) = 0
    BY FS_EmptySet
  <1>4. ASSUME NEW r \in Rows
        PROVE  /\ ledger[r].seen = Spelt(r)
               /\ ledger[r].attempts = Cardinality(Attempts(r))
               /\ ledger[r].duplicates = Cardinality(Asked(r)) - Cardinality(Spelt(r))
    BY <1>2, <1>3, NewTyped
  <1> QED
    BY <1>1, <1>4 DEF SeenIsSpelt, CountersAreExact

\* Nor is there anything to audit.
LEMMA RecordsInit == Init => RoutesKnown /\ LedgersAreSane /\ TraceIsOfSteps
  BY SearchAssumption DEF Init, RoutesKnown, InTurn, LedgersAreSane, NewLedger, TraceIsOfSteps

\* The conjunction of the parts is an invariant.
LEMMA Inductive == Spec => []IInv
  <1>1. Init => IInv
    BY StepInit, TraceInit, RecordsInit DEF IInv
  <1>2. IInv /\ [Next]_vars => IInv'
    BY StepInductive, LastWordStep, CountersStep, RoutesStep, LedgersStep, TraceStep DEF IInv
  <1> QED
    BY <1>1, <1>2, PTL DEF Spec

-----------------------------------------------------------------------------
(* The rollout's state has its types: the loop counter stays within the    *)
(* budget, a row is paid 0 or 1, and the ledger keeps its shape however    *)
(* often it is pruned (vanilla_multi_turn_loop, new_search_protocol_state).*)
THEOREM TypeCorrect == Spec => []TypeOK
  <1>1. IInv => TypeOK
    BY DEF IInv, StepInv, TypeOK
  <1> QED
    BY <1>1, Inductive, PTL

(* For any batch, budget and history limit, a row is paid for exactly      *)
(* once, when its own episode ends (SearchEnv.step, rollout_loop).         *)
THEOREM RowsPaidOnce == Spec => []PaidOnce
  <1>1. IInv => PaidOnce
    BY DEF IInv, StepInv
  <1> QED
    BY <1>1, Inductive, PTL

(* For any vocabulary and any history limit, pruning the ledger never      *)
(* changes its counters: attempts are the searches of the trajectory, and  *)
(* duplicates the repeated queries (update_search_protocol_state).         *)
THEOREM LedgerCountsExactly == Spec => []CountersAreExact
  <1>1. IInv => CountersAreExact
    BY DEF IInv
  <1> QED
    BY <1>1, Inductive, PTL

(* For any step budget, the announced slots are the router's, and when the *)
(* rollout stops every row has finished, with an answer as its last word   *)
(* (search_protocol_metadata, plan_search_routes, SearchEnv._is_done).     *)
THEOREM RowsAnswered == Spec => []EveryRowIsAnswered
  <1>1. IInv => SlotsTellTheRoute
    <2> SUFFICES ASSUME IInv, pc = "verify", NEW r \in Rows, Active(r)
                 PROVE  /\ RemainingSlots(shown[r]) > 0 <=> Route("no", step).target = SearchAgent
                        /\ RemainingSlots(shown[r])
                             = Cardinality({s \in step .. MaxSteps : Route("no", s).target = SearchAgent})
      BY DEF SlotsTellTheRoute
    <2>1. step \in 1 .. MaxSteps /\ MaxSteps \in Nat \ {0}
      BY SearchAssumption DEF IInv, StepInv, RouteTypes
    <2>2. shown[r].turns = step - 1
      BY DEF IInv, StepInv, ClocksAgree
    <2>3. RemainingSlots(shown[r]) = MaxSteps - step
      BY <2>1, <2>2 DEF RemainingSlots
    <2>4. ASSUME NEW s \in Int PROVE Route("no", s).target = SearchAgent <=> s < MaxSteps
      BY <2>1 DEF Route, Plan, SearchAgent, AnswerAgent
    <2>5. {s \in step .. MaxSteps : Route("no", s).target = SearchAgent} = step .. (MaxSteps - 1)
      BY <2>1, <2>4
    <2>6. Cardinality(step .. (MaxSteps - 1)) = MaxSteps - step
      BY <2>1, FS_Interval
    <2>7. Route("no", step).target = SearchAgent <=> step < MaxSteps
      BY <2>1, <2>4
    <2>8. RemainingSlots(shown[r]) > 0 <=> Route("no", step).target = SearchAgent
      BY <2>1, <2>3, <2>7
    <2>9. Cardinality({s \in step .. MaxSteps : Route("no", s).target = SearchAgent}) = MaxSteps - step
      BY <2>5, <2>6
    <2> QED
      BY <2>3, <2>8, <2>9
  <1>2. IInv => EveryRowIsAnswered
    BY <1>1 DEF EveryRowIsAnswered, IInv, StepInv, EndsTogether, LastWord
  <1> QED
    BY <1>2, Inductive, PTL

(* For any batch, budget, vocabulary and history limit, the offline audit  *)
(* accepts of a finished rollout's trace all but what it says of the       *)
(* retriever: routes, roles, ledger fields, owners, order, counts and stop *)
(* reasons pass, every search has no status, those without search tags and *)
(* those that end the episode have no observation, and only trajectories   *)
(* without a search pass altogether (audit_search_event_records).          *)
THEOREM TracePassesAudit == Spec => []TraceIsAudited
  <1>1. IInv => StopReasonIsOfTheLastStep
    <2> SUFFICES ASSUME IInv, pc = "done", NEW r \in Rows
                 PROVE  /\ StopReason(r) \in {"forced_answer_submitted", "forced_answer_invalid"}
                             <=> Last(r).plan.forced
                        /\ StopReason(r) \in {"forced_answer_submitted", "answer_submitted"}
                             <=> Last(r).text.closes
                        /\ StopReason(r) \notin {"max_steps_exhausted", "env_done"}
      BY DEF StopReasonIsOfTheLastStep
    <2>1. is_done[r]
      BY DEF IInv, StepInv, EndsTogether
    <2>2. StopReason(r) = IF Last(r).text.closes
                          THEN IF Last(r).plan.forced THEN "forced_answer_submitted" ELSE "answer_submitted"
                          ELSE IF Last(r).plan.forced THEN "forced_answer_invalid" ELSE "answer_invalid"
      BY <2>1, StopReasonFits DEF IInv
    <2> QED
      BY <2>2
  <1>2. IInv => TraceIsAudited
    <2> SUFFICES ASSUME IInv, pc = "done", NEW r \in Rows
                 PROVE  LET errors == Complaints(r) IN
                        /\ errors \subseteq {"tool_status", "tool_query", "observation"}
                        /\ "tool_status" \in errors <=> Attempts(r) # {}
                        /\ "tool_query" \in errors <=>
                             \E i \in Attempts(r) : i = Len(events[r]) \/ i \notin Asked(r)
                        /\ "observation" \in errors <=>
                             \E i \in Attempts(r) : i = Len(events[r]) \/ ~ events[r][i].text.tagged
                        /\ errors = {} <=> Attempts(r) = {}
      BY <1>1 DEF TraceIsAudited
    <2>1. is_done[r]
      BY DEF IInv, StepInv, EndsTogether
    <2> QED
      BY <2>1, RowIsAudited DEF IInv
  <1> QED
    BY <1>2, Inductive, PTL

-----------------------------------------------------------------------------
(* The refinement: the rollout's steps, seen from one row.                 *)
LEMMA ChainInit == ASSUME Init, NEW r \in Rows PROVE Chain(r)!Init
  BY DEF Init, Chain!Init, Chain!BetweenTurns, PhaseOf, InTurn

(* A finished row's episode stutters until the next rollout.               *)
LEMMA FinishedStutters ==
  ASSUME StepInv, NEW r \in Rows, is_done[r], is_done'[r],
         episode_lengths'[r] = episode_lengths[r], episode_rewards'[r] = episode_rewards[r],
         (InTurn => plan[r] = NoPlan /\ text_actions[r] = Blank),
         (InTurn' => plan'[r] = NoPlan /\ text_actions'[r] = Blank)
  PROVE  UNCHANGED Chain(r)!chainVars
  BY NewTyped DEF Chain!chainVars, PhaseOf

(* Whatever the step, a finished row has no plan and no text in it.        *)
LEMMA FinishedIsBlank ==
  ASSUME StepInv, NEW r \in Rows, is_done[r], InTurn
  PROVE  plan[r] = NoPlan /\ text_actions[r] = Blank
  <1>1. plan[r] = NoPlan
    BY DEF StepInv, Routed, Active
  <1>2. plan[r].target # SearchAgent
    BY <1>1, NewTyped DEF SearchAgent, Nobody
  <1> QED
    BY <1>1, <1>2 DEF StepInv, TextsAreOwned, InTurn, Active

\* The Verifier's call is invisible, or the row's own Verifier turn.
LEMMA ChainVerifier ==
  ASSUME StepInv, StepInv', NEW r \in Rows, VerifierCall
  PROVE  [Chain(r)!Next]_(Chain(r)!chainVars)
  <1>1. /\ pc = "verify" /\ pc' = "search" /\ step' = step
        /\ UNCHANGED <<is_done, episode_lengths, episode_rewards>>
        /\ text_actions'[r] = Blank
    BY DEF VerifierCall
  <1>2. ~ InTurn /\ InTurn'
    BY <1>1 DEF InTurn
  <1>3. is_done[r] => plan'[r] = NoPlan
    BY <1>1, <1>2 DEF StepInv, Routed, Active
  <1>4. CASE is_done[r]
    BY <1>1, <1>2, <1>3, <1>4, FinishedStutters
  <1>5. CASE ~ is_done[r]
    <2>1. /\ plan'[r].target \in {SearchAgent, AnswerAgent}
          /\ step = MaxSteps => plan'[r].target # SearchAgent
      BY <1>1, <1>2, <1>5 DEF StepInv, Routed, Active
    <2>2. episode_lengths[r] + 1 = step /\ step \in 1 .. MaxSteps
      BY <1>5 DEF StepInv, ClocksAgree, Active, RouteTypes
    <2>3. Chain(r)!Decide
      BY <1>1, <1>2, <1>5, <2>1, <2>2, NewTyped, SearchAssumption DEF Chain!Decide, PhaseOf
    <2> QED
      BY <2>3 DEF Chain!Next
  <1> QED
    BY <1>4, <1>5

\* An agent's call is the row's own, or leaves it alone.
LEMMA ChainAgent ==
  ASSUME StepInv, StepInv', NEW r \in Rows, SearchCall \/ AnswerCall
  PROVE  [Chain(r)!Next]_(Chain(r)!chainVars)
  <1>1. /\ InTurn /\ InTurn' /\ pc # "verify" /\ pc' # "verify"
        /\ UNCHANGED <<plan, is_done, episode_lengths, episode_rewards>>
        /\ text_actions' \in [Rows -> TextType]
    BY DEF SearchCall, AnswerCall, InTurn, StepInv, RouteTypes
  <1>2. text_actions'[r].closes \in BOOLEAN
    BY <1>1 DEF TextType
  <1>3. CASE is_done[r]
    <2>1. plan[r] = NoPlan /\ text_actions[r] = Blank
      BY <1>1, <1>3, FinishedIsBlank
    <2>2. text_actions'[r] = text_actions[r]
      BY <2>1, CallWrites, NewTyped DEF SearchCall, AnswerCall, StepInv, SearchAgent, AnswerAgent, Nobody
    <2> QED
      BY <1>1, <1>3, <2>1, <2>2, FinishedStutters
  <1>4. CASE ~ is_done[r]
    <2>1. plan[r].target \in {SearchAgent, AnswerAgent}
      BY <1>1, <1>4 DEF StepInv, Routed, Active
    <2>2. \/ text_actions'[r] = text_actions[r]
          \/ text_actions[r] = Blank /\ text_actions'[r].by = plan[r].target
      <3>1. CASE SearchCall
        BY <3>1, CallWrites DEF SearchCall, StepInv, TextsAreOwned
      <3>2. CASE AnswerCall
        BY <3>2, CallWrites DEF AnswerCall, StepInv, TextsAreOwned, SearchAgent, AnswerAgent
      <3> QED
        BY <3>1, <3>2
    <2>3. CASE text_actions'[r] = text_actions[r]
      BY <1>1, <2>3 DEF Chain!chainVars, PhaseOf
    <2>4. CASE text_actions[r] = Blank /\ text_actions'[r].by = plan[r].target
      <3>1. Chain(r)!Act
        BY <1>1, <1>2, <1>4, <2>1, <2>4, NewTyped DEF Chain!Act, PhaseOf, SearchAgent, AnswerAgent, Nobody
      <3> QED
        BY <3>1 DEF Chain!Next
    <2> QED
      BY <2>2, <2>3, <2>4
  <1> QED
    BY <1>3, <1>4

\* The end of a step is the end of the row's own step.
LEMMA ChainEnd ==
  ASSUME StepInv, StepInv', NEW r \in Rows, EndOfStep
  PROVE  [Chain(r)!Next]_(Chain(r)!chainVars)
  <1>1. /\ pc = "env" /\ InTurn /\ ~ InTurn' /\ pc' \in {"verify", "done"}
        /\ episode_lengths'[r] = episode_lengths[r] + (IF Active(r) THEN 1 ELSE 0)
        /\ episode_rewards'[r] = IF Active(r) THEN episode_rewards[r] + result[r].reward ELSE episode_rewards[r]
        /\ episode_lengths[r] \in Nat
    BY DEF EndOfStep, Rewards, InTurn, StepInv, RouteTypes
  <1>2. /\ pc' = "verify" => step < MaxSteps
        /\ pc' = "done" => is_done'[r]
        /\ Active(r) => (is_done'[r] <=> text_actions[r].closes \/ step = MaxSteps)
        /\ step = MaxSteps => is_done'[r]
    BY EndFacts
  <1>3. CASE is_done[r]
    <2>1. is_done'[r]
      BY <1>3 DEF EndOfStep
    <2>2. episode_lengths'[r] = episode_lengths[r] /\ episode_rewards'[r] = episode_rewards[r]
      BY <1>1, <1>3 DEF Active
    <2> QED
      BY <1>1, <1>3, <2>1, <2>2, FinishedIsBlank, FinishedStutters
  <1>4. CASE ~ is_done[r]
    <2>1. /\ text_actions[r].by = plan[r].target
          /\ plan[r].target \in {SearchAgent, AnswerAgent}
      BY <1>1, <1>4 DEF StepInv, TextsAreOwned, Routed, Active
    <2>2. episode_lengths[r] + 1 = step /\ step \in 1 .. MaxSteps
      BY <1>4 DEF StepInv, ClocksAgree, Active, RouteTypes
    <2>3. episode_rewards[r] = 0 /\ episode_rewards'[r] \in {0, 1}
      BY <1>4 DEF StepInv, PaidOnce, RouteTypes
    <2>4. PhaseOf(r) = "acted"
      BY <1>1, <1>4, <2>1 DEF PhaseOf, SearchAgent, AnswerAgent, Nobody
    <2>5. CASE is_done'[r]
      <3>1. Chain(r)!End
        BY <1>1, <1>2, <1>4, <2>2, <2>3, <2>4, <2>5 DEF Chain!End, Chain!BetweenTurns, PhaseOf, Active
      <3> QED
        BY <3>1 DEF Chain!Next
    <2>6. CASE ~ is_done'[r]
      <3>1. pc' = "verify" /\ ~ text_actions[r].closes /\ step < MaxSteps
        BY <1>1, <1>2, <1>4, <2>2, <2>6 DEF Active
      <3>2. episode_rewards'[r] = 0
        BY <2>6 DEF StepInv, PaidOnce
      <3>3. Chain(r)!GoOn
        BY <1>1, <1>4, <2>2, <2>3, <2>4, <2>6, <3>1, <3>2
        DEF Chain!GoOn, Chain!BetweenTurns, PhaseOf, Active
      <3> QED
        BY <3>3 DEF Chain!Next
    <2> QED
      BY <2>5, <2>6
  <1> QED
    BY <1>3, <1>4

\* The next rollout takes every row up again.
LEMMA ChainAgain ==
  ASSUME StepInv, NEW r \in Rows, NextRollout
  PROVE  [Chain(r)!Next]_(Chain(r)!chainVars)
  <1>1. is_done[r] /\ ~ InTurn /\ ~ InTurn' /\ pc' = "verify"
    BY DEF NextRollout, Reset, StepInv, EndsTogether, InTurn
  <1>2. is_done'[r] = FALSE /\ episode_lengths'[r] = 0 /\ episode_rewards'[r] = 0
    BY DEF NextRollout, Reset
  <1>3. Chain(r)!Again
    BY <1>1, <1>2 DEF Chain!Again, PhaseOf
  <1> QED
    BY <1>3 DEF Chain!Next

\* Every step of the rollout maps to a step of the row, or to none.
LEMMA ChainStep ==
  ASSUME StepInv, StepInv', NEW r \in Rows, [Next]_vars
  PROVE  [Chain(r)!Next]_(Chain(r)!chainVars)
  <1>1. CASE UNCHANGED vars
    BY <1>1 DEF vars, Chain!chainVars, PhaseOf, InTurn
  <1>2. ASSUME NEW q \in Rows, EnvThread(q) PROVE UNCHANGED Chain(r)!chainVars
    BY <1>2 DEF EnvThread, Chain!chainVars, PhaseOf, InTurn
  <1> QED
    BY <1>1, <1>2, ChainVerifier, ChainAgent, ChainEnd, ChainAgain DEF Next

(* Seen from any row of any batch, the rollout is that row's own episode:  *)
(* the initial states are its initial states, and every step is one of its *)
(* steps or leaves it alone (update_text_action, the loop's active masks). *)
THEOREM RowsImplementChains == Spec => RowsAreIndependent
  <1>1. Init => \A r \in Rows : Chain(r)!Init
    BY ChainInit
  <1>2. IInv /\ IInv' /\ [Next]_vars
        => [\A r \in Rows : [Chain(r)!Next]_(Chain(r)!chainVars)]_vars
    BY ChainStep DEF IInv
  <1> QED
    BY <1>1, <1>2, Inductive, PTL DEF Spec, RowsAreIndependent

=============================================================================
