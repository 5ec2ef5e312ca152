-------------------------- MODULE ToolRolloutProofs --------------------------
(***************************************************************************)
(* Proofs about ToolRollout for every finite batch and every value of its  *)
(* limits.                                                                 *)
(***************************************************************************)
EXTENDS ToolRollout, FiniteSetTheorems, TLAPS

RequestStates == {"pending", "running", "generating", "tool_calling",
                  "gathering", "closing", "completed"}
CallStates == {"none", "queued", "waiting", "running", "returned"}

TypeOK ==
  /\ state \in [Requests -> RequestStates]
  /\ turns \in [Requests -> Nat]
  /\ finish \in [Requests -> {"none", "length", "stop", "tool_calls"}]
  /\ instances \subseteq Requests
  /\ calls \in [Slots -> CallStates]
  /\ acquiring \in Slots \cup {NoCall}
  /\ semaphore \in Nat /\ releasing \in Nat

-----------------------------------------------------------------------------
(* The inductive invariant.  A request has calls only while its coroutine  *)
(* gathers their results, and an instance from the first step of its       *)
(* coroutine to the last; and the tokens are in the bucket, with a running *)
(* search or on their way back.                                            *)
CallsAreGathered == \A c \in Slots : calls[c] # "none" => state[c[1]] = "gathering"

InstanceWhileActive ==
  \A r \in Requests : r \in instances <=> state[r] \notin {"pending", "completed"}

BatchIsWhole == batch = "idle" => \A r \in Requests : state[r] = "completed"

AcquirerWaits == acquiring # NoCall => calls[acquiring] = "waiting"

Tokens == Cardinality(In("running")) + (semaphore + releasing) = RateLimit

ToolInv == TypeOK /\ CallsAreGathered /\ InstanceWhileActive
           /\ BatchIsWhole /\ AcquirerWaits

IInv == ToolInv /\ NoneEndsInAToolCall /\ Tokens

-----------------------------------------------------------------------------
LEMMA InFinite ==
  ASSUME NEW s PROVE IsFiniteSet(In(s)) /\ Cardinality(In(s)) \in Nat
  <1>1. IsFiniteSet(1 .. MaxCalls)
    BY FS_Interval, BoundsAssumption
  <1>2. IsFiniteSet(Slots)
    BY <1>1, RequestsAssumption, FS_Product DEF Slots
  <1>3. In(s) \in SUBSET Slots
    BY DEF In
  <1> QED
    BY <1>2, <1>3, FS_Subset, FS_CardinalityType

LEMMA ToolInit == Init => ToolInv
  BY BoundsAssumption DEF Init, ToolInv, TypeOK, CallsAreGathered,
     InstanceWhileActive, BatchIsWhole, AcquirerWaits, Working, RequestStates,
     CallStates, NoCall, Slots

LEMMA ToolStep == ToolInv /\ [Next]_vars => ToolInv'
  <1> SUFFICES ASSUME ToolInv, [Next]_vars PROVE ToolInv'
    OBVIOUS
  <1> USE DEF ToolInv, TypeOK, CallsAreGathered, InstanceWhileActive, BatchIsWhole,
          AcquirerWaits, Working, RequestStates, CallStates, Slots,
          sharedVars, toolVars, requestVars
  <1>1. CASE StartBatch
    BY <1>1 DEF StartBatch
  <1>2. CASE EndBatch
    BY <1>2 DEF EndBatch
  <1>3. CASE AcquireEnds
    BY <1>3 DEF AcquireEnds
  <1>4. CASE Release
    BY <1>4 DEF Release
  <1>5. ASSUME NEW r \in Requests, Create(r) PROVE ToolInv'
    BY <1>5 DEF Create
  <1>6. ASSUME NEW r \in Requests, Ask(r) PROVE ToolInv'
    BY <1>6 DEF Ask
  <1>7. ASSUME NEW r \in Requests, NEW n, NEW reason \in {"length", "stop", "tool_calls"},
               NEW next \in {"closing", "tool_calling"}, Answered(r, n, reason, next)
        PROVE  ToolInv'
    BY <1>7 DEF Answered, AfterTurns
  <1>8. ASSUME NEW r \in Requests, Submit(r) PROVE ToolInv'
    BY <1>8 DEF Submit
  <1>9. ASSUME NEW r \in Requests, Resume(r) PROVE ToolInv'
    <2>1. \A c \in Slots : c[1] = r /\ calls[c] # "none" => calls[c] = "returned"
      BY <1>9 DEF Resume, Gathered, CallsOf
    <2> QED
      BY <1>9, <2>1 DEF Resume
  <1>10. ASSUME NEW r \in Requests, Close(r) PROVE ToolInv'
    BY <1>10 DEF Close
  <1>11. ASSUME NEW c \in Slots, TakeThread(c) PROVE ToolInv'
    BY <1>11 DEF TakeThread
  <1>12. ASSUME NEW c \in Slots, AcquireBegins(c) PROVE ToolInv'
    BY <1>12 DEF AcquireBegins
  <1>13. ASSUME NEW c \in Slots, Retry(c) PROVE ToolInv'
    BY <1>13 DEF Retry
  <1>14. ASSUME NEW c \in Slots, NEW raises \in BOOLEAN, Leave(c, raises) PROVE ToolInv'
    BY <1>14 DEF Leave
  <1>15. CASE UNCHANGED vars
    BY <1>15 DEF vars
  <1>16. ASSUME NEW r \in Requests, AnswerTooLong(r) \/ AnswerPlain(r) \/ AnswerWithCalls(r)
         PROVE  ToolInv'
    BY <1>7, <1>16 DEF AnswerTooLong, AnswerPlain, AnswerWithCalls
  <1> QED
    BY <1>1, <1>2, <1>3, <1>4, <1>5, <1>6, <1>8, <1>9, <1>10, <1>11, <1>12, <1>13,
       <1>14, <1>15, <1>16 DEF Next, Work

(* Which request finishes how: its turns, its window and its answer.       *)
LEMMA FinishStep == TypeOK /\ NoneEndsInAToolCall /\ [Next]_vars => NoneEndsInAToolCall'
  <1> SUFFICES ASSUME TypeOK, NoneEndsInAToolCall, [Next]_vars PROVE NoneEndsInAToolCall'
    OBVIOUS
  <1> USE DEF TypeOK, NoneEndsInAToolCall, sharedVars, toolVars, requestVars
  <1>1. CASE StartBatch
    BY <1>1 DEF StartBatch
  <1>2. CASE EndBatch \/ AcquireEnds \/ Release
    BY <1>2 DEF EndBatch, AcquireEnds, Release
  <1>3. ASSUME NEW r \in Requests, Create(r) \/ Ask(r) \/ Submit(r)
        PROVE  NoneEndsInAToolCall'
    BY <1>3 DEF Create, Ask, Submit
  <1>4. ASSUME NEW r \in Requests,
               AnswerTooLong(r) \/ AnswerPlain(r) \/ AnswerWithCalls(r)
        PROVE  NoneEndsInAToolCall'
    <2>1. turns[r] \in Nat /\ MaxTurns \in Nat
      BY BoundsAssumption
    <2> QED
      BY <1>4, <2>1 DEF AnswerTooLong, AnswerPlain, AnswerWithCalls, Answered, AfterTurns
  <1>5. ASSUME NEW r \in Requests, Resume(r) PROVE NoneEndsInAToolCall'
    BY <1>5 DEF Resume
  <1>6. ASSUME NEW r \in Requests, Close(r) PROVE NoneEndsInAToolCall'
    BY <1>6 DEF Close
  <1>7. ASSUME NEW c \in Slots,
               \/ TakeThread(c) \/ AcquireBegins(c) \/ Retry(c)
               \/ \E raises \in BOOLEAN : Leave(c, raises)
        PROVE  NoneEndsInAToolCall'
    BY <1>7 DEF TakeThread, AcquireBegins, Retry, Leave
  <1>8. CASE UNCHANGED vars
    BY <1>8 DEF vars
  <1> QED
    BY <1>1, <1>2, <1>3, <1>4, <1>5, <1>6, <1>7, <1>8 DEF Next, Work

(* A step that neither begins nor ends a search keeps the sum of tokens.   *)
LEMMA TokensKept ==
  ASSUME ToolInv, ToolInv', Tokens, In("running")' = In("running"),
         semaphore' + releasing' = semaphore + releasing
  PROVE  Tokens'
  <1>1. Cardinality(In("running")) \in Nat
    BY InFinite
  <1>2. Cardinality(In("running"))' = Cardinality(In("running"))
    OBVIOUS
  <1>3. semaphore \in Nat /\ releasing \in Nat /\ semaphore' \in Nat /\ releasing' \in Nat
    BY DEF ToolInv, TypeOK
  <1> QED
    BY <1>1, <1>2, <1>3 DEF Tokens

(* Tokens change hands only where a search begins, where it ends and where *)
(* a release runs.                                                         *)
LEMMA TokensStep == ToolInv /\ Tokens /\ [Next]_vars => Tokens'
  <1> SUFFICES ASSUME ToolInv, Tokens, [Next]_vars PROVE Tokens'
    OBVIOUS
  <1>0. ToolInv'
    BY ToolStep
  <1> USE DEF ToolInv, TypeOK, sharedVars, toolVars, requestVars
  <1>1. CASE UNCHANGED <<calls, semaphore, releasing>>
    <2>1. In("running")' = In("running")
      BY <1>1 DEF In
    <2> QED
      BY TokensKept, <1>0, <1>1, <2>1
  <1>2. CASE AcquireEnds
    <2>1. acquiring \in Slots /\ calls[acquiring] # "running"
      BY <1>2 DEF AcquireEnds, AcquirerWaits
    <2>2. In("running")' = In("running") \cup {acquiring}
      BY <1>2, <2>1 DEF AcquireEnds, In
    <2>3. acquiring \notin In("running")
      BY <2>1 DEF In
    <2>4. IsFiniteSet(In("running")) /\ Cardinality(In("running")) \in Nat
      BY InFinite
    <2>5. Cardinality(In("running"))' = Cardinality(In("running")) + 1
      BY <2>2, <2>3, <2>4, FS_AddElement
    <2> QED
      BY <1>2, <2>4, <2>5 DEF AcquireEnds, Tokens
  <1>3. CASE Release
    BY TokensKept, <1>0, <1>3 DEF Release, In
  <1>4. ASSUME NEW r \in Requests, Submit(r) PROVE Tokens'
    <2>1. \A c \in Slots : c[1] = r => calls[c] = "none"
      BY <1>4 DEF Submit, CallsAreGathered
    <2>2. In("running")' = In("running")
      BY <1>4, <2>1 DEF Submit, In
    <2> QED
      BY TokensKept, <1>0, <1>4, <2>2 DEF Submit
  <1>5. ASSUME NEW r \in Requests, Resume(r) PROVE Tokens'
    <2>1. In("running")' = In("running")
      BY <1>5 DEF Resume, In
    <2> QED
      BY TokensKept, <1>0, <1>5, <2>1 DEF Resume
  <1>6. ASSUME NEW c \in Slots, TakeThread(c) PROVE Tokens'
    <2>1. In("running")' = In("running")
      BY <1>6 DEF TakeThread, In
    <2> QED
      BY TokensKept, <1>0, <1>6, <2>1 DEF TakeThread
  <1>7. ASSUME NEW c \in Slots, NEW raises \in BOOLEAN, Leave(c, raises) PROVE Tokens'
    <2>1. In("running")' = In("running") \ {c} /\ c \in In("running")
      BY <1>7 DEF Leave, In
    <2>2. IsFiniteSet(In("running")) /\ Cardinality(In("running")) \in Nat
      BY InFinite
    <2>3. Cardinality(In("running"))' = Cardinality(In("running")) - 1
      BY <2>1, <2>2, FS_RemoveElement
    <2> QED
      BY <1>7, <2>2, <2>3, BoundsAssumption DEF Leave, Tokens
  <1>8. ASSUME NEW c \in Slots, AcquireBegins(c) \/ Retry(c) PROVE Tokens'
    BY <1>1, <1>8 DEF AcquireBegins, Retry
  <1>9. ASSUME NEW r \in Requests,
               \/ Create(r) \/ Ask(r) \/ Close(r)
               \/ AnswerTooLong(r) \/ AnswerPlain(r) \/ AnswerWithCalls(r)
        PROVE  Tokens'
    BY <1>1, <1>9 DEF Create, Ask, Close, AnswerTooLong, AnswerPlain, AnswerWithCalls, Answered
  <1>10. CASE StartBatch \/ EndBatch \/ UNCHANGED vars
    BY <1>1, <1>10 DEF StartBatch, EndBatch, vars
  <1> QED
    BY <1>2, <1>3, <1>4, <1>5, <1>6, <1>7, <1>8, <1>9, <1>10 DEF Next, Work

LEMMA Inductive == Spec => []IInv
  <1>1. Init => IInv
    <2>1. Init => NoneEndsInAToolCall
      BY DEF Init, NoneEndsInAToolCall
    <2>2. Init => Tokens
      <3>1. Init => In("running") = {}
        BY DEF Init, In
      <3> QED
        BY <3>1, FS_EmptySet, BoundsAssumption DEF Init, Tokens
    <2> QED
      BY <2>1, <2>2, ToolInit DEF IInv
  <1>2. IInv /\ [Next]_vars => IInv'
    BY ToolStep, FinishStep, TokensStep DEF IInv, ToolInv
  <1> QED
    BY <1>1, <1>2, PTL DEF Spec

(* Every state of a reachable coroutine, call and limiter has its type:    *)
(* in particular the bucket and the releases under way never go below      *)
(* zero.                                                                   *)
THEOREM TypeCorrect == Spec => []TypeOK
  <1>1. IInv => TypeOK
    BY DEF IInv, ToolInv
  <1> QED
    BY <1>1, Inductive, PTL

(* No request reaches finalize with a tool call as its finish reason, so   *)
(* that finalize never raises.                                             *)
THEOREM FinalizeNeverRaises == Spec => []NoneEndsInAToolCall
  <1>1. IInv => NoneEndsInAToolCall
    BY DEF IInv
  <1> QED
    BY <1>1, Inductive, PTL

(* The tool's instance of a request is there for every call that may write *)
(* to it, and gone when the request is.                                    *)
THEOREM InstancesAreKept == Spec => []InstancesOutliveCalls
  <1>1. IInv => InstancesOutliveCalls
    BY DEF IInv, ToolInv, TypeOK, CallsAreGathered, InstanceWhileActive,
       InstancesOutliveCalls, Slots
  <1> QED
    BY <1>1, Inductive, PTL

(* The rate limit is kept, and whatever the searches raise, an idle pool   *)
(* finds every token back in the bucket.                                   *)
THEOREM TokensAreConserved == Spec => []TokensComeBack
  <1>1. IInv => TokensComeBack
    <2> SUFFICES ASSUME IInv PROVE TokensComeBack
      OBVIOUS
    <2>1. Cardinality(In("running")) \in Nat /\ semaphore \in Nat /\ releasing \in Nat
      BY InFinite DEF IInv, ToolInv, TypeOK
    <2>2. Cardinality(In("running")) + (semaphore + releasing) = RateLimit
      BY DEF IInv, Tokens
    <2>3. PoolThreads = {} => Cardinality(In("running")) = 0
      BY FS_EmptySet DEF PoolThreads
    <2> QED
      BY <2>1, <2>2, <2>3, BoundsAssumption DEF TokensComeBack
  <1> QED
    BY <1>1, Inductive, PTL

=============================================================================
