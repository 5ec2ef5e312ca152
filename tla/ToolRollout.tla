------------------------------ MODULE ToolRollout ------------------------------
(***************************************************************************)
(* The multi-turn rollout of SGLangRollout: one coroutine per request      *)
(* alternates between the engine and the search tool.  Coroutines share    *)
(* the sampling parameters and the tool's instances; the calls of the tool *)
(* run on a thread pool behind a rate limiter, an actor with one thread to *)
(* acquire and several to release.                                         *)
(*                                                                         *)
(* A text is as long as its tokens; the template's own tokens are left out *)
(* but for the header that opens the assistant's turn.  The limiter's      *)
(* current_count is left out: nothing reads it, and its threads change it  *)
(* without a lock.                                                         *)
(***************************************************************************)
EXTENDS Integers, FiniteSets

CONSTANTS
  Requests,      \* the requests of a batch
  MaxTurns,      \* multi_turn.max_turns
  MaxCalls,      \* bound: tool calls in one answer
  PromptLen,     \* tokens of a prompt
  MaxModelLen,   \* max_model_len
  ResponseLen,   \* response_length
  NumWorkers,    \* threads of the execution pool
  RateLimit,     \* rate_limit of the token bucket
  MaxRetries,    \* MAX_RETRIES of call_search_api
  MaxBatches     \* bound: batches in a run

ASSUME BoundsAssumption ==
  {MaxTurns, MaxCalls, PromptLen, MaxModelLen, ResponseLen, NumWorkers,
   RateLimit, MaxRetries, MaxBatches} \subseteq Nat \ {0}

ASSUME RequestsAssumption == IsFiniteSet(Requests)

VARIABLES
  batch,        \* "idle", "train", "validate", "raised"
  batches,      \* batches so far
  state,        \* per request: where its coroutine is
  turns,        \* per request: current_turns
  len,          \* per request: tokens of input_ids
  finish,       \* per request: finish_reason_type
  temperature,  \* sampling_params: "configured" or "validation"
  saved,        \* per request: old_sampling_params_args of its open block
  instances,    \* requests with an entry in the tool's _instance_dict
  calls,        \* tool calls in flight or returned: per <<request, place>>
  tries,        \* per call: attempts made
  acquiring,    \* the call whose acquire holds the limiter's one thread
  semaphore,    \* tokens in the bucket
  releasing     \* release calls sent and not yet run

requestVars == <<state, turns, len, finish>>
sharedVars  == <<temperature, saved, instances>>
toolVars    == <<calls, tries, acquiring, semaphore, releasing>>
vars == <<batch, batches, requestVars, sharedVars, toolVars>>

Slots == Requests \X (1 .. MaxCalls)
NoCall == <<>>
\* Tokens of the header that opens an assistant's turn.
Header == 1

In(status)   == {c \in Slots : calls[c] = status}
CallsOf(r)   == {c \in Slots : c[1] = r /\ calls[c] # "none"}
InBlock      == {r \in Requests : state[r] = "generating"}
Working      == batch \in {"train", "validate"}
\* Threads of the pool in use; a thread waits for its token.
PoolThreads  == In("waiting") \cup In("running")

-----------------------------------------------------------------------------
Init ==
  /\ batch = "idle" /\ batches = 0
  /\ state = [r \in Requests |-> "completed"]
  /\ turns = [r \in Requests |-> 0]
  /\ len = [r \in Requests |-> PromptLen]
  /\ finish = [r \in Requests |-> "none"]
  /\ temperature = "configured"
  /\ saved = [r \in Requests |-> "configured"]
  /\ instances = {}
  /\ calls = [c \in Slots |-> "none"]
  /\ tries = [c \in Slots |-> 0]
  /\ acquiring = NoCall
  /\ semaphore = RateLimit /\ releasing = 0

\* _req_level_generate_sequences: a coroutine for every request.
StartBatch ==
  /\ batch = "idle" /\ batches < MaxBatches
  /\ batch' \in {"train", "validate"}
  /\ batches' = batches + 1
  /\ state' = [r \in Requests |-> "pending"]
  /\ turns' = [r \in Requests |-> 0]
  /\ len' = [r \in Requests |-> PromptLen]
  /\ finish' = [r \in Requests |-> "none"]
  /\ UNCHANGED <<sharedVars, toolVars>>

\* All coroutines have returned: the rows are sorted and broadcast.
EndBatch ==
  /\ Working
  /\ \A r \in Requests : state[r] = "completed"
  /\ batch' = "idle"
  /\ UNCHANGED <<batches, requestVars, sharedVars, toolVars>>

\* _handle_pending_state: the tool's instance is created.
Create(r) ==
  /\ Working /\ state[r] = "pending"
  /\ instances' = instances \cup {r}
  /\ state' = [state EXCEPT ![r] = "running"]
  /\ UNCHANGED <<batch, batches, turns, len, finish, temperature, saved, toolVars>>

MaxNewTokens(r) ==
  LET room == MaxModelLen - (len[r] + Header) - 1 IN
  IF room < ResponseLen THEN room ELSE ResponseLen

\* _handle_engine_call: the block is entered, and the engine reads the
\* parameters before the coroutine is suspended.  It raises when it is asked
\* for a negative number of tokens.
Ask(r) ==
  /\ Working /\ state[r] = "running" /\ turns[r] < MaxTurns
  /\ IF MaxNewTokens(r) < 0
     THEN batch' = "raised" /\ UNCHANGED <<state, temperature, saved>>
     ELSE /\ saved' = [saved EXCEPT ![r] = temperature]
          /\ temperature' = IF batch = "validate" THEN "validation" ELSE temperature
          /\ state' = [state EXCEPT ![r] = "generating"]
          /\ UNCHANGED batch
  /\ UNCHANGED <<batches, turns, len, finish, instances, toolVars>>

\* Mutant: the last turn ends as the engine ended it.
AfterTurnsAsIs(r, reason) == reason

\* What finish_reason_type is when the loop is left after max_turns.
AfterTurns(r, reason) == IF turns[r] + 1 >= MaxTurns THEN "stop" ELSE reason

\* The engine's answer of n tokens: the block is left, which restores what it
\* had saved, and the answer is parsed.
Answered(r, n, reason, next) ==
  /\ Working /\ state[r] = "generating"
  /\ temperature' = IF batch = "validate" THEN saved[r] ELSE temperature
  /\ saved' = [saved EXCEPT ![r] = "configured"]
  /\ turns' = [turns EXCEPT ![r] = @ + 1]
  /\ len' = [len EXCEPT ![r] = @ + Header + n]
  /\ finish' = [finish EXCEPT ![r] = AfterTurns(r, reason)]
  /\ state' = [state EXCEPT ![r] = next]
  /\ UNCHANGED <<batch, batches, instances, toolVars>>

AnswerTooLong(r) ==
  Answered(r, MaxNewTokens(r), "length", "closing")

\* No tool call, or none that parses.
AnswerPlain(r) ==
  \E n \in 1 .. MaxNewTokens(r) : Answered(r, n, "stop", "closing")

\* The tool calls of a last turn are not executed.
AnswerWithCalls(r) ==
  \E n \in 1 .. MaxNewTokens(r) :
    Answered(r, n, "tool_calls", IF turns[r] + 1 < MaxTurns THEN "tool_calling" ELSE "closing")

\* asyncio.gather over the parsed calls: each is submitted to the pool, but
\* for the ones without a list of queries, which are answered at once.
Submit(r) ==
  /\ Working /\ state[r] = "tool_calling"
  /\ \E k \in 1 .. MaxCalls : \E searches \in SUBSET (1 .. k) :
       calls' = [c \in Slots |-> IF c[1] # r \/ c[2] > k THEN calls[c]
                                ELSE IF c[2] \in searches THEN "queued" ELSE "returned"]
  /\ state' = [state EXCEPT ![r] = "gathering"]
  /\ UNCHANGED <<batch, batches, turns, len, finish, sharedVars, tries, acquiring,
                 semaphore, releasing>>

\* Mutant: the coroutine goes on with the first result.
GatheredFirst(r) == \E c \in CallsOf(r) : calls[c] = "returned"

Gathered(r) == \A c \in CallsOf(r) : calls[c] = "returned"

\* The responses, in call order, until one of them fills the window.  (A
\* response is bounded by ResponseLen tokens, too.)
Resume(r) ==
  /\ Working /\ state[r] = "gathering" /\ Gathered(r)
  /\ \E n \in Cardinality(CallsOf(r)) .. ResponseLen * Cardinality(CallsOf(r)) :
       /\ len' = [len EXCEPT ![r] = @ + n]
       /\ IF len[r] + n >= MaxModelLen
          THEN /\ finish' = [finish EXCEPT ![r] = "stop"]
               /\ state' = [state EXCEPT ![r] = "closing"]
          ELSE /\ UNCHANGED finish
               /\ state' = [state EXCEPT ![r] = "running"]
  /\ calls' = [c \in Slots |-> IF c[1] = r /\ calls[c] = "returned" THEN "none" ELSE calls[c]]
  /\ UNCHANGED <<batch, batches, turns, sharedVars, tries, acquiring,
                 semaphore, releasing>>

\* calc_reward, release and finalize, which truncates to the window.
Close(r) ==
  /\ Working /\ state[r] = "closing"
  /\ instances' = instances \ {r}
  /\ state' = [state EXCEPT ![r] = "completed"]
  /\ len' = [len EXCEPT ![r] = IF @ > MaxModelLen THEN MaxModelLen ELSE @]
  /\ batch' = IF finish[r] \in {"stop", "length"} THEN batch ELSE "raised"
  /\ UNCHANGED <<batches, turns, finish, temperature, saved, toolVars>>

-----------------------------------------------------------------------------
\* The pool gives the call a thread, which asks for a token.
TakeThread(c) ==
  /\ calls[c] = "queued" /\ Cardinality(PoolThreads) < NumWorkers
  /\ calls' = [calls EXCEPT ![c] = "waiting"]
  /\ UNCHANGED <<batch, batches, requestVars, sharedVars, tries, acquiring,
                 semaphore, releasing>>

\* TokenBucketWorker.acquire begins on the one thread of its group,
AcquireBegins(c) ==
  /\ calls[c] = "waiting" /\ acquiring = NoCall
  /\ acquiring' = c
  /\ UNCHANGED <<batch, batches, requestVars, sharedVars, calls, tries,
                 semaphore, releasing>>

\* and holds it until a token is there.
AcquireEnds ==
  /\ acquiring # NoCall /\ semaphore > 0
  /\ semaphore' = semaphore - 1
  /\ calls' = [calls EXCEPT ![acquiring] = "running"]
  /\ acquiring' = NoCall
  /\ UNCHANGED <<batch, batches, requestVars, sharedVars, tries, releasing>>

\* call_search_api: a server or connection error is tried again.
Retry(c) ==
  /\ calls[c] = "running" /\ tries[c] < MaxRetries - 1
  /\ tries' = [tries EXCEPT ![c] = @ + 1]
  /\ UNCHANGED <<batch, batches, requestVars, sharedVars, calls, acquiring,
                 semaphore, releasing>>

\* Mutant: a function that raises does not give its token back.
LeaveLeaking(c, raises) ==
  /\ calls[c] = "running"
  /\ calls' = [calls EXCEPT ![c] = "returned"]
  /\ tries' = [tries EXCEPT ![c] = 0]
  /\ releasing' = IF raises THEN releasing ELSE releasing + 1
  /\ UNCHANGED <<batch, batches, requestVars, sharedVars, acquiring,
                 semaphore>>

\* The function returns or raises; either way the ExitStack sends a release
\* without waiting for it, and the tool answers with a text.
Leave(c, raises) ==
  /\ calls[c] = "running"
  /\ calls' = [calls EXCEPT ![c] = "returned"]
  /\ tries' = [tries EXCEPT ![c] = 0]
  /\ releasing' = releasing + 1
  /\ UNCHANGED <<batch, batches, requestVars, sharedVars, acquiring,
                 semaphore>>

\* Mutant: releases run on the thread of the acquires.
ThreadForReleaseShared == acquiring = NoCall

\* Releases have threads of their own (concurrency group "release").
ThreadForRelease == TRUE

Release ==
  /\ releasing > 0 /\ ThreadForRelease
  /\ semaphore' = semaphore + 1
  /\ releasing' = releasing - 1
  /\ UNCHANGED <<batch, batches, requestVars, sharedVars, calls, tries, acquiring>>

Work ==
  \/ EndBatch \/ AcquireEnds \/ Release
  \/ \E r \in Requests :
       \/ Create(r) \/ Ask(r)
       \/ AnswerTooLong(r) \/ AnswerPlain(r) \/ AnswerWithCalls(r)
       \/ Submit(r) \/ Resume(r) \/ Close(r)
  \/ \E c \in Slots :
       \/ TakeThread(c) \/ AcquireBegins(c) \/ Retry(c)
       \/ \E raises \in BOOLEAN : Leave(c, raises)

Next == StartBatch \/ Work

Spec == Init /\ [][Next]_vars /\ WF_vars(Work)

-----------------------------------------------------------------------------
(* No request reaches finalize, which raises on it, in the middle of a     *)
(* tool call: whether the turns, the window or the answer end it, its      *)
(* finish reason is a final one.                                           *)
NoneEndsInAToolCall ==
  \A r \in Requests :
    state[r] \in {"closing", "completed"} => finish[r] # "tool_calls"

(* The tool's instance of a request exists for as long as a call of the    *)
(* request may write to it, and no longer than the request.                *)
InstancesOutliveCalls ==
  /\ \A c \in Slots : calls[c] # "none" => c[1] \in instances
  /\ \A r \in Requests : state[r] \in {"pending", "completed"} => r \notin instances

(* Never more searches at a time than the rate limit allows; and once the  *)
(* pool is idle every token is back in the bucket, whatever the searches   *)
(* raised.                                                                 *)
TokensComeBack ==
  /\ Cardinality(In("running")) <= RateLimit
  /\ PoolThreads = {} /\ releasing = 0 => semaphore = RateLimit

(* A batch comes to its end: coroutines that wait for the pool, the pool   *)
(* for tokens and tokens for releases never wait for each other.           *)
EveryBatchEnds == Working ~> ~ Working

(* Outside every block the parameters are the configured ones.             *)
SamplingRestored == InBlock = {} => temperature = "configured"

=============================================================================
