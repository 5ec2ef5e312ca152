# TLA+ models of the hybrid multi-agent credit trainer

This directory holds TLA+ specifications of the program in `src/`: a
reinforcement-learning trainer for teams of language-model agents (Dr. MAS on
top of verl), with a *hybrid* credit path that scores the prefixes of every
trajectory with a semantic value head and controls the entropy bonus with it.
The modules are translated from the Python code; every definition that stands
for code is listed with its lines in `PROJECT.json` under `map`.

    tlc -workers 2 -config MCMath.cfg MCMath     # a model check
    tlapm MathRolloutProofs.tla                  # the proofs

## 1. The system

A driver process (`RayPPOTrainer.fit`) owns the training loop.  In each step it

1. draws a batch of questions and lets the *rollout loop* run every row through
   an *orchestra* (a fixed protocol between agents) and an *environment*;
2. turns the recorded calls into training events, asks the *semantic scorer*
   and the *entropy controller* for their metadata, and computes advantages;
3. splits the rows by worker group (one per independently trained model), pads,
   balances and schedules them, and sends them to the group's data-parallel
   ranks, which gather weights, sync them into the rollout engines and run their
   optimizer steps in lock-step;
4. feeds the labels to the scorer's candidate head, and every `save_freq` steps
   writes a checkpoint, file by file.

### Components

| component (source) | state | operations | interaction | hard behaviour | what makes it correct | module |
|---|---|---|---|---|---|---|
| Math orchestra (`agent/orchestra/math`, `agent/agents/math`) | round, approved rows, current answers, call buffer | `run`: Solver turn, Verifier turn, next round, stop labels | called by the rollout loop once per environment step; calls worker groups | rows leave a batch at different rounds; masks | chains are legal, answers were judged, approval is final | `MathOrchestra`, `MathChain` |
| Math rollout and event trace (`rollout_loop.py`, `math_event_trace.py`, `event_trace.py`, `semantic_credit.py`) | done rows, rewards, events per row | environment step, annotate, finalize, gather | binds the environment's grade to the calls; three readers check the chain again | one rule written three times | no reader ever raises, the replay agrees, the reward is on the graded answer | `MathRollout` |
| Search orchestra and ledger (`agent/orchestra/search`, `search_protocol.py`, `env_manager.py`, `SearchEnv`) | route plan, texts, environments, protocol ledger, events | Verifier, Search, Answer calls, environment threads, ledger update | the ledger is the only memory the agents share between steps | rows finish at different steps; three clocks; pruning | one owner per action, exact counters, true budget, paid once | `SearchRollout` |
| Optimizer schedule (`multi_turn_rollout/utils.py`, `dp_actor.py`, `seqlen_balancing.py`) | rows with multiplicities and weights, layout, one loop per rank | pad, group, repack, slice, collectives | driver lays out, ranks cut their chunks on their own | ranks out of step hang; copies change the loss | every event once with weight one; lock-step; the update ends | `OptimizerSchedule` |
| Semantic value scorer (`workers/semantic_value.py`, `hybrid_training.py`) | deployed and candidate head, replay, pending labels, permissions, strikes | prepare, update, pretrain, save, load | scored before the actors' update, trained after it | leakage of labels; hold-out; restart | served before learnt, deployed head is held out, resume is exact | `SemanticValue` |
| Entropy controller (`utils/semantic_entropy_control.py`) | caps, averages, ramps per group and role | prepare, state_dict, load_state_dict | reads the scorer's permissions, weights the entropy loss | copies, late calibration, lost qualification | caps from the initial policy only, ramps earned, weights gated | `EntropyControl` |
| Training loop and checkpoints (`ray_trainer.py`, `checkpoint_manager.py`, `fsdp_checkpoint_manager.py`) | step, epoch iterator, folders, tracker, rotation lists | train, save, rotate, load | writes the state of every other part | crash between or inside writes; older folders | all parts resume at one step of one run; bounded loss | `TrainCheckpoint` |
| Dynamic sampling (`rollout_loop.py`, `filter_group_data`) | trajectories kept, tries | roll out again, filter, return | around the math rollout | last try, overshoot, groups torn apart | a returned batch is full, of whole groups, with contrast unless it is the last try | `DynamicSampling` |
| Team event credit (`core_algos.py`, `team_event_math_value.py`, `team_event_boundary_value.py`) | event tables of one batch | leave-one-trajectory-out values of three engines, GAE over the team's and over each agent's events, centring | called by the driver on all worker groups' rows together | baselines from several peer pools; skipped events; uneven cohorts | baselines do not see their own outcome; recursions agree; no agent is pushed as a whole | `TeamEventCredit` |
| Actor, engines, `DataProto` (`fsdp_workers.py`, `fsdp_sglang.py`, `sglang_rollout.py`, `protocol.py`, `single_controller`) | one process per rank: its shard, what is on its device, its rows; one engine per tensor-parallel group | generate, log-probabilities, update, load; padding, dispatch, collect | driver calls a method on all ranks; ranks meet in collectives; the first rank of a group drives its engine | an engine operation fails on one rank; stale weights or caches; offloading | newest weights served, rows come back in place, nobody is left in a collective, memory handed over | `HybridEngine` |
| Multi-turn rollout with tools (`sglang_rollout.py`, `verl/tools/search_tool.py`) | per request: turns, tokens, finish reason; tool instances, thread pool, token bucket; shared sampling parameters | ask the engine, call tools, resume, finalize; acquire, search, retry, release | coroutines share parameters and instances, calls run on a pool behind a Ray actor | interleaved coroutines, calls that raise, releases nobody waits for | no request is finalized in a tool call, instances outlive calls, tokens come back, a batch ends | `ToolRollout` |
| Event dumps and audit (`event_trace.py`, `event_trace_audit.py`) | part files | dump, recount, audit | after a step; the audit is run offline | reruns, crashes, counters of two clocks | each step's events are on disk, the audit accepts what the rollout recorded | `SearchAudit`, `TrainCheckpoint` |
| Other credit estimators (`hybrid_credit.py`, `sparse_entropy_credit.py`, `entropy_credit.py`, `hindsight.py`), reward managers, datasets, tracking, critic, Megatron, vLLM | none, or external | pure functions, input and output | - | - | - | not modelled (section 6) |

## 2. Modules

* `MathChain` - the abstract specification: the Solver/Verifier dialogue of one
  row, alone.
* `MathOrchestra` - the batch run, action by action: `Run`, `SolverTurn`,
  `VerifierTurn` (with `NextRound`), `Label`.
* `MathRollout` EXTENDS `MathOrchestra` - the loop around it, the annotation of
  the calls with the environment's verdict and the three readers.
* `DynamicSampling` EXTENDS `MathRollout` - whole rollouts tried again until
  enough of their groups have contrast.
* `MCMath` - the instance for TLC of the three modules above, and the
  refinement mapping (the row's phase, its number of calls, its answer) under
  which the batch run implements `MathChain`.
* `MathRolloutProofs` - the theorems about the math task and dynamic sampling.
* `SearchChain` - the abstract specification: the episode of one row of the
  search task, alone.
* `SearchRollout` - the search task: routing, agents, environment threads,
  ledger and the events recorded of a step.  A text is its author, its query,
  whether it holds search tags (with nothing between them there is no query, but
  the retriever is asked) and whether it holds answer tags.  `Chain(r)` is the refinement mapping of row
  `r` into `SearchChain`.
* `SearchAudit` EXTENDS `SearchRollout` - the dump's recount of tool calls and
  the audit's verdict on the recorded events.
* `OptimizerSchedule` - from a worker group's rows to its ranks' optimizer
  steps.  Rows are multisets of events; a rank is a position in its loop.
* `SemanticValue` - scorer and the driver's calls on it; a head is the set of
  questions and the newest batch it was trained on, its quality is open.
* `EntropyControl` - the controller's single `prepare` per step, split by what
  each gate reads; risk may come out either way.
* `TrainCheckpoint` - the training loop, every file of a save, rotation,
  crashes and restarts; what a part has learnt is the list of the runs in which
  it took its steps.  `Draw` also dumps the step's event trace into part files
  of the run.
* `TeamEventCredit` - from a question's group of rollouts to the credit of its
  events: `FinishTrajectory`, `Estimate` (answer matching for math; exact states, or the
  boundary values of what was retrieved, for search), `Advantage` (team GAE, agent-local GAE, blending, centring).  Numbers
  are integers in units of `1 / Scale`; a division that is not exact stops TLC.
* `HybridEngine` - one FSDP worker group with SGLang engines.  `pc` is a rank's
  next step in the method that was called, `After` says what follows it (for a
  rollout after `AfterWeights`, which is `iter_weight_buckets`), `GroupSize` how
  many ranks take it together: loads, offloads, engine operations, collectives.
  `Call...`, `Collect` and `Fail` are the driver's.
* `ToolRollout` - the coroutines of the multi-turn rollout, the search tool's
  pool and its rate limiter.
* `MC*` - instances: symmetry sets, bounded inputs and the refinement.
* `TeamEventProofs` - the theorems about `OptimizerSchedule` and
  `TeamEventCredit`.
* `SearchRolloutProofs`, `SemanticValueProofs`, `EntropyControlProofs`,
  `TrainCheckpointProofs`, `ToolRolloutProofs`, `HybridEngineProofs` - the theorems
  about the modules of these names (section 4).

Strings of a prompt or an answer, token lengths, losses and metrics are data no
modelled decision looks into; they appear as the tags, queries, multiplicities
and permissions that the code does branch on.

## 3. Runs

| run | question it answers |
|---|---|
| `math` | four rows of two questions, three rounds.  The orchestra with every set of active rows and tags: `LegalChain`, `AnswerIsJudged`, `ApprovedRowsAreFinal`; it refines the dialogue of each row (`RowsAreIndependent`) and returns (`RunReturns`).  Whole rollouts of two environment steps: `ReadersAgree`, `CreditFollowsGrade`.  Dynamic sampling of up to three tries: `SampledBatchIsUsable` |
| `schedule` | up to five events on two ranks, in two mini-batches or in a single one over two epochs, which takes another way through the code: `EveryEventOnce`, `RaisesOnlyWhenTooFew`; no rank waits in a collective for ever (`UpdateEnds`) |
| `credit` | every group of three trajectories of up to three rounds or steps under each of the three baseline engines, every discount and trace the bound allows: `BaselineSeesNoOutcome`, `BaselineWithinPeers`, `FullTraceIsReturnLessBaseline`, `CohortsAreCentred` |
| `semantic` | four batches of every composition, the first before the warm-up ends, a crash at any point: `ServedBeforeLearnt`, `DeployedIsHeldOut`, `StrikesAreEvidence`, `DeployKeepsQualified`, `ResumeIsExact` |
| `entropy` | two roles, two turns, three steps, copies, permissions that come and go, restarts: `CapsFromInitialPolicy`, `RampIsEarned`, `WeightIsGated` |
| `ckpt` | automatic resume with two kept directories or all, with actor warm-up, or from a folder the operator names; crashes between and inside writes: parts resume at one saved state and the event traces behind it are on disk (`LineageAgrees`), `TrackedIsReadable`, at most one save interval is lost (`BoundedLoss`), the epochs suffice (`EndsAtLastStep`) |
| `search` | two rows, three steps, three query texts of which two spell one query: `CountersAreExact`, `EveryRowIsAnswered`, `PaidOnce`; the rollout refines the episode of each row (`RowsAreIndependent`); the audit accepts all of the recorded trace but what it asks of the retriever, and its complaints about a query or an observation are those of the texts that cause them (`TraceIsAudited`) |
| `hybrid_engine` | any three calls on four ranks, two to an engine and two to a sequence, any engine operation failing: `ServesNewestWeights`, `RowsComeBack`, `MemoryIsExclusive`, `EveryRankReturns` |
| `tool_rollout` | two batches of two requests, two turns of up to two searches: `NoneEndsInAToolCall`, `InstancesOutliveCalls`, `TokensComeBack`, `EveryBatchEnds` |

Three runs end in a counterexample, and each is a disagreement between the code
and what the repository says of it (the quotations are in `PROJECT.json`):

* `search_evidence` - the retriever's status never reaches the ledger.
  `update_search_protocol_state` keeps evidence only with a `tool_status` of
  `"success"`; `SearchEnv.step` sets none, and the environment manager fills in
  `None`.  A search that returned documents leaves the evidence ledger empty,
  and in the default protocol mode the ledger is all that later prompts show.
* `ckpt_mixed` - saving again into an existing folder and crashing leaves a
  folder that loads, with the actors of one run and the scorer of another,
  against "complete checkpoint".
* `tool_sampling` - the coroutines of a batch share one `sampling_params`, and
  each restores on leaving what it found on entering.  Two coroutines of a
  validation batch that overlap leave the validation parameters behind for
  training, against "always restore original values".

More facts are in the models without a run of their own:

* With one directory to keep, rotation removes the only complete actor before
  its successor is written, and the tracker is rewritten in place, so that a
  crash inside that write leaves a tracker the next start cannot read.  The list
  of directories to rotate starts empty in every process: a restarted job keeps
  the old ones for ever.  A restart after the last step trains one step more.
* The audit can pass no trajectory with a search: `tool_status`, the query's
  validity and the number of results stay `None` in what the environment
  reports, so that `TraceIsAudited` has the complaint about these exactly when
  there was a search.  Since no status is "invalid_query", nothing excuses a
  search that had no query or got no observation: a Search turn without search
  tags, or one that ends the episode by an answer inside its query, is reported
  for both, one with empty tags for its query.  The audit also expects one `run_id`, while
  a restarted job adds part files with another.
* An engine that fails while it generates leaves its group's other ranks in
  their broadcast; `EveryRankReturns` names this case.
* A request whose tool response all but fills the window asks the engine for a
  negative number of tokens, which raises (`Ask`); and the limiter's
  `current_count` is changed by several threads without a lock, but nobody reads
  it.
* A search that fails is tried again with growing pauses, while the whole batch
  waits for its thread; `run_math_hybrid.sh` may ask for more steps than its one
  epoch has batches, and `fit` then ends without its last validation.

The README of the search orchestra says that Answer "only executes when Verifier
Agent outputs `yes`"; the code also forces it at the last step and, by default,
after an unreadable verdict, as its own comments say.  The model follows the code.

### Bounds and why they are enough

Rows of a batch meet only through masks, the "everyone has finished" tests and
the shared counters; two rows already finish at different steps, and four make
two groups of two, with a mask that has rows out, in and approved.  Three rounds
give the first, a middle and the last round, which the orchestra treats
differently, and three tries a first, a middle and the last; three search steps
give a repeat of a query the ledger has already pruned, and `Queries` has two
spellings of one query.  `Retrieval` says whether a search may find documents:
in `search` it always does, which is what the audit is about, in
`search_evidence` it may.  Two ranks and two mini-batches give every combination
of uneven slices and padding up to five events, past the first multiple of the
divisor.  `SemanticValue` needs a batch before the warm-up ends and three more
for a label to wait, to be learnt and to be evaluated.  `TrainCheckpoint` has
three starts, enough to resume from a folder, save over another and resume
again; its `Steps` reach `MaxRuns - 1` past `TotalSteps` because each restart
after the end trains one step more.

`HybridEngine` has two engines of two ranks, so that a failure in one must reach
the other; four parameters fill a bucket exactly, overflow one and leave one
open; the masks ask for no row, fewer rows than ranks, some with gaps, and more.
Three calls are enough to train, serve and train again, or to resume, serve and
score.  Both offload flags are on: with a flag off, the part stays on the device
and `MemoryIsExclusive` has less to say.  `ToolRollout` needs a second turn after a tool
call, two calls of which one raises, and two threads for one token, so that
threads wait for the token; two batches show what one leaves to the next.

The bounds are the constants `MaxSteps`, `MaxLoop`, `MaxTries`, `MaxEvents`, `MaxBatch`,
`MaxStep`, `MaxRuns`, `TotalSteps`, `MaxCalls`, `MaxTurns`, `MaxBatches` and
`Discounts`; each cfg gives them, and each stops its actions by a guard or
limits the inputs.
Symmetry is used for the rows of `search`, the roles of `semantic` and the
trajectories of `credit`, in runs without liveness; the refinement that `search`
checks is stated for all its rows at once, so that swapping rows leaves it alone.

In `credit` three trajectories are the fewest whose leave-one-out values average
two peers, of which one, both or none may match; three steps let an agent
act again after its own next turn, after another agent's, or never.  One answer
key and the unreadable text, one document and the empty result distinguish all
that the estimators compare (two different documents would count like an empty
one, their similarity being 0 in the model), and one half stands for every
discount strictly between zero and one.  The discount of an environment step and that of an internal edge are tried one at a time,
which keeps all numbers exact within TLC's integers; `Scale` was chosen so that
every division comes out even.  The division of the centred credit by the
standard deviation is a positive factor per cohort and is left out.

`CHECK_DEADLOCK FALSE` appears where the program really stops: after the last
batch (`SemanticValue`, `EntropyControl`), after the last step or the last start
the bound allows (`TrainCheckpoint`), when a raised update ends the job
(`OptimizerSchedule`), and after the last call or batch, or one that raised
(`HybridEngine`, `ToolRollout`).  The math modules, `SearchRollout` and
`TeamEventCredit` start over and are checked for deadlock.

### Fairness

Weak fairness is assumed of the program's own progress, never of what starts
new work: of `Step` in `MCMath` (the `for` loop of `run` executes its next
statement; agents answer), of `UpdateStep` in `OptimizerSchedule` (a rank that is
not blocked in a collective runs, a collective with all ranks in it completes,
and the driver collects the results), and of `Work` in `HybridEngine` and
`ToolRollout` (the same of ranks, engines, coroutines, pool threads and the
limiter's actor, as one action: whenever any of them can go on, one of them
does).  This is enough because no part runs for ever by itself: programs are
finite, turns and retries are bounded, and a search returns or raises, as the
client's timeouts make it do.  The environment's choices - which rows are active,
what agents write, which events a rollout brings - are not forced.  The code is a sequential driver that blocks
on its workers, so nothing but a crash of a worker can deny it a step; crashes
are modelled where something survives them (scorer, controller, checkpoints)
and end the job everywhere else.

## 4. Proofs

The theorems hold for every value of the constants that the named assumptions
of the modules allow; TLC evaluates these in its runs.  An assumption says no
more than that batches are finite, limits are positive, names differ and
configurations have the fields the code reads, with three exceptions, which the
code relies on without checking: pretraining used the scorer's hold-out split
(`HeldOutAssumption`), copies of an action agree on what `prepare` compares
(`BatchesAssumption` of `EntropyControl`), and the epochs hold enough batches for
the steps asked for (`EpochsAssumption` of `TrainCheckpoint`).

Each proof has the same shape: an inductive invariant `IInv`, a conjunction of
named parts which TLC checked first, one lemma per action and part that the
action can disturb, and theorems that read the properties off it.

### Math task: `MathRolloutProofs`

For every non-empty finite set of rows, every `MaxLoop` and every set of
configured agents:

* `TypeCorrect`: `Spec => []TypeOK`.  The one strengthening needed is that the
  last round has no Verifier half (`TypeInv`).
* `ChainsAreLegal` and `AnswersAreJudged`: `Spec => []LegalChain` and
  `Spec => []AnswerIsJudged`, under `BothAgents` (both roles are configured; a
  team without one produces chains the trace rejects).  Neither is inductive:
  they speak of the moment `run` returns.  The inductive invariant `IInv` says
  what holds in the middle: calls alternate (`Alternation`), the buffer's length
  follows from the round and the program counter (`Rounds`), and each active
  row (`RowInv`) holds the answer of its last Solver call, is exactly one or two
  calls behind or done (`VerdictGiven`), and had every earlier answer rejected
  (`RejectedBefore`).  `SolverKeeps` and `VerifierKeeps` carry it over a turn,
  and `Returned` reads the two properties off its final state.
* `ApprovalIsFinal`: `Spec => ApprovedRowsAreFinal`, an action property, from
  type correctness.
* `RowsImplementChains`, under `BothAgents`: the refinement of `MathChain` without
  its fairness.  Under the mapping that TLC uses, the initial states of a batch
  are initial states of the dialogue of each row, and each step is a step of it
  or leaves the row alone.  `Pending` is the heart of it: a row that is neither
  approved nor out of rounds has been called in every turn so far, so that the
  batch's number of calls is its own.

About `MathRollout` and `DynamicSampling`, under `BothAgents` where the orchestra
is concerned:

* `ReadersNeverDisagree`: `SpecR => []ReadersAgree`, and `CreditIsDue`:
  `SpecR => []CreditFollowsGrade`.  The invariant `RInv` adds to the orchestra's
  that the two parsers agree on every verdict in the buffer (`Verdicts`), and
  that a rollout is a single environment step over all rows, whose events are
  those of the buffer (`RolloutInv`, `StepCollected`): the environment of the math
  task is always done, so that the loop never comes to a second one.  What the
  readers check follows from one description of a row's events, `CompleteChain`:
  `EventsOfReturned` gives it for a returned run, `ChainAccepted`,
  `ReplayAccepted` and `Credited` read the three readers off it.
* `SampledBatchAlwaysUsable`: `SpecD => []SampledBatchIsUsable`.  `DInv` says of the
  list built so far what is promised of the list returned: its cohorts are whole
  (`WholeCohorts`) and have a contrast unless they are of the last try
  (`Contrasted`), and a last try has brought every row (`LastTryIsFull`), which is
  why giving up returns a full batch.

### Optimizer schedule: `TeamEventProofs`

For any number of events and ranks, any positive numbers of mini-batches, epochs
and rows per micro-batch (`SizesAssumption`; several mini-batches mean a single
epoch, `EpochsAssumption`, as the driver insists), and *whatever* equal shares of
the rows the balancing gives the ranks:

* `TypeCorrect`, and `RaisesOnlyTooFew`: `Spec => []RaisesOnlyWhenTooFew`, since the
  adjusted size is a multiple of what every rank needs (`Lcm`), so that a batch
  with an event for each mini-batch passes all checks;
* `RanksInLockStep`: `Spec => []LockStep`: two ranks that have passed their checks
  stand at the same collective of the same micro-batch, mini-batch and epoch,
  and none has begun while another still validates.  It is the safety under
  `UpdateEnds`;
* `UpdateNeverStuck`: `Spec => []SomeoneCanMove`: in an update some rank is not
  waiting, or all wait in one collective, or all are done;
* `EventsLearntOnce`: `Spec => []EveryEventOnce`.

`EveryEventOnce` speaks of a finished update, and is no more inductive than its
parts: that the step taken at position *k* belongs to mini-batch *k* modulo their
number (`SumsItsMini`) holds because the number of steps counts the ranks'
position (`Counted`), which makes sense because all ranks have one position
(`LockStep`), which holds because each of them has the same number of
micro-batches in each mini-batch.  That follows from the layout: `FairShares`
says that each rank has as many rows of a mini-batch as any other and that the
rows of an event add up over the ranks; `SliceOf` that a rank's slice of the
layout is then its rows of that mini-batch, `SlicesAreEqual` that the ranks' loops
are alike.  `RowCount` is the cardinality of a set of rows, so that sums need no
induction; that a least common multiple and a greatest share exist comes from
`LeastNatural` (inclusion of finite sets is well founded).

### Team event credit: `TeamEventProofs`

For any set of trajectories, length of chains, keys, priors, penalty and unit
(`CreditAssumption`), and whatever a division that leaves a rest returns
(`Exact`):

* `BaselinesAreBlind`: `CreditSpec => []BaselineSeesNoOutcome`, for all three
  engines: however a trajectory goes on from a state, the value it is compared
  with there is the same.  It holds of every group, so no invariant is needed; the
  work is to show what each engine reads.  Two groups that differ in one
  trajectory have the same peers, hence the same priors, weights and values
  after a step (`PriorOfPeers`, `AnswerOfPeers`, `BoundaryOfPeers`, `LotoOfPeers`);
  and what an event's state tells - its index and all that was said before - is
  all that a baseline reads of its own trajectory (`MathPast`, `SearchPast`,
  `ScoreOfPast`);
* `RecursionsAgree`: `CreditSpec => [](UnitIsFine => FullTraceIsReturnLessBaseline)`.
  The code computes with real numbers, the model with integers in units of
  `1 / Scale`; `UnitIsFine` says that this makes no difference, that is, that
  there are sets of numbers, one for each event, which hold the rewards and
  baselines of the chain, are closed under sum and difference, and are discounted
  from one event to the one before without a rest.  So it is with every unit
  where nothing is discounted (`UndiscountedIsFine`), and with any discounts where
  rewards and baselines can be halved once per edge (`HalvableIsFine`).  Each
  recursion of the code runs backwards over the events (`Recursion`, by the
  greatest event without a value).  Discounting is then additive (`CarrySum`,
  `CarryDifference`), so that the team's differences telescope (`TeamIs`); over a
  segment of events that an agent skips, the rewards collected and the rest
  carried over all its edges make up the return at its beginning (`AcrossParts`,
  `SegmentIs`), so that the agent's own recursion telescopes likewise
  (`LocalIs`).  The inductive invariant `CreditInv` says that the advantages stored
  are those of the baselines at hand.

### Search task: `SearchRolloutProofs`

For every finite batch, step budget, vocabulary, retriever and history limit,
`TypeCorrect`, `RowsPaidOnce` (`PaidOnce`), `LedgerCountsExactly`
(`CountersAreExact`), `RowsAnswered` (`EveryRowIsAnswered`), `TracePassesAudit`
(`TraceIsAudited`) and `RowsImplementChains`
(`RowsAreIndependent`: for each row, every step of the batch is a step of its own
`SearchChain` or invisible to it).  Rows finish at different steps while three
clocks go on; `ClocksAgree` says how the ledger's, the environment's and the
loop's relate in the middle of a step, `ThreadsAgree` that a thread's result is
its environment's and ends by a text or at the last step, `Routed` and
`TextsAreOwned` which text may be there at which stage, and `LastWord` what a
finished row ended with.  The counters are not inductive alone: a duplicate is
recognised by what the ledger has *seen*, so `SeenIsSpelt` says that this set, and
not the pruned list of queries, holds the spellings of the whole trajectory.

The audit reads finished traces only; what carries over from step to step is
`TraceIsOfSteps`: positions *2k-1* and *2k* of a row's trace are the two records of
its step *k* (`StepRecorded`), with the ledger both prompts showed, a plan of the
router (`RoutesKnown`), counters that make sense (`LedgersAreSane`), and an end only
in the last step of a finished row.  From it `RecordPasses`, `StepPasses`,
`RecordsInOrder`, `VerifierCounted` and `StopReasonFits` give one check of the audit
each, and `RowIsAudited` the verdict: that no search passes, and which searches
lack a query or an observation, is proved as well as that everything else
passes.

### Entropy controller: `EntropyControlProofs`

For every set of finite batches and every calibration and ramp limit,
`TypeCorrect`, `CapsJustified` (`CapsFromInitialPolicy`), `RampsEarned`
(`RampIsEarned`) and `WeightsGated` (`WeightIsGated`).  The properties compare the
controller with the log of batches it has prepared; `Justified` says this of a
controller and a log, so that it can be said of the running pair and of the
saved pair, and a restart replaces one by the other.  Its parts give the
intermediate values: the clock is the length of the log (`Clocked`), a group not
frozen has counted exactly the evidence of the calibration window (`Counted`),
every role with evidence is known (`Acquainted`), and a ramp counts what was
earned since the role was last not qualified (`Ramping`).

### Training loop and checkpoints: `TrainCheckpointProofs`

For every finite set of worker groups, every set of configurations and any
number of crashes, between and inside writes: `TypeCorrect`, `LineagesAgree`
(`LineageAgrees`), `TrackedReadable` (`TrackedIsReadable`), `LossBounded`
(`BoundedLoss`) and `EndsLate` (`EndsAtLastStep`).  A resumed state is whole because
each folder was whole or its tracker was not moved, so the invariant follows
every part through a step and every file through a save:

* `MemAgrees`: each part knows the data of the steps that have passed through it
  (`Seen`), the learners from the warm-up on; `FoldersAgree`: a folder's files
  have learnt as many steps as its name says;
* `Saving`: the files closed so far hold what is in memory; `TrackedIsWhole`: the
  tracked folder is of one save; `KeptInOrder`: the directories an actor may
  remove are older than the tracked one until its own turn in a save has come;
* `Tracking`: the tracker lags behind by at most the distance between two saves,
  and is torn only while it is being written;
* `HistoriesRecorded` and `TracesApart`: what is known, in memory or on disk, has
  its events in the part files, once per run; `Supplied`: the epochs left hold
  the batches that are missing.

`TrackedIsReadable` excludes `max_actor_ckpt_to_keep = 1`, with which it is false (section
3); `LineageAgrees` compares the parts' data only under automatic resume
(`Automatic`), because resuming from a folder the operator names may mix runs,
which is what `ckpt_mixed` shows.

### Semantic scorer: `SemanticValueProofs`

For any questions, roles, finite batches and thresholds: `TypeCorrect`,
`ScoredBlind` (`ServedBeforeLearnt`), `JudgedOnHeldOut` (`DeployedIsHeldOut`),
`StrikesCounted` (`StrikesAreEvidence`), and the action properties `QualificationKept`
(`DeployKeepsQualified`) and `ResumedExactly` (`ResumeIsExact`).  `Sound` is said of
the running and of the saved scorer: heads and replay know no batch that has
not been learnt (`InOrder`), a trajectory is queued once (`QueuedOnce`), no head
has seen a held-out question (`HeadsHeldOut`).  The hard one is `StrikesAreEvidence`.
The code compares a held-out set only with the *last* one it judged
(`fingerprint`), while a strike should be a set never counted before; `Tracked`
says why this is enough.  The replay slides: a set once left either lost a
trajectory for ever, or is followed in the replay by a later held-out one, and
so cannot be met again (`Passed`); only the set judged last can.

### Ranks and engines: `HybridEngineProofs`

For any number of ranks in any engines and sequences, any parameters, bucket
size and offloading, any calls and any failure of an engine (`MeshAssumption`:
the group sizes divide the ranks, the actor has a parameter):

* `EngineIsCurrent`: `Spec => []ServesNewestWeights`;
* `DeviceIsShared`: `Spec => []MemoryIsExclusive`;
* `CollectivesMatch`: a rank in an all-gather of all ranks, of a weight or of the
  errors, finds each other rank in it, for the same parameter, or one step before
  it, and never gone: the safety under `EveryRankReturns`;
* `RowsReturnInPlace`: `Spec => []RowsComeBack`, for any batch and any mask.

No rank knows what another has in its bucket; that the buckets close alike is
`InStep`: all ranks are in the same stretch of the sync, with the same open bucket.
It needs `Bucketed` (nothing is open, and the next parameter is in range, where
the code says so), and the agreements being of the whole group.  A gathered weight
then has all the shards, and these are of one version (`Shards`: an update or a
checkpoint that only some ranks have finished is never followed by a rollout,
because the driver waits for all).  `Synced` carries what was pushed over the
buckets that follow, for each leader that has seen no failure; one that has is
stopped by the next agreement (`InMethod`).  Memory needs that the ranks of an
engine get past the sharing of their rows together (`Groups`), that each method
offloads what it has loaded (`Devices`), and that a rollout that has returned
everywhere has put all engines to sleep (`Asleep`).

The rows have an invariant of their own, `RowsInv`, inductive beside `IInv`:
`RowsAt` names, for each step, the stretch of the call's rows that a rank must
hold before it - its own or its group's, asked or answered - and `RowsInPlace` says
that it does.  Every step is then an identity about stretches: chunking cuts one
out (`ChunkIsSlice`), the sharing of a group joins those of its ranks (`Joined`,
`SharedOfOwn`), the split takes a rank's own back (`OwnOfShared`), collecting joins
all (`AllOfOwn`); the rest is division with remainder (`GroupRows`, `RoundUp`).  What
the recursive concatenation computes is proved with the least place at which it
could differ from the joined rows; that a row is restored to where it came from
needs that an active row is found at its rank in the mask (`ActiveRowAtPlace`).

### Tools: `ToolRolloutProofs`

For every finite set of requests and all positive values of the other constants
(`RequestsAssumption`, `BoundsAssumption`):

* `TypeCorrect`: `Spec => []TypeOK`;
* `FinalizeNeverRaises`: `Spec => []NoneEndsInAToolCall`.  It is inductive beside the
  types: the two places that leave the loop over turns (`AfterTurns`, `Resume`)
  set a final reason, and a tool call only leads to another turn;
* `InstancesAreKept`: `Spec => []InstancesOutliveCalls`.  The invariant needed says
  that a call is never seen outside its request's gathering (`CallsAreGathered`),
  that a request has its instance exactly between creation and closing
  (`InstanceWhileActive`), and that requests start a batch completed
  (`BatchIsWhole`);
* `TokensAreConserved`: `Spec => []TokensComeBack`, from `Tokens`: tokens in the
  bucket, in use and on their way back always add up to the rate limit.  That
  an acquire ends with a call that still waits (`AcquirerWaits`) keeps it from
  counting a call twice; the rest is arithmetic on cardinalities.

### What stays with TLC

* Liveness (`RunReturns`, `UpdateEnds`, `EveryRankReturns`, `EveryBatchEnds`) and the
  fairness in the refinement of `MathChain`: the prover has no ENABLED.
* `BaselineWithinPeers` and `CohortsAreCentred` of `TeamEventCredit`.  Both need what a
  sum over a set amounts to - that a weighted mean lies within its terms, that
  the differences from a mean add up to nothing.  `SumFunctionOnSet` is a fold with
  an operator for a parameter, of which the prover learns nothing but that
  equal functions have equal sums; and both hold only where divisions are
  exact, which depends on `Scale`.  TLC, which stops at a division with a rest,
  checks them on every group the bounds allow.
* `CreditSpec => []FullTraceIsReturnLessBaseline` without its hypothesis `UnitIsFine`,
  for the same reason.

## 5. Plan

The modules are ordered by what they protect: first the protocols that decide
what is learnt (math orchestra, schedule), then the learning state and its
restarts, then the second task, then the workers behind the driver.

1. done: `MathChain`, `MathOrchestra`, `MathRollout`;
   2. `OptimizerSchedule`; 3. `SemanticValue`; 4. `EntropyControl`;
   5. `TrainCheckpoint`; 6. `SearchRollout`; 7. `TeamEventCredit`;
   8. `DynamicSampling`; 9. `HybridEngine`, for `DataProto`, dispatch, weight sync
   and memory; 10. event dumps, in `TrainCheckpoint`; 11. `SearchAudit`;
   12. the boundary values, in `TeamEventCredit`; 13. `ToolRollout` and
   `ToolRolloutProofs`.
14. done: `SearchChain`, refined by `SearchRollout`.
15. open: the other dispatch modes and futures of `single_controller`; the
    critic's worker, whose methods are those of `HybridEngine`'s actor.

16. done: the proofs of section 4, in the order math orchestra, tools, search,
    controller, checkpoints, scorer, math rollout, ranks and engines, optimizer
    schedule, team event credit.

## 6. What is not modelled

* **Numbers.** Model forward and backward passes, attention kernels, losses, KL
  shaping, metrics and the semantic, sparse-entropy and hindsight credit
  functions: arithmetic on reals and token masks without state or order, of which
  a bounded integer instance says little.  Their inputs, the event chains, are
  what the rollout modules check.  Grading of a math answer is left open (any
  grade), as are the scorer's accuracy, the controller's risk and a retriever's
  documents; the TF-IDF kernel compares documents as same or disjoint.
* **External frameworks.** FSDP's own sharding, NCCL, Ray's scheduling, vLLM and
  the engines' schedulers, HDFS, tokenizers, tracking.  `HybridEngine` has the
  order in which the code calls them, not what they do inside.
* **Alternatives the hybrid path does not take.** Megatron workers, the critic and
  reward-model workers, vLLM sharding managers, the asynchronous servers, the
  sandbox, GSM8K and Geo3K tools, environments other than the two tasks, legacy
  estimators, the recipes and the examples.
* **Parts of modelled components.** Prompt rendering, token lists and text hashes of
  events; the delete mode of `adjust_batch`; shadow engines and copies of rows in
  `TeamEventCredit`; validation dumps, the math trace's audit and the credit trace;
  `DataProto`'s other dispatch modes and its serialisation.
