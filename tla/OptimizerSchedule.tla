-------------------------- MODULE OptimizerSchedule --------------------------
(***************************************************************************)
(* How one worker group's rollout rows become optimizer steps (Team Event  *)
(* GAE).  The driver pads the rows with copies so that the batch divides,  *)
(* weights every copy by one over its multiplicity, regroups the events    *)
(* into K logical mini-batches padded each on its own, and lays the rows   *)
(* out so that every data-parallel rank, cutting its chunk on its own, is  *)
(* always in the same mini-batch as the others.  The ranks then run their  *)
(* optimizer steps as separate processes that meet in collectives.         *)
(*                                                                         *)
(* A multiset of rows is a function from events to numbers of rows; a      *)
(* weight is its denominator, the sample_dup_count the code stores with    *)
(* it.  Row order matters only up to the slice a row falls in; which equal *)
(* slices the token balancing picks is left open.                          *)
(***************************************************************************)
EXTENDS Integers, Sequences, FiniteSets, FiniteSetsExt

CONSTANTS
  MaxEvents,            \* bound: unique events of the worker group in one rollout
  WorldSize,            \* n_gpus_per_node * nnodes, the data-parallel ranks
  Configs               \* configurations a worker group may have, see below

Positive == Nat \ {0}

ASSUME SizesAssumption ==
  /\ {MaxEvents, WorldSize} \subseteq Positive
  /\ Configs \subseteq [num_minis : Positive, epochs : Positive, micro : Positive, log_prob_micro : Positive]
\* prepare_team_event_optimizer_batch refuses any other configuration.
ASSUME EpochsAssumption == \A c \in Configs : c.num_minis > 1 => c.epochs = 1

VARIABLES
  config,     \* the worker group's own configuration
  phase,      \* "rollout", "adjust", "schedule", "update", "updated", "raised"
  events,     \* unique event_uids of the batch
  batch,      \* rows of the adjusted batch: [events -> number of rows]
  weight,     \* sample_weight of the batch's rows: [events -> denominator]
  groups,     \* logical mini-batch of every event, [events -> Minis]
  layout,     \* scheduled rows, in order: slices of [mini, rows, weight]
  rank,       \* per rank: where update_policy is
  waiting,    \* ranks that have entered their next collective
  steps       \* history: per optimizer step, the rows and weights it summed

vars == <<config, phase, events, batch, weight, groups, layout, rank, waiting, steps>>

NumMinis          == config.num_minis        \* actor.ppo_mini_update_num, K
PpoEpochs         == config.epochs           \* actor.ppo_epochs
MicroBatch        == config.micro            \* actor.ppo_micro_batch_size_per_gpu
LogProbMicroBatch == config.log_prob_micro   \* rollout.log_prob_micro_batch_size_per_gpu

Ranks == 0 .. WorldSize - 1
Minis == 0 .. NumMinis - 1

-----------------------------------------------------------------------------
RowCount(rows, S) == Cardinality(UNION {{e} \X (1 .. rows[e]) : e \in S})
CeilDiv(a, b)  == (a + b - 1) \div b
Lcm(a, b) == CHOOSE m \in 1 .. a * b :
               /\ m % a = 0 /\ m % b = 0
               /\ \A k \in 1 .. m - 1 : ~ (k % a = 0 /\ k % b = 0)

\* adjust_batch: size_divisor, the least common multiple of what the log-prob
\* and the actor passes need.
SizeDivisor == Lcm(LogProbMicroBatch * WorldSize, MicroBatch * WorldSize)

\* The size adjust_batch (mode "copy") pads n rows to.
AdjustedSize(n) == CeilDiv(n, SizeDivisor) * SizeDivisor

\* All ways to repeat the rows of S up to size rows: whole rounds of S, then a
\* random part of it.
Repeated(S, size) ==
  LET q == size \div Cardinality(S) IN
  {rows \in [S -> {q, q + 1}] : RowCount(rows, S) = size}

\* One over the multiplicity: as many shares as the event has rows.
InverseMultiplicity(rows) == rows

\* validate_team_event_sample_weights and the checks inside
\* prepare_team_event_optimizer_batch: the weights of an event sum to one.
MassIsOne(rows, w) == \A e \in DOMAIN rows : rows[e] = w[e]

-----------------------------------------------------------------------------
\* Sizes of the K groups permutation[i::K] cuts n events into.
GroupSize(n, mini) == CeilDiv(n - mini, NumMinis)

Groupings(S) ==
  {g \in [S -> Minis] :
     \A mini \in Minis : Cardinality({e \in S : g[e] = mini}) = GroupSize(Cardinality(S), mini)}

\* Rows of every padded mini-batch: the largest group, rounded up so that
\* every rank gets whole micro-batches.
TargetRows(n) ==
  CeilDiv(GroupSize(n, 0), WorldSize * MicroBatch) * WorldSize * MicroBatch

Members(g, mini) == {e \in DOMAIN g : g[e] = mini}

\* Each group padded on its own, to the same number of rows.
PaddedRows(g) ==
  LET target == TargetRows(Cardinality(DOMAIN g))
      rounds == [e \in DOMAIN g |-> target \div Cardinality(Members(g, g[e]))]
  IN {rows \in [DOMAIN g -> 1 .. target] :
        /\ \A e \in DOMAIN g : rows[e] \in {rounds[e], rounds[e] + 1}
        /\ \A mini \in Minis : RowCount(rows, Members(g, mini)) = target}

\* All ways to give each rank an equal share of every mini-batch
\* (get_seqlen_balanced_partitions with equal_size).
RankShares(rows, g) ==
  LET size == [mini \in Minis |-> RowCount(rows, Members(g, mini)) \div WorldSize]
      most == Max({rows[e] : e \in DOMAIN rows})
      one  == {s \in [DOMAIN rows -> 0 .. most] :
                 \A mini \in Minis : RowCount(s, Members(g, mini)) = size[mini]}
  IN {share \in [Ranks -> one] :
        \A e \in DOMAIN rows : RowCount([r \in Ranks |-> share[r][e]], Ranks) = rows[e]}

\* Mutant: the slices are stored one mini-batch after the other.
SliceAtMiniMajor(i) == [rank |-> (i - 1) % WorldSize, mini |-> (i - 1) \div WorldSize]

\* Rank-major, then mini-major: which slice is stored at position i.
SliceAt(i) == [rank |-> (i - 1) \div NumMinis, mini |-> (i - 1) % NumMinis]

Layout(share, g, w) ==
  [i \in 1 .. WorldSize * NumMinis |->
     LET at == SliceAt(i) IN
     [mini   |-> at.mini,
      rows   |-> [e \in Members(g, at.mini) |-> share[at.rank][e]],
      weight |-> w]]

-----------------------------------------------------------------------------
\* update_policy on one rank.
Idle == [op |-> "validate", epoch |-> 0, mini |-> 0, micro |-> 0]

Init ==
  /\ config \in Configs
  /\ phase = "rollout"
  /\ events = {}
  /\ batch = << >> /\ weight = << >> /\ groups = << >> /\ layout = << >>
  /\ rank = [r \in Ranks |-> Idle]
  /\ waiting = {}
  /\ steps = << >>

\* A rollout brings n new events, in a batch of the worker group's own rows.
Rollout ==
  /\ phase \in {"rollout", "updated"}
  /\ \E n \in 1 .. MaxEvents : events' = 1 .. n
  /\ phase' = "adjust"
  /\ batch' = << >> /\ weight' = << >> /\ groups' = << >> /\ layout' = << >>
  /\ rank' = [r \in Ranks |-> Idle]
  /\ waiting' = {}
  /\ steps' = << >>
  /\ UNCHANGED config

\* adjust_batch and _balance_batch.
AdjustBatch ==
  /\ phase = "adjust"
  /\ \E rows \in Repeated(events, AdjustedSize(Cardinality(events))) :
       /\ batch' = rows
       /\ weight' = rows
  /\ phase' = "schedule"
  /\ UNCHANGED <<config, events, groups, layout, rank, waiting, steps>>

\* One mini-batch: the adjusted rows are kept.
KeepRows ==
  LET size == RowCount(batch, events) IN
  /\ NumMinis = 1
  /\ groups' = [e \in events |-> 0]
  /\ IF size % WorldSize # 0 \/ (size \div WorldSize) % MicroBatch # 0
     THEN phase' = "raised" /\ UNCHANGED layout
     ELSE /\ phase' = "update"
          /\ \E share \in RankShares(batch, groups') : layout' = Layout(share, groups', weight)

\* K mini-batches: one canonical row per event, regrouped and padded again.
Repack ==
  /\ NumMinis > 1
  /\ IF Cardinality(events) < NumMinis
     THEN phase' = "raised" /\ UNCHANGED <<groups, layout>>
     ELSE \E g \in Groupings(events) :
          \E padded \in PaddedRows(g) :
          \E share \in RankShares(padded, g) :
            /\ groups' = g
            /\ IF MassIsOne(padded, InverseMultiplicity(padded))
               THEN phase' = "update" /\ layout' = Layout(share, g, InverseMultiplicity(padded))
               ELSE phase' = "raised" /\ UNCHANGED layout

\* prepare_team_event_optimizer_batch, behind the validation of its input.
Schedule ==
  /\ phase = "schedule"
  /\ IF MassIsOne(batch, weight)
     THEN KeepRows \/ Repack
     ELSE phase' = "raised" /\ UNCHANGED <<groups, layout>>
  /\ UNCHANGED <<config, events, batch, weight, rank, waiting, steps>>

-----------------------------------------------------------------------------
\* Mutant: the first chunk is sent to every rank.
LocalBroadcast(r) == [i \in 1 .. NumMinis |-> layout[i]]

\* The chunk of the layout that dispatch sends to rank r, and its rows.
Local(r) == [i \in 1 .. NumMinis |-> layout[r * NumMinis + i]]

SliceSize(slice) == RowCount(slice.rows, DOMAIN slice.rows)

LocalMiniSize == SliceSize(layout[1])

Present(slice) == {e \in DOMAIN slice.rows : slice.rows[e] > 0}

\* The checks update_policy makes on its own chunk.
LocalRaises(r) ==
  LET chunk == Local(r) IN
  \/ \E i \in 1 .. NumMinis : SliceSize(chunk[i]) # LocalMiniSize
  \/ \E i \in 1 .. NumMinis : chunk[i].mini # i - 1
  \/ \E i, j \in 1 .. NumMinis : i # j /\ Present(chunk[i]) \cap Present(chunk[j]) # {}

Validate(r) ==
  /\ phase = "update"
  /\ rank[r].op = "validate"
  /\ rank' = [rank EXCEPT ![r].op = IF LocalRaises(r) THEN "raised" ELSE "normalizer"]
  /\ UNCHANGED <<config, phase, events, batch, weight, groups, layout, waiting, steps>>

Collectives == {"normalizer", "backward", "metrics", "step"}

\* A rank reaches its next collective and blocks there: the all_reduce of the
\* normalizer, the gradient exchange of a micro-batch, the all_reduce of the
\* metrics, the clipping and application of the gradient.
Arrive(r) ==
  /\ phase = "update"
  /\ rank[r].op \in Collectives
  /\ r \notin waiting
  /\ waiting' = waiting \cup {r}
  /\ UNCHANGED <<config, phase, events, batch, weight, groups, layout, rank, steps>>

\* Mutant: micro-batches are packed by content (dynamic batch size).
MicrosDynamic(r) == Cardinality(Present(Local(r)[rank[r].mini + 1]))

\* Micro-batches of the mini-batch rank r is in.
Micros(r) == CeilDiv(SliceSize(Local(r)[rank[r].mini + 1]), MicroBatch)

\* Where a rank goes after an optimizer step.
NextMini(at) ==
  IF at.mini < NumMinis - 1
  THEN [op |-> "normalizer", epoch |-> at.epoch, mini |-> at.mini + 1, micro |-> 0]
  ELSE IF at.epoch < PpoEpochs - 1
  THEN [op |-> "normalizer", epoch |-> at.epoch + 1, mini |-> 0, micro |-> 0]
  ELSE [at EXCEPT !.op = "done"]

Advance(r) ==
  LET at == rank[r] IN
  IF at.op = "normalizer" THEN [at EXCEPT !.op = "backward"]
  ELSE IF at.op = "backward"
  THEN IF at.micro + 1 < Micros(r) THEN [at EXCEPT !.micro = @ + 1]
                                   ELSE [at EXCEPT !.op = "metrics"]
  ELSE IF at.op = "metrics" THEN [at EXCEPT !.op = "step"]
  ELSE NextMini(at)

\* What all ranks together sum in the optimizer step they apply: the rows of
\* every event, the weight each was given, and the mini-batches they were in.
Summed ==
  LET at(r) == Local(r)[rank[r].mini + 1] IN
  [rows |-> [e \in events |->
      RowCount([r \in Ranks |-> IF e \in DOMAIN at(r).rows THEN at(r).rows[e] ELSE 0], Ranks)],
   weights |-> [e \in events |-> {at(r).weight[e] : r \in {q \in Ranks : e \in Present(at(q))}}],
   minis |-> {rank[r].mini : r \in Ranks}]

\* A collective completes when every rank has entered one of its kind; the
\* library matches them by kind and order, not by what they are meant for.
Complete ==
  /\ waiting = Ranks
  /\ \A r, q \in Ranks : rank[r].op = rank[q].op
  /\ rank' = [r \in Ranks |-> Advance(r)]
  /\ waiting' = {}
  /\ steps' = IF \A r \in Ranks : rank[r].op = "step" THEN Append(steps, Summed) ELSE steps
  /\ UNCHANGED <<config, phase, events, batch, weight, groups, layout>>

\* The driver waits for all ranks; an exception on one of them is raised here.
Collect ==
  /\ phase = "update"
  /\ \/ \A r \in Ranks : rank[r].op = "done"
     \/ \E r \in Ranks : rank[r].op = "raised"
  /\ phase' = IF \E r \in Ranks : rank[r].op = "raised" THEN "raised" ELSE "updated"
  /\ UNCHANGED <<config, events, batch, weight, groups, layout, rank, waiting, steps>>

\* The dispatched update: the ranks' own steps, their collectives, the driver.
UpdateStep ==
  \/ \E r \in Ranks : Validate(r) \/ Arrive(r)
  \/ Complete
  \/ Collect

Next == Rollout \/ AdjustBatch \/ Schedule \/ UpdateStep

Spec     == Init /\ [][Next]_vars
FairSpec == Spec /\ WF_vars(UpdateStep)

-----------------------------------------------------------------------------
(* Padding never changes what is learnt: once an actor update is over,     *)
(* each epoch took NumMinis optimizer steps, and each event was summed, on *)
(* all ranks together, with weight one in exactly one of them, however     *)
(* many copies of it were made and wherever they went.                     *)
EveryEventOnce ==
  phase = "updated" =>
    /\ Len(steps) = PpoEpochs * NumMinis
    /\ \A e \in events, epoch \in 0 .. PpoEpochs - 1 :
         LET of == {i \in 1 .. NumMinis : steps[epoch * NumMinis + i].rows[e] > 0} IN
         /\ Cardinality(of) = 1
         /\ \A i \in of : LET step == steps[epoch * NumMinis + i] IN
                            step.weights[e] = {step.rows[e]}
    /\ \A i \in DOMAIN steps : \E e \in events : steps[i].rows[e] > 0
(* The only batch that cannot be scheduled is one with fewer events than   *)
(* mini-batches; no other batch makes the driver or a rank raise.          *)
RaisesOnlyWhenTooFew == phase = "raised" => Cardinality(events) < NumMinis

(* No rank is left behind in a collective: a dispatched update ends.       *)
UpdateEnds == phase = "update" ~> phase = "updated"

=============================================================================
