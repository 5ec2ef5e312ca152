----------------------------- MODULE HybridEngine -----------------------------
(***************************************************************************)
(* One worker group that trains with FSDP and rolls out with SGLang.  The  *)
(* driver calls a method; every rank runs it as a process of its own and   *)
(* meets the others only in collectives: of the whole group (all-gathers   *)
(* of a weight, of the errors, forward and backward passes) or of the      *)
(* ranks that share an engine or a sequence.  The first rank of a tensor-  *)
(* parallel group drives the group's engine, whose calls may fail.         *)
(*                                                                         *)
(* A rank's pc is its next step and After the order of the steps; a rank   *)
(* that raises takes no further one.                                       *)
(***************************************************************************)
EXTENDS Integers, Sequences, FiniteSets, SequencesExt

CONSTANTS
  World,      \* ranks of the worker group
  TPSize,     \* rollout.tensor_model_parallel_size
  SPSize,     \* actor.ulysses_sequence_parallel_size
  Offloaded,  \* what param_offload and optimizer_offload keep off the device
  Sizes,      \* bytes of every parameter, in state-dict order
  MaxBytes,   \* weight_update_bucket_bytes
  Batch,      \* rows of a rollout
  Masks,      \* the sets of active rows an agent asks for
  Saved,      \* the version of the actor in the checkpoint of an earlier run
  MaxCalls    \* bound: calls of the driver

ASSUME MeshAssumption ==
  /\ {World, TPSize, SPSize, Batch, MaxBytes} \subseteq Nat \ {0}
  /\ World % TPSize = 0 /\ World % SPSize = 0
  /\ Sizes \in Seq(Nat) \ {<<>>} /\ Saved \in Nat
  /\ Masks \subseteq SUBSET (1 .. Batch)
  /\ Offloaded \subseteq {"params", "optimizer"}

VARIABLES
  driver,    \* "idle", "busy", "failed"
  call,      \* the method called last, and the rows that were asked for
  calls,     \* calls made so far
  version,   \* history: updates behind the actor, as the driver counts them
  result,    \* what the last call returned
  pc,        \* per rank: the next step of its method
  raised,    \* ranks whose method has raised
  error,     \* ranks whose engine operation has failed
  data,      \* per rank: its rows
  output,    \* per rank: what its engine has generated
  shard,     \* per rank: the version of its shard of the actor
  on_gpu,    \* per rank: the parts of its shard on the device
  next,      \* per rank: the parameter to be gathered next
  full,      \* per rank: the gathered weights of the open bucket
  bytes,     \* per rank: their size
  engine     \* per tensor-parallel group: the state of its engine

driverVars == <<driver, call, calls, version, result>>
syncVars   == <<next, full, bytes>>
rankVars   == <<pc, raised, error, data, output, shard, on_gpu, syncVars>>
vars       == <<driverVars, rankVars, engine>>

Ranks   == 0 .. World - 1
Engines == 0 .. (World \div TPSize) - 1
Params  == 1 .. Len(Sizes)
\* The rows of a training batch; adjust_batch has made them divisible.
TrainRows == 2 * World

Peers(r, size) == {q \in Ranks : q \div size = r \div size}
Leader(r) == r % TPSize = 0

-----------------------------------------------------------------------------
(* Batches: the active rows, padded and split over the ranks, and back.    *)

\* np.flatnonzero: the active rows in ascending order
ActiveRows(mask) ==
  CHOOSE rows \in [1 .. Cardinality(mask) -> mask] :
    \A i, j \in DOMAIN rows : i < j => rows[i] < rows[j]

\* extract_dataproto_via_active_mask
Extracted(mask) == IF mask = {} THEN <<1>> ELSE ActiveRows(mask)

\* pad_dataproto_to_divisor repeats the rows from the first one on.
Padded(rows) ==
  rows \o [i \in 1 .. (-Len(rows)) % World |-> rows[((i - 1) % Len(rows)) + 1]]

\* DataProto.chunk into n equal parts, the one at place i
Chunk(rows, n, i) ==
  LET k == Len(rows) \div n IN SubSeq(rows, i * k + 1, (i + 1) * k)

\* Mutant: the fillers are put in without the reordering.
RestoredUnordered(out, mask) ==
  [i \in 1 .. Batch |-> IF i <= Len(out) THEN out[i] ELSE out[1]]

\* restore_dataproto_via_active_mask: inactive rows get a copy of the first.
Restored(out, mask) ==
  IF Len(out) = Cardinality(mask)
  THEN [i \in 1 .. Batch |->
          IF i \in mask THEN out[Cardinality({j \in mask : j <= i})] ELSE out[1]]
  ELSE [i \in 1 .. Batch |-> IF i <= Len(out) THEN out[i] ELSE out[1]]

-----------------------------------------------------------------------------
(* The order of the steps.                                                 *)

EmptyBucket == [p \in {} |-> {}]

Open(r) == DOMAIN full[r]

\* iter_weight_buckets: before parameter p, with n bytes in the open bucket.
AfterWeights(open, n, p) ==
  LET last   == p > Len(Sizes)
      closed == n >= MaxBytes \/ (open # {} /\ (last \/ n + Sizes[p] > MaxBytes))
  IN  IF closed THEN "push" ELSE IF last THEN "flush" ELSE "gather"

\* __enter__ (load, sync, offload), the group's rows, generation by the leader
\* and a broadcast to the others, who wait for it, and the leader's __exit__.
\* Each of the three engine operations is followed by an agreement on it.
AfterInGenerate(r, op) ==
  CASE op = "load"                  -> "resume"
    [] op = "resume"                -> "resumed"
    [] op \in {"resumed", "pushed"} -> AfterWeights(Open(r), bytes[r], next[r])
    [] op = "push"                  -> "pushed"
    [] op = "flush"                 -> "flushed"
    [] op = "flushed"               -> "offload"
    [] op = "offload"               -> "share"
    [] op = "share"                 -> IF Leader(r) THEN "generate" ELSE "broadcast"
    [] op = "generate"              -> "broadcast"
    [] op = "broadcast"             -> "split"
    [] op = "split"                 -> IF Leader(r) THEN "release" ELSE "returned"
    [] op = "release"               -> "returned"

\* compute_log_prob, update_actor and load_checkpoint
AfterInActor(op) ==
  CASE op = "load"    -> IF call.kind = "load_checkpoint" THEN "restore" ELSE "share"
    [] op = "share"   -> IF call.kind = "update_actor" THEN "train" ELSE "forward"
    [] op = "forward" -> "split"
    [] op \in {"split", "train", "restore"} -> "offload"
    [] op = "offload" -> "returned"

After(r, op) == IF call.kind = "generate" THEN AfterInGenerate(r, op) ELSE AfterInActor(op)

\* all_gather_object(errors): the ranks that learn of a failure.
Agreements == {"resumed", "pushed", "flushed"}

\* Mutant: only the ranks of one engine learn of its failure.
AgreeSizeByEngine == TPSize

AgreeSize == World

\* The ranks that take a step together.
GroupSize(op) ==
  CASE op \in {"share", "split"}              -> IF call.kind = "generate" THEN TPSize ELSE SPSize
    [] op = "broadcast"                       -> TPSize
    [] op \in Agreements                      -> AgreeSize
    [] op \in {"gather", "forward", "train"}  -> World

Returned(r) == r \notin raised /\ pc[r] = "returned"
At(r, op)   == driver # "idle" /\ r \notin raised /\ pc[r] = op

\* The group in which rank r has arrived, when all of it has.
Complete(r, op) == \A q \in Peers(r, GroupSize(op)) : At(q, op)

Advance(R) == pc' = [r \in Ranks |-> IF r \in R THEN After(r, pc[r]) ELSE pc[r]]

-----------------------------------------------------------------------------
Init ==
  /\ driver = "idle" /\ calls = 0 /\ version = 0
  /\ call = [kind |-> "load_checkpoint", mask |-> {}]
  /\ result = <<>>
  /\ pc = [r \in Ranks |-> "returned"]
  /\ raised = {} /\ error = {}
  /\ data = [r \in Ranks |-> <<>>]
  /\ output = [r \in Ranks |-> <<>>]
  /\ shard = [r \in Ranks |-> 0]
  /\ on_gpu = [r \in Ranks |-> {"params", "optimizer"} \ Offloaded]
  /\ next = [r \in Ranks |-> 1]
  /\ full = [r \in Ranks |-> EmptyBucket]
  /\ bytes = [r \in Ranks |-> 0]
  /\ engine = [e \in Engines |-> [awake |-> FALSE, fresh |-> TRUE,
                                  weights |-> [p \in Params |-> {0}]]]

NoAnswer == 0
Unanswered(i) == [prompt |-> i, answer |-> NoAnswer]

Dispatch(kind, mask, rows) ==
  /\ driver = "idle" /\ calls < MaxCalls
  /\ driver' = "busy"
  /\ calls' = calls + 1
  /\ call' = [kind |-> kind, mask |-> mask]
  /\ pc' = [r \in Ranks |-> "load"]
  /\ next' = [r \in Ranks |-> 1]
  /\ data' = [r \in Ranks |-> Chunk([i \in 1 .. Len(rows) |-> Unanswered(rows[i])], World, r)]
  /\ output' = [r \in Ranks |-> <<>>]
  /\ result' = <<>>
  /\ UNCHANGED <<version, raised, error, shard, on_gpu, full, bytes, engine>>

\* _generate_with_llm, for any set of active rows.
CallGenerate == \E mask \in Masks : Dispatch("generate", mask, Padded(Extracted(mask)))

\* compute_log_prob and update_actor get the whole batch.
CallTraining ==
  \E kind \in {"compute_log_prob", "update_actor"} :
    Dispatch(kind, 1 .. TrainRows, [i \in 1 .. TrainRows |-> i])

\* A resumed job loads the actor before anything else.
CallLoad == calls = 0 /\ Dispatch("load_checkpoint", {}, <<>>)

\* ray.get: the outputs in rank order, or the first exception.
Collect ==
  LET out == FlattenSeq([i \in 1 .. World |-> data[i - 1]])
      n   == Len(Extracted(call.mask)) IN
  /\ driver = "busy"
  /\ \A r \in Ranks : Returned(r)
  /\ driver' = "idle"
  /\ result' = CASE call.kind = "generate" -> Restored(SubSeq(out, 1, n), call.mask)
                 [] call.kind = "compute_log_prob" -> out
                 [] OTHER -> <<>>
  /\ version' = CASE call.kind = "update_actor" -> version + 1
                  [] call.kind = "load_checkpoint" -> Saved
                  [] OTHER -> version
  /\ UNCHANGED <<call, calls, rankVars, engine>>

Fail ==
  /\ driver = "busy" /\ raised # {}
  /\ driver' = "failed"
  /\ UNCHANGED <<call, calls, version, result, rankVars, engine>>

-----------------------------------------------------------------------------
\* Steps a rank takes on its own.

\* Training needs the optimizer's state beside the parameters.
Load(r) ==
  /\ At(r, "load")
  /\ on_gpu' = [on_gpu EXCEPT ![r] = @ \cup
                  (IF call.kind = "update_actor" THEN {"params", "optimizer"} ELSE {"params"})]
  /\ Advance({r})
  /\ UNCHANGED <<driverVars, raised, error, data, output, shard, syncVars, engine>>

\* Mutant: a resumed actor keeps what the checkpoint filled.
PartsOffloadedTrained(kind) ==
  IF kind = "update_actor" THEN Offloaded ELSE Offloaded \ {"optimizer"}

\* Only the methods that touch the optimizer offload it.
PartsOffloaded(kind) ==
  IF kind \in {"update_actor", "load_checkpoint"} THEN Offloaded ELSE Offloaded \ {"optimizer"}

Offload(r) ==
  /\ At(r, "offload")
  /\ on_gpu' = [on_gpu EXCEPT ![r] = @ \ PartsOffloaded(call.kind)]
  /\ Advance({r})
  /\ UNCHANGED <<driverVars, raised, error, data, output, shard, syncVars, engine>>

\* checkpoint_manager.load_checkpoint fills the optimizer where the weights are.
Restore(r) ==
  /\ At(r, "restore")
  /\ shard' = [shard EXCEPT ![r] = Saved]
  /\ on_gpu' = [on_gpu EXCEPT ![r] = @ \cup {"optimizer"}]
  /\ Advance({r})
  /\ UNCHANGED <<driverVars, raised, error, data, output, syncVars, engine>>

\* postprocess_data: the rank's own part of the group's rows
Split(r) ==
  /\ At(r, "split")
  /\ data' = [data EXCEPT ![r] = Chunk(@, GroupSize("split"), r % GroupSize("split"))]
  /\ Advance({r})
  /\ UNCHANGED <<driverVars, raised, error, output, shard, on_gpu, syncVars, engine>>

-----------------------------------------------------------------------------
\* _run_engine_operation: the leader's engine does it, the others pass.
Operated(r, new) ==
  /\ engine' = IF Leader(r) THEN [engine EXCEPT ![r \div TPSize] = new] ELSE engine
  /\ Advance({r})

Resume(r) ==
  /\ At(r, "resume")
  /\ Operated(r, [engine[r \div TPSize] EXCEPT !.awake = TRUE])
  /\ UNCHANGED <<driverVars, raised, error, data, output, shard, on_gpu, syncVars>>

\* The next bucket is a new list.
Emptied(r) ==
  /\ full' = [full EXCEPT ![r] = EmptyBucket]
  /\ bytes' = [bytes EXCEPT ![r] = 0]
  /\ UNCHANGED next

\* update_weight_bucket with flush_cache=False
Push(r) ==
  LET e == engine[r \div TPSize] IN
  /\ At(r, "push")
  /\ Operated(r, [e EXCEPT
       !.fresh = FALSE,
       !.weights = [p \in Params |-> IF p \in Open(r) THEN full[r][p] ELSE e.weights[p]]])
  /\ Emptied(r)
  /\ UNCHANGED <<driverVars, raised, error, data, output, shard, on_gpu>>

Flush(r) ==
  /\ At(r, "flush")
  /\ Operated(r, [engine[r \div TPSize] EXCEPT !.fresh = TRUE])
  /\ UNCHANGED <<driverVars, raised, error, data, output, shard, on_gpu, syncVars>>

\* Mutant: a rejected cache flush is not an error.
OperationFailsSilentFlush(r) ==
  /\ Leader(r)
  /\ At(r, "resume") \/ At(r, "push") \/ At(r, "flush")
  /\ error' = IF At(r, "flush") THEN error ELSE error \cup {r}
  /\ Emptied(r)
  /\ Advance({r})
  /\ UNCHANGED <<driverVars, raised, data, output, shard, on_gpu, engine>>

\* The engine raises, rejects or does not acknowledge the operation.
OperationFails(r) ==
  /\ Leader(r)
  /\ At(r, "resume") \/ At(r, "push") \/ At(r, "flush")
  /\ error' = error \cup {r}
  /\ Emptied(r)
  /\ Advance({r})
  /\ UNCHANGED <<driverVars, raised, data, output, shard, on_gpu, engine>>

\* async_generate answers every row of the group.
Generate(r) ==
  /\ At(r, "generate")
  /\ output' = [output EXCEPT ![r] = [i \in 1 .. Len(data[r]) |-> data[r][i].prompt]]
  /\ Advance({r})
  /\ UNCHANGED <<driverVars, raised, error, data, shard, on_gpu, syncVars, engine>>

\* The engine fails while it generates: the leader leaves through __exit__.
GenerateFails(r) ==
  /\ At(r, "generate")
  /\ raised' = raised \cup {r}
  /\ engine' = [engine EXCEPT ![r \div TPSize].awake = FALSE]
  /\ UNCHANGED <<driverVars, pc, error, data, output, shard, on_gpu, syncVars>>

\* __exit__: release_memory_occupation
Release(r) ==
  /\ At(r, "release")
  /\ Operated(r, [engine[r \div TPSize] EXCEPT !.awake = FALSE])
  /\ UNCHANGED <<driverVars, raised, error, data, output, shard, on_gpu, syncVars>>

-----------------------------------------------------------------------------
\* Collectives: one step of all the ranks of a group.
Agree(r) ==
  LET R == Peers(r, AgreeSize) IN
  /\ \E op \in Agreements : Complete(r, op)
  /\ IF R \cap error # {}
     THEN raised' = raised \cup R /\ UNCHANGED pc
     ELSE Advance(R) /\ UNCHANGED raised
  /\ UNCHANGED <<driverVars, error, data, output, shard, on_gpu, syncVars, engine>>

\* DTensor.full_tensor, of the same parameter on all ranks
Gather(r) ==
  LET p == next[r] IN
  /\ Complete(r, "gather") /\ \A q \in Ranks : next[q] = p
  /\ full' = [q \in Ranks |-> [w \in Open(q) \cup {p} |->
                IF w = p THEN {shard[s] : s \in Ranks} ELSE full[q][w]]]
  /\ bytes' = [q \in Ranks |-> bytes[q] + Sizes[p]]
  /\ next' = [q \in Ranks |-> p + 1]
  /\ pc' = [q \in Ranks |-> AfterWeights(Open(q) \cup {p}, bytes'[q], p + 1)]
  /\ UNCHANGED <<driverVars, raised, error, data, output, shard, on_gpu, engine>>

\* all_gather_data_proto
Share(r) ==
  LET size == GroupSize("share")
      R    == Peers(r, size)
      rows == FlattenSeq([i \in 1 .. size |-> data[(r \div size) * size + i - 1]]) IN
  /\ Complete(r, "share")
  /\ data' = [q \in Ranks |-> IF q \in R THEN rows ELSE data[q]]
  /\ Advance(R)
  /\ UNCHANGED <<driverVars, raised, error, output, shard, on_gpu, syncVars, engine>>

\* broadcast_pyobj: a rank joins the leader's answers to its own prompts.
Broadcast(r) ==
  LET R == Peers(r, TPSize)
      answers == output[(r \div TPSize) * TPSize] IN
  /\ Complete(r, "broadcast")
  /\ data' = [q \in Ranks |->
                IF q \in R
                THEN [i \in 1 .. Len(data[q]) |-> [data[q][i] EXCEPT !.answer = answers[i]]]
                ELSE data[q]]
  /\ Advance(R)
  /\ UNCHANGED <<driverVars, raised, error, output, shard, on_gpu, syncVars, engine>>

\* actor.compute_log_prob: every rank scores its rows with all the shards.
Forward(r) ==
  /\ Complete(r, "forward")
  /\ data' = [q \in Ranks |->
                [i \in 1 .. Len(data[q]) |-> [data[q][i] EXCEPT !.answer = data[q][i].prompt]]]
  /\ Advance(Ranks)
  /\ UNCHANGED <<driverVars, raised, error, output, shard, on_gpu, syncVars, engine>>

\* actor.update_policy: all shards take the optimizer steps of the call.
Train(r) ==
  /\ Complete(r, "train")
  /\ shard' = [q \in Ranks |-> shard[q] + 1]
  /\ Advance(Ranks)
  /\ UNCHANGED <<driverVars, raised, error, data, output, on_gpu, syncVars, engine>>

Work ==
  \/ Collect \/ Fail
  \/ \E r \in Ranks :
       \/ Load(r) \/ Offload(r) \/ Restore(r) \/ Split(r)
       \/ Resume(r) \/ Push(r) \/ Flush(r) \/ OperationFails(r)
       \/ Generate(r) \/ GenerateFails(r) \/ Release(r)
       \/ Agree(r) \/ Gather(r) \/ Share(r) \/ Broadcast(r) \/ Forward(r) \/ Train(r)

Next == CallGenerate \/ CallTraining \/ CallLoad \/ Work

Spec == Init /\ [][Next]_vars /\ WF_vars(Work)

-----------------------------------------------------------------------------
GenerationFailed == \E r \in raised : pc[r] = "generate"

(* A call ends on every rank: whatever engine operation fails, no rank is  *)
(* left in a collective that a peer will never enter.  (An engine that     *)
(* fails while it generates does leave its group's other ranks behind.)    *)
EveryRankReturns ==
  driver = "busy" ~>
    \/ driver # "busy" /\ \A r \in Ranks : r \in raised \/ Returned(r)
    \/ GenerationFailed

(* An engine generates only with the weights of the last update, all its   *)
(* parameters and every shard of them, and with no cache of older ones.    *)
ServesNewestWeights ==
  \A r \in Ranks : At(r, "generate") =>
    /\ engine[r \div TPSize].awake /\ engine[r \div TPSize].fresh
    /\ \A p \in Params : engine[r \div TPSize].weights[p] = {version}

(* Masking, padding, splitting over ranks and gathering in groups is the   *)
(* identity on the rows that were asked for: each comes back at its own    *)
(* place, with the answer to its own prompt.                               *)
RowsComeBack ==
  driver = "idle" =>
    /\ call.kind = "generate" =>
         /\ Len(result) = Batch
         /\ \A i \in call.mask : result[i] = [prompt |-> i, answer |-> i]
    /\ call.kind = "compute_log_prob" =>
         result = [i \in 1 .. TrainRows |-> [prompt |-> i, answer |-> i]]

(* The device holds the engine's memory or what is offloaded of the        *)
(* actor's, never both, but for the weight sync: it is off all the devices *)
(* of an engine that generates, and the engine sleeps while the actor      *)
(* computes.                                                               *)
MemoryIsExclusive ==
  \A r \in Ranks :
    /\ At(r, "generate") => \A q \in Peers(r, TPSize) : on_gpu[q] \cap Offloaded = {}
    /\ At(r, "forward") \/ At(r, "train") => ~ engine[r \div TPSize].awake

=============================================================================
