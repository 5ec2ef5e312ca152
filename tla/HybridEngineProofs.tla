-------------------------- MODULE HybridEngineProofs --------------------------
(***************************************************************************)
(* What holds of HybridEngine for any number of ranks, any division into   *)
(* engines and sequences, any parameters and bucket size, and whichever    *)
(* engine operations fail: engines generate with the newest weights, their *)
(* memory and the actor's are never on a device together, the ranks meet   *)
(* in the same collectives, and every row that was asked for comes back    *)
(* answered at its own place.                                              *)
(*                                                                         *)
(* The argument: all ranks are in the same stretch of the weight sync with *)
(* the same bucket (InStep), so every gathered weight is of all shards,    *)
(* which are of one version (Shards); what has been gathered and is in no  *)
(* open bucket has reached the engine, unless its rank has seen a failure  *)
(* (Synced), and such a rank gets no further than the next agreement.      *)
(* For the rows: before each of its steps a rank holds a known stretch of  *)
(* the rows of the call, its own or its group's, asked or answered         *)
(* (RowsInPlace).                                                          *)
(***************************************************************************)
EXTENDS HybridEngine, FiniteSetTheorems, SequenceTheorems, TLAPS

\* Division with remainder.
LEMMA DivMod ==
  ASSUME NEW a \in Nat, NEW b \in Nat \ {0}
  PROVE  a \div b \in Nat /\ a % b \in 0 .. b - 1 /\ a = b * (a \div b) + (a % b)
  OBVIOUS

\* Multiples grow with their factor.
LEMMA Multiples ==
  ASSUME NEW a \in Nat, NEW b \in Nat, NEW n \in Nat \ {0}
  PROVE  /\ n * a \in Nat
         /\ a <= b => n * a <= n * b
         /\ a < b => n * a + n <= n * b
  <1>1. n * a \in Nat
    OBVIOUS
  <1>2. ASSUME a <= b PROVE n * a <= n * b
    BY <1>2
  <1>3. ASSUME a < b PROVE n * a + n <= n * b
    <2>1. n * (a + 1) <= n * b
      BY <1>3
    <2>2. n * (a + 1) = n * a + n
      OBVIOUS
    <2> QED
      BY <2>1, <2>2
  <1> QED
    BY <1>1, <1>2, <1>3

\* A rank has an engine,
LEMMA EngineOf ==
  ASSUME NEW r \in Ranks
  PROVE  r \div TPSize \in Engines
  <1> DEFINE d == r \div TPSize
             m == r % TPSize
             w == World \div TPSize
  <1>1. /\ World \in Nat \ {0} /\ TPSize \in Nat \ {0} /\ World % TPSize = 0
        /\ r \in Nat /\ r < World
    BY MeshAssumption DEF Ranks
  <1>2. d \in Nat /\ m \in 0 .. TPSize - 1 /\ r = TPSize * d + m
    BY <1>1, DivMod
  <1>3. w \in Nat /\ World = TPSize * w + 0
    BY <1>1, DivMod
  <1> HIDE DEF d, m, w
  <1>4. TPSize * d \in Nat /\ TPSize * w \in Nat /\ (w <= d => TPSize * w <= TPSize * d)
    BY <1>1, <1>2, <1>3, Multiples
  <1>5. d < w
    BY <1>1, <1>2, <1>3, <1>4
  <1> QED
    BY <1>2, <1>3, <1>5 DEF Engines, d, w

\* an engine one leader,
LEMMA OneLeader ==
  ASSUME NEW r \in Ranks, NEW q \in Ranks, Leader(r), Leader(q), r \div TPSize = q \div TPSize
  PROVE  r = q
  <1>1. TPSize \in Nat \ {0} /\ r \in Nat /\ q \in Nat
    BY MeshAssumption DEF Ranks
  <1>2. r = TPSize * (r \div TPSize) + (r % TPSize) /\ q = TPSize * (q \div TPSize) + (q % TPSize)
    BY <1>1, DivMod
  <1> QED
    BY <1>2 DEF Leader

\* and every engine has it.
LEMMA LeaderOf ==
  ASSUME NEW e \in Engines
  PROVE  \E r \in Ranks : Leader(r) /\ r \div TPSize = e
  <1> DEFINE w == World \div TPSize
             r == TPSize * e
  <1>1. World \in Nat \ {0} /\ TPSize \in Nat \ {0} /\ World % TPSize = 0
    BY MeshAssumption
  <1>2. w \in Nat /\ World = TPSize * w + 0
    BY <1>1, DivMod
  <1>3. e \in Nat /\ e < w
    BY <1>2 DEF Engines, w
  <1> HIDE DEF w
  <1>4. r \in Nat /\ r + TPSize <= TPSize * w /\ TPSize * w \in Nat
    BY <1>1, <1>2, <1>3, Multiples
  <1> DEFINE d == r \div TPSize
             m == r % TPSize
  <1>5. d \in Nat /\ m \in 0 .. TPSize - 1 /\ r = TPSize * d + m
    BY <1>1, <1>4, DivMod
  <1> HIDE DEF d, m
  <1>6. /\ TPSize * d \in Nat /\ (d < e => TPSize * d + TPSize <= TPSize * e)
        /\ (e < d => TPSize * e + TPSize <= TPSize * d)
    BY <1>1, <1>3, <1>5, Multiples
  <1> HIDE DEF r
  <1>7. d = e /\ m = 0
    <2>1. r = TPSize * e
      BY DEF r
    <2>2. ~ (d < e) /\ ~ (e < d)
      BY <1>1, <1>4, <1>5, <1>6, <2>1
    <2>3. d = e
      BY <2>2, <1>3, <1>5
    <2> QED
      BY <2>1, <2>3, <1>1, <1>4, <1>5
  <1>8. r \in Ranks
    BY <1>1, <1>2, <1>4 DEF Ranks
  <1> QED
    BY <1>7, <1>8 DEF d, m, Leader

\* A group of the size of the world is all the ranks.
LEMMA WholeGroup ==
  ASSUME NEW r \in Ranks
  PROVE  Peers(r, World) = Ranks
  <1>1. ASSUME NEW q \in Ranks PROVE q \div World = 0
    <2>1. World \in Nat \ {0} /\ q \in Nat /\ q < World
      BY MeshAssumption DEF Ranks
    <2> QED
      BY <2>1
  <1> QED
    BY <1>1 DEF Peers

-----------------------------------------------------------------------------
(* The inductive invariant.                                                *)

Awake(e)   == engine[e].awake
Fresh(e)   == engine[e].fresh
Weights(e) == engine[e].weights
Mine(r)    == r \div TPSize

Syncing == {"load", "resume", "resumed", "gather", "push", "pushed", "flush", "flushed"}
Past    == {"generate", "broadcast", "split", "release", "returned"}

\* The steps of a method.
StepsOf(kind) ==
  CASE kind = "generate"         -> Syncing \cup {"offload", "share"} \cup Past
    [] kind = "compute_log_prob" -> {"load", "share", "forward", "split", "offload", "returned"}
    [] kind = "update_actor"     -> {"load", "share", "train", "offload", "returned"}
    [] kind = "load_checkpoint"  -> {"load", "restore", "offload", "returned"}

Methods == {"generate", "compute_log_prob", "update_actor", "load_checkpoint"}

Buckets == UNION {[S -> SUBSET Nat] : S \in SUBSET Params}
EngineStates == [awake : BOOLEAN, fresh : BOOLEAN, weights : [Params -> SUBSET Nat]]
Steps == UNION {StepsOf(kind) : kind \in Methods}

Types ==
  /\ driver \in {"idle", "busy", "failed"}
  /\ call.kind \in Methods
  /\ pc \in [Ranks -> Steps]
  /\ raised \subseteq Ranks /\ error \subseteq Ranks
  /\ shard \in [Ranks -> Nat] /\ version \in Nat
  /\ on_gpu \in [Ranks -> SUBSET {"params", "optimizer"}]
  /\ next \in [Ranks -> Nat \ {0}] /\ bytes \in [Ranks -> Nat]
  /\ full \in [Ranks -> Buckets]
  /\ engine \in [Engines -> EngineStates]

\* Where the ranks are in the method that was called.
InMethod ==
  /\ \A r \in Ranks : pc[r] \in StepsOf(call.kind) /\ (pc[r] \in {"generate", "release"} => Leader(r))
  /\ \A r \in error : pc[r] \in Agreements
  /\ driver = "idle" => raised = {} /\ \A r \in Ranks : pc[r] = "returned"

\* Only a failed generation makes a part of the ranks raise.
Raising == \A r \in raised : pc[r] = "generate" \/ raised = Ranks

\* The shards are of the version the driver counts, or ahead by this call.
Shards ==
  \A r \in Ranks :
    /\ driver = "idle" \/ call.kind \in {"generate", "compute_log_prob"} => shard[r] = version
    /\ driver # "idle" /\ call.kind = "update_actor" =>
         shard[r] = IF pc[r] \in {"offload", "returned"} THEN version + 1 ELSE version
    /\ driver # "idle" /\ call.kind = "load_checkpoint" /\ pc[r] \in {"offload", "returned"} =>
         shard[r] = Saved

Off(r) == on_gpu[r] \cap Offloaded = {}

\* What is offloaded is off the device between calls, and when an engine is
\* about to generate.
Devices ==
  \A r \in Ranks :
    /\ pc[r] \in {"load", "returned"} => Off(r)
    /\ call.kind = "generate" /\ pc[r] \in {"share"} \cup Past => Off(r)
    /\ call.kind \in {"generate", "compute_log_prob"} => on_gpu[r] \cap Offloaded \subseteq {"params"}

\* The ranks of an engine share their rows together.
Groups ==
  call.kind = "generate" =>
    \A r, q \in Ranks : Mine(r) = Mine(q) => (pc[r] \in Past <=> pc[q] \in Past)

\* An engine is awake only inside of a rollout.
Asleep ==
  /\ driver = "idle" \/ call.kind # "generate" => \A e \in Engines : ~ Awake(e)
  /\ \A r \in Ranks : Leader(r) /\ pc[r] \in {"load", "resume", "returned"} => ~ Awake(Mine(r))

\* All weights have been gathered when the cache is flushed, and those of an
\* open bucket are of the newest version.
Bucketed ==
  \A r \in Ranks :
    /\ pc[r] \in {"load", "resume"} => next[r] = 1
    /\ pc[r] = "gather" => next[r] \in Params
    /\ Open(r) # {} => pc[r] \in {"gather", "push"}
    /\ Open(r) = {} => bytes[r] = 0
    /\ \A p \in Open(r) : full[r][p] = {version}
    /\ call.kind = "generate" /\ pc[r] \in {"flush", "flushed", "offload", "share", "generate"} =>
         next[r] > Len(Sizes)

Serving(r) == Leader(r) /\ r \notin error /\ r \notin raised /\ call.kind = "generate" /\ driver # "idle"

\* An engine whose operations have succeeded holds what was pushed to it.
Synced ==
  \A r \in Ranks : Serving(r) =>
    /\ pc[r] \in (Syncing \ {"load", "resume"}) \cup {"offload", "share", "generate"} =>
         /\ Awake(Mine(r))
         /\ \A p \in Params : p < next[r] /\ p \notin Open(r) => Weights(Mine(r))[p] = {version}
    /\ pc[r] \in {"flushed", "offload", "share", "generate"} => Fresh(Mine(r))

\* The stretches of a rollout between the meetings of all ranks.
Stage(op) ==
  CASE op \in {"load", "resume", "resumed"}  -> "resuming"
    [] op = "gather"                         -> "gathering"
    [] op \in {"push", "pushed"}             -> "pushing"
    [] op \in {"flush", "flushed"}           -> "flushing"
    [] op \in {"offload", "share"} \cup Past -> "synced"

\* All ranks are in the same stretch, with the same bucket.
InStep ==
  /\ \A r, q \in Ranks : next[r] = next[q]
  /\ call.kind = "generate" => \A r, q \in Ranks :
       /\ Stage(pc[r]) = Stage(pc[q])
       /\ pc[r] \in {"gather", "push"} /\ pc[q] = pc[r] => Open(r) = Open(q) /\ bytes[r] = bytes[q]

IInv ==
  /\ Types /\ InMethod /\ Raising /\ Shards /\ Devices
  /\ Groups /\ Asleep /\ Bucketed /\ Synced /\ InStep

-----------------------------------------------------------------------------
(* The steps.                                                              *)

\* The way through a rollout, step by step.
LEMMA PathOfGenerate ==
  ASSUME NEW r
  PROVE  /\ AfterInGenerate(r, "load") = "resume"
         /\ AfterInGenerate(r, "resume") = "resumed"
         /\ AfterInGenerate(r, "resumed") = AfterWeights(Open(r), bytes[r], next[r])
         /\ AfterInGenerate(r, "pushed") = AfterWeights(Open(r), bytes[r], next[r])
         /\ AfterInGenerate(r, "push") = "pushed"
         /\ AfterInGenerate(r, "flush") = "flushed"
         /\ AfterInGenerate(r, "flushed") = "offload"
         /\ AfterInGenerate(r, "offload") = "share"
         /\ AfterInGenerate(r, "share") = IF Leader(r) THEN "generate" ELSE "broadcast"
         /\ AfterInGenerate(r, "generate") = "broadcast"
         /\ AfterInGenerate(r, "broadcast") = "split"
         /\ AfterInGenerate(r, "split") = IF Leader(r) THEN "release" ELSE "returned"
         /\ AfterInGenerate(r, "release") = "returned"
  BY DEF AfterInGenerate

\* What follows a step is a step of the same method.
LEMMA AfterTyped ==
  ASSUME call.kind \in Methods, NEW r, NEW op \in StepsOf(call.kind), op \notin {"gather", "returned"}
  PROVE  /\ After(r, op) \in StepsOf(call.kind)
         /\ After(r, op) \in {"generate", "release"} => Leader(r)
  <1>1. \A open, n, p : AfterWeights(open, n, p) \in {"push", "flush", "gather"}
    BY DEF AfterWeights
  <1>2. CASE call.kind = "generate"
    <2> DEFINE a == AfterInGenerate(r, op)
               Good == a \in StepsOf("generate") /\ (a \in {"generate", "release"} => Leader(r))
    <2> SUFFICES Good
      BY <1>2 DEF After
    <2>1. CASE op \in {"resumed", "pushed"}
      <3>1. a \in {"push", "flush", "gather"}
        BY <1>1, <2>1, PathOfGenerate
      <3> QED
        BY <3>1 DEF StepsOf, Syncing, Past
    <2>2. CASE op \in {"load", "resume", "push", "flush", "flushed", "offload", "generate", "broadcast", "release"}
      BY <2>2, PathOfGenerate DEF StepsOf, Syncing, Past
    <2>3. CASE op \in {"share", "split"}
      BY <2>3, PathOfGenerate DEF StepsOf, Syncing, Past
    <2>4. op \in StepsOf("generate") \ {"gather", "returned"}
      BY <1>2
    <2>5. op \in {"resumed", "pushed", "share", "split"}
          \/ op \in {"load", "resume", "push", "flush", "flushed", "offload", "generate", "broadcast", "release"}
      BY <2>4 DEF StepsOf, Syncing, Past
    <2> QED
      BY <2>1, <2>2, <2>3, <2>5
  <1>3. CASE call.kind # "generate"
    BY <1>3 DEF After, AfterInActor, StepsOf, Methods
  <1> QED
    BY <1>2, <1>3

\* The ranks in R take step op.
Joint(R, op) ==
  /\ \A q \in R : At(q, op)
  /\ pc' = [q \in Ranks |-> IF q \in R THEN After(q, op) ELSE pc[q]]
  /\ UNCHANGED driverVars

\* A step of which only rows and answers are passed on.
Passing(R, op) ==
  /\ op \in {"split", "generate", "share", "broadcast", "forward"}
  /\ Joint(R, op)
  /\ op = "share" /\ call.kind = "generate" => \E r \in Ranks : R = Peers(r, TPSize)
  /\ UNCHANGED <<raised, error, shard, on_gpu, next, full, bytes, engine>>

\* A method is called.
Called(kind) ==
  /\ driver = "idle" /\ driver' = "busy" /\ call'.kind = kind
  /\ pc' = [r \in Ranks |-> "load"] /\ next' = [r \in Ranks |-> 1]
  /\ UNCHANGED <<version, raised, error, shard, on_gpu, full, bytes, engine>>

\* Ranks that arrive at a step and advance have taken it.
LEMMA JointStep ==
  ASSUME NEW op, NEW R, \A q \in R : At(q, op), Advance(R), UNCHANGED driverVars
  PROVE  Joint(R, op)
  <1>1. \A q \in R : pc[q] = op
    BY DEF At
  <1> QED
    BY <1>1 DEF Advance, Joint

\* The three calls are calls of a method.
LEMMA CallCases ==
  /\ CallGenerate => \E kind \in Methods : Called(kind)
  /\ CallTraining => \E kind \in Methods : Called(kind)
  /\ CallLoad => \E kind \in Methods : Called(kind)
  <1>1. ASSUME NEW kind, NEW mask, NEW rows, Dispatch(kind, mask, rows) PROVE Called(kind)
    BY <1>1 DEF Dispatch, Called
  <1>2. \A kind, mask, rows : Dispatch(kind, mask, rows) => Called(kind)
    BY <1>1
  <1> HIDE <1>1
  <1> QED
    BY <1>2 DEF CallGenerate, CallTraining, CallLoad, Methods

\* Five of the steps only pass on rows and answers.
LEMMA PassingCases ==
  ASSUME NEW r \in Ranks
  PROVE  Split(r) \/ Generate(r) \/ Share(r) \/ Broadcast(r) \/ Forward(r) =>
           \E R \in SUBSET Ranks : \E op : Passing(R, op)
  <1> DEFINE Rest == UNCHANGED <<raised, error, shard, on_gpu, next, full, bytes, engine>>
             Some == \E R \in SUBSET Ranks : \E op : Passing(R, op)
  <1>1. ASSUME Split(r) PROVE Some
    <2>1. At(r, "split") /\ Advance({r}) /\ UNCHANGED driverVars /\ Rest
      BY <1>1, Zenon DEF Split, syncVars
    <2>2. Joint({r}, "split")
      BY <2>1, JointStep
    <2> QED
      BY <2>1, <2>2 DEF Passing
  <1>2. ASSUME Generate(r) PROVE Some
    <2>1. At(r, "generate") /\ Advance({r}) /\ UNCHANGED driverVars /\ Rest
      BY <1>2, Zenon DEF Generate, syncVars
    <2>2. Joint({r}, "generate")
      BY <2>1, JointStep
    <2> QED
      BY <2>1, <2>2 DEF Passing
  <1>3. ASSUME Share(r) PROVE Some
    <2> DEFINE R == Peers(r, GroupSize("share"))
    <2>1. Complete(r, "share") /\ Advance(R) /\ UNCHANGED driverVars /\ Rest
      BY <1>3, Zenon DEF Share, syncVars
    <2>2. Joint(R, "share")
      BY <2>1, JointStep DEF Complete
    <2>3. call.kind = "generate" => R = Peers(r, TPSize)
      BY DEF GroupSize, Agreements
    <2>4. R \in SUBSET Ranks
      BY DEF Peers
    <2> HIDE DEF R
    <2> QED
      BY <2>1, <2>2, <2>3, <2>4 DEF Passing
  <1>4. ASSUME Broadcast(r) PROVE Some
    <2> DEFINE R == Peers(r, TPSize)
    <2>1. Complete(r, "broadcast") /\ Advance(R) /\ UNCHANGED driverVars /\ Rest
      BY <1>4, Zenon DEF Broadcast, syncVars
    <2>2. GroupSize("broadcast") = TPSize
      BY DEF GroupSize, Agreements
    <2>3. Joint(R, "broadcast")
      BY <2>1, <2>2, JointStep DEF Complete
    <2>4. R \in SUBSET Ranks
      BY DEF Peers
    <2> HIDE DEF R
    <2> QED
      BY <2>1, <2>3, <2>4 DEF Passing
  <1>5. ASSUME Forward(r) PROVE Some
    <2>1. Complete(r, "forward") /\ Advance(Ranks) /\ UNCHANGED driverVars /\ Rest
      BY <1>5, Zenon DEF Forward, syncVars
    <2>2. GroupSize("forward") = World
      BY DEF GroupSize, Agreements
    <2>3. Joint(Ranks, "forward")
      BY <2>1, <2>2, JointStep, WholeGroup DEF Complete
    <2> QED
      BY <2>1, <2>3 DEF Passing
  <1> QED
    BY <1>1, <1>2, <1>3, <1>4, <1>5

\* One of the ranks does something to its shard or its engine.
Changes(r) ==
  \/ Load(r) \/ Offload(r) \/ Restore(r) \/ Train(r)
  \/ Resume(r) \/ Push(r) \/ Flush(r) \/ OperationFails(r) \/ GenerateFails(r) \/ Release(r)
  \/ Agree(r) \/ Gather(r)

\* What a step of the specification is.
LEMMA StepCases ==
  ASSUME [Next]_vars
  PROVE  \/ \E kind \in Methods : Called(kind)
         \/ Collect \/ Fail \/ UNCHANGED vars
         \/ \E R \in SUBSET Ranks : \E op : Passing(R, op)
         \/ \E r \in Ranks : Changes(r)
  <1>1. CASE CallGenerate \/ CallTraining \/ CallLoad
    BY <1>1, CallCases
  <1>2. CASE Work
    <2>1. CASE Collect \/ Fail
      BY <2>1
    <2>2. ASSUME NEW r \in Ranks,
                 Split(r) \/ Generate(r) \/ Share(r) \/ Broadcast(r) \/ Forward(r)
          PROVE  \E R \in SUBSET Ranks : \E op : Passing(R, op)
      BY <2>2, PassingCases
    <2>3. Collect \/ Fail \/ \E r \in Ranks :
            Changes(r) \/ Split(r) \/ Generate(r) \/ Share(r) \/ Broadcast(r) \/ Forward(r)
      BY <1>2, Zenon DEF Work, Changes
    <2> QED
      BY <2>2, <2>3
  <1> QED
    BY <1>1, <1>2 DEF Next

\* The steps of one rank, and of all of them, as moves.
LEMMA OwnSteps ==
  ASSUME NEW r \in Ranks
  PROVE  /\ Load(r) => Joint({r}, "load")
         /\ Offload(r) => Joint({r}, "offload")
         /\ Restore(r) => Joint({r}, "restore")
         /\ Resume(r) => Joint({r}, "resume")
         /\ Push(r) => Joint({r}, "push")
         /\ Flush(r) => Joint({r}, "flush")
         /\ Release(r) => Joint({r}, "release")
         /\ OperationFails(r) => \E op \in {"resume", "push", "flush"} : Joint({r}, op)
  <1>1. \A op : At(r, op) /\ Advance({r}) /\ UNCHANGED driverVars => Joint({r}, op)
    BY JointStep
  <1>2. Load(r) => At(r, "load") /\ Advance({r}) /\ UNCHANGED driverVars
    BY Zenon DEF Load
  <1>3. Offload(r) => At(r, "offload") /\ Advance({r}) /\ UNCHANGED driverVars
    BY Zenon DEF Offload
  <1>4. Restore(r) => At(r, "restore") /\ Advance({r}) /\ UNCHANGED driverVars
    BY Zenon DEF Restore
  <1>5. Resume(r) => At(r, "resume") /\ Advance({r}) /\ UNCHANGED driverVars
    BY Zenon DEF Resume, Operated
  <1>6. Push(r) => At(r, "push") /\ Advance({r}) /\ UNCHANGED driverVars
    BY Zenon DEF Push, Operated
  <1>7. Flush(r) => At(r, "flush") /\ Advance({r}) /\ UNCHANGED driverVars
    BY Zenon DEF Flush, Operated
  <1>8. Release(r) => At(r, "release") /\ Advance({r}) /\ UNCHANGED driverVars
    BY Zenon DEF Release, Operated
  <1>9. OperationFails(r) =>
          /\ At(r, "resume") \/ At(r, "push") \/ At(r, "flush")
          /\ Advance({r}) /\ UNCHANGED driverVars
    BY Zenon DEF OperationFails
  <1> QED
    BY <1>1, <1>2, <1>3, <1>4, <1>5, <1>6, <1>7, <1>8, <1>9

\* Training is a move of all the ranks.
LEMMA TrainStep ==
  ASSUME NEW r \in Ranks, Train(r)
  PROVE  Joint(Ranks, "train")
  <1>1. Complete(r, "train") /\ Advance(Ranks) /\ UNCHANGED driverVars
    BY Zenon DEF Train
  <1>2. GroupSize("train") = World
    BY DEF GroupSize, Agreements
  <1> QED
    BY <1>1, <1>2, JointStep, WholeGroup DEF Complete

\* An agreement lets all ranks go on, or all of them raise.
LEMMA AgreeStep ==
  ASSUME NEW r \in Ranks, Agree(r)
  PROVE  /\ \E op \in Agreements :
              /\ \A q \in Ranks : At(q, op)
              /\ \/ raised' = raised \cup Ranks /\ pc' = pc
                 \/ raised' = raised /\ Ranks \cap error = {} /\ Joint(Ranks, op)
         /\ UNCHANGED <<driverVars, error, shard, on_gpu, next, full, bytes, engine>>
  <1>1. /\ \E op \in Agreements : Complete(r, op)
        /\ IF Peers(r, AgreeSize) \cap error # {}
           THEN raised' = raised \cup Peers(r, AgreeSize) /\ UNCHANGED pc
           ELSE Advance(Peers(r, AgreeSize)) /\ UNCHANGED raised
        /\ UNCHANGED <<driverVars, error, shard, on_gpu, next, full, bytes, engine>>
    BY Zenon DEF Agree, syncVars
  <1>2. Peers(r, AgreeSize) = Ranks
    BY WholeGroup DEF AgreeSize
  <1>3. PICK op \in Agreements : Complete(r, op)
    BY <1>1
  <1>4. Peers(r, GroupSize(op)) = Ranks
    BY <1>2 DEF GroupSize, Agreements
  <1>5. \A q \in Ranks : At(q, op)
    BY <1>3, <1>4 DEF Complete
  <1>6. ASSUME Ranks \cap error = {} PROVE raised' = raised /\ Joint(Ranks, op)
    BY <1>1, <1>2, <1>5, <1>6, JointStep
  <1> QED
    BY <1>1, <1>2, <1>5, <1>6

\* All ranks gather the same parameter, of which the engines may not know yet.
LEMMA GatherStep ==
  ASSUME NEW r \in Ranks, Gather(r)
  PROVE  /\ \A q \in Ranks : At(q, "gather") /\ next[q] = next[r]
         /\ full' = [q \in Ranks |-> [w \in Open(q) \cup {next[r]} |->
                       IF w = next[r] THEN {shard[s] : s \in Ranks} ELSE full[q][w]]]
         /\ bytes' = [q \in Ranks |-> bytes[q] + Sizes[next[r]]]
         /\ next' = [q \in Ranks |-> next[r] + 1]
         /\ pc' = [q \in Ranks |-> AfterWeights(Open(q) \cup {next[r]}, bytes'[q], next[r] + 1)]
         /\ UNCHANGED <<driverVars, raised, error, shard, on_gpu, engine>>
  <1>1. GroupSize("gather") = World
    BY DEF GroupSize, Agreements
  <1>2. Complete(r, "gather") /\ \A q \in Ranks : next[q] = next[r]
    BY Zenon DEF Gather
  <1>3. \A q \in Ranks : At(q, "gather")
    BY <1>1, <1>2, WholeGroup DEF Complete
  <1> QED
    BY <1>2, <1>3, Zenon DEF Gather

\* Where a move leaves the ranks.
LEMMA Moved ==
  ASSUME Types, InMethod, NEW R \in SUBSET Ranks, NEW op,
         op \notin {"gather", "returned"}, Joint(R, op)
  PROVE  /\ \A r \in R : pc[r] = op /\ r \notin raised /\ driver # "idle" /\ pc'[r] = After(r, op)
         /\ \A r \in Ranks : r \notin R => pc'[r] = pc[r]
         /\ \A r \in Ranks : pc'[r] \in StepsOf(call.kind) /\ (pc'[r] \in {"generate", "release"} => Leader(r))
         /\ pc' \in [Ranks -> Steps]
         /\ driver' = driver /\ call' = call /\ version' = version
  <1>1. \A r \in R : pc[r] = op /\ r \notin raised /\ driver # "idle" /\ pc'[r] = After(r, op)
    BY DEF Joint, At
  <1>2. \A r \in Ranks : r \notin R => pc'[r] = pc[r]
    BY DEF Joint
  <1>3. ASSUME NEW r \in Ranks
        PROVE  pc'[r] \in StepsOf(call.kind) /\ (pc'[r] \in {"generate", "release"} => Leader(r))
    <2>1. CASE r \in R
      <3>1. op \in StepsOf(call.kind) /\ call.kind \in Methods
        BY <1>1, <2>1 DEF InMethod, Types
      <3> QED
        BY <1>1, <2>1, <3>1, AfterTyped
    <2>2. CASE r \notin R
      BY <1>2, <2>2 DEF InMethod
    <2> QED
      BY <2>1, <2>2
  <1>4. pc' \in [Ranks -> Steps]
    <2>1. call.kind \in Methods
      BY DEF Types
    <2>2. \A r \in Ranks : pc'[r] \in Steps
      BY <1>3, <2>1 DEF Steps
    <2>3. DOMAIN pc' = Ranks /\ pc' = [r \in Ranks |-> pc'[r]]
      BY DEF Joint
    <2> QED
      BY <2>2, <2>3
  <1> QED
    BY <1>1, <1>2, <1>3, <1>4 DEF Joint, driverVars

-----------------------------------------------------------------------------
(* The invariant is inductive: each of its parts in turn.                  *)

\* What calls, collections and failures leave alone.
LEMMA DriverSteps ==
  /\ Collect => /\ driver = "busy" /\ driver' = "idle" /\ \A r \in Ranks : Returned(r)
                /\ version' = CASE call.kind = "update_actor" -> version + 1
                                [] call.kind = "load_checkpoint" -> Saved
                                [] OTHER -> version
                /\ UNCHANGED <<call, pc, raised, error, shard, on_gpu, next, full, bytes, engine>>
  /\ Fail => /\ driver = "busy" /\ driver' = "failed"
             /\ UNCHANGED <<call, version, pc, raised, error, shard, on_gpu, next, full, bytes, engine>>
  /\ UNCHANGED vars =>
       UNCHANGED <<driver, call, version, pc, raised, error, shard, on_gpu, next, full, bytes, engine>>
  <1>1. Collect => /\ driver = "busy" /\ driver' = "idle" /\ \A r \in Ranks : Returned(r)
                   /\ version' = CASE call.kind = "update_actor" -> version + 1
                                   [] call.kind = "load_checkpoint" -> Saved
                                   [] OTHER -> version
                   /\ UNCHANGED <<call, pc, raised, error, shard, on_gpu, next, full, bytes, engine>>
    BY Zenon DEF Collect, rankVars, syncVars
  <1>2. Fail => /\ driver = "busy" /\ driver' = "failed"
                /\ UNCHANGED <<call, version, pc, raised, error, shard, on_gpu, next, full, bytes, engine>>
    BY Zenon DEF Fail, rankVars, syncVars
  <1>3. UNCHANGED vars =>
          UNCHANGED <<driver, call, version, pc, raised, error, shard, on_gpu, next, full, bytes, engine>>
    BY Zenon DEF vars, driverVars, rankVars, syncVars
  <1> QED
    BY <1>1, <1>2, <1>3

\* The ranks stay in the method that was called.
LEMMA MethodKept ==
  ASSUME IInv, [Next]_vars
  PROVE  InMethod'
  <1> USE DEF IInv
  <1> DEFINE M(r) == pc[r] \in StepsOf(call.kind) /\ (pc[r] \in {"generate", "release"} => Leader(r))
             L(r) == pc'[r] \in StepsOf(call'.kind) /\ (pc'[r] \in {"generate", "release"} => Leader(r))
             Goal == /\ \A r \in Ranks : L(r)
                     /\ \A r \in error' : pc'[r] \in Agreements
                     /\ driver' = "idle" => raised' = {} /\ \A r \in Ranks : pc'[r] = "returned"
  <1>0. /\ \A r \in Ranks : M(r)
        /\ \A r \in error : pc[r] \in Agreements
        /\ driver = "idle" => raised = {} /\ \A r \in Ranks : pc[r] = "returned"
        /\ error \subseteq Ranks /\ raised \subseteq Ranks
    BY DEF InMethod, Types
  <1> SUFFICES Goal
    BY DEF InMethod
  <1>1. ASSUME NEW kind \in Methods, Called(kind) PROVE Goal
    <2>1. error = {}
      BY <1>0, <1>1 DEF Called, Agreements
    <2>2. driver' = "busy" /\ call'.kind = kind /\ error' = error /\ \A r \in Ranks : pc'[r] = "load"
      BY <1>1 DEF Called
    <2>3. "load" \in StepsOf(kind)
      BY DEF StepsOf, Methods, Syncing
    <2> QED
      BY <2>1, <2>2, <2>3
  <1>2. ASSUME Collect PROVE Goal
    <2>1. \A r \in Ranks : r \notin raised /\ pc[r] = "returned"
      BY <1>2, DriverSteps DEF Returned
    <2> QED
      BY <1>0, <1>2, <2>1, DriverSteps
  <1>3. ASSUME Fail \/ UNCHANGED vars PROVE Goal
    BY <1>0, <1>3, DriverSteps
  <1>4. ASSUME NEW R \in SUBSET Ranks, NEW op, op \notin {"gather", "returned"}, Joint(R, op),
               raised' = raised, \A r \in error' : r \in error \/ (r \in R /\ op \in {"resume", "push", "flush"}),
               R \cap error = {}
        PROVE  Goal
    <2>1. /\ \A r \in R : pc[r] = op /\ r \notin raised /\ driver # "idle" /\ pc'[r] = After(r, op)
          /\ \A r \in Ranks : r \notin R => pc'[r] = pc[r]
          /\ \A r \in Ranks : L(r)
          /\ driver' = driver /\ call' = call
      BY <1>4, Moved
    <2>2. ASSUME NEW r \in error' PROVE pc'[r] \in Agreements
      <3>1. CASE r \in error
        BY <1>0, <1>4, <2>1, <3>1
      <3>2. CASE r \in R /\ op \in {"resume", "push", "flush"}
        <4>1. call.kind = "generate"
          BY <1>0, <2>1, <3>2 DEF StepsOf, Types, Methods
        <4>2. After(r, op) \in Agreements
          BY <3>2, <4>1, PathOfGenerate DEF After, Agreements
        <4> QED
          BY <2>1, <3>2, <4>2
      <3> QED
        BY <1>4, <2>2, <3>1, <3>2
    <2>3. ASSUME driver' = "idle" PROVE raised' = {} /\ \A r \in Ranks : pc'[r] = "returned"
      BY <1>0, <1>4, <2>1, <2>3
    <2> QED
      BY <2>1, <2>2, <2>3
  <1>5. \A op, R : Joint(R, op) /\ R \in SUBSET Ranks /\ op \notin Agreements => R \cap error = {}
    BY <1>0 DEF Joint, At
  <1>6. ASSUME NEW R \in SUBSET Ranks, NEW op, Passing(R, op) PROVE Goal
    <2>1. op \notin {"gather", "returned"} \cup Agreements /\ Joint(R, op) /\ raised' = raised /\ error' = error
      BY <1>6 DEF Passing, Agreements
    <2> QED
      BY <1>4, <1>5, <2>1
  <1>7. ASSUME NEW r \in Ranks, Changes(r) PROVE Goal
    <2>1. ASSUME NEW op, Joint({r}, op), op \notin Agreements \cup {"gather", "returned"},
                 raised' = raised, error' = error
          PROVE  Goal
      <3>1. {r} \cap error = {}
        BY <1>5, <2>1
      <3> QED
        BY <1>4, <2>1, <3>1
    <2>2. \A op : Joint({r}, op) /\ op \notin Agreements \cup {"gather", "returned"}
                  /\ raised' = raised /\ error' = error => Goal
      BY <2>1
    <2> HIDE DEF Goal
    <2> HIDE <2>1
    <2>3. /\ "load" \notin Agreements \cup {"gather", "returned"} /\ "offload" \notin Agreements \cup {"gather", "returned"}
          /\ "restore" \notin Agreements \cup {"gather", "returned"} /\ "resume" \notin Agreements \cup {"gather", "returned"}
          /\ "push" \notin Agreements \cup {"gather", "returned"} /\ "flush" \notin Agreements \cup {"gather", "returned"}
          /\ "release" \notin Agreements \cup {"gather", "returned"} /\ "train" \notin Agreements \cup {"gather", "returned"}
      BY DEF Agreements
    <2>4. CASE Load(r)
      BY <2>2, <2>3, <2>4, OwnSteps, Zenon DEF Load
    <2>5. CASE Offload(r)
      BY <2>2, <2>3, <2>5, OwnSteps, Zenon DEF Offload
    <2>6. CASE Restore(r)
      BY <2>2, <2>3, <2>6, OwnSteps, Zenon DEF Restore
    <2>7. CASE Resume(r)
      BY <2>2, <2>3, <2>7, OwnSteps, Zenon DEF Resume
    <2>8. CASE Push(r)
      BY <2>2, <2>3, <2>8, OwnSteps, Zenon DEF Push
    <2>9. CASE Flush(r)
      BY <2>2, <2>3, <2>9, OwnSteps, Zenon DEF Flush
    <2>10. CASE Release(r)
      BY <2>2, <2>3, <2>10, OwnSteps, Zenon DEF Release
    <2>11. CASE Train(r)
      <3>1. Joint(Ranks, "train")
        BY <2>11, TrainStep
      <3>2. raised' = raised /\ error' = error
        BY <2>11, Zenon DEF Train
      <3>3. Ranks \cap error = {}
        BY <1>5, <2>3, <3>1
      <3> QED
        BY <1>4, <2>3, <3>1, <3>2, <3>3
    <2>12. CASE OperationFails(r)
      <3>1. PICK op \in {"resume", "push", "flush"} : Joint({r}, op)
        BY <2>12, OwnSteps
      <3>2. raised' = raised /\ error' = error \cup {r}
        BY <2>12, Zenon DEF OperationFails
      <3>3. op \notin Agreements \cup {"gather", "returned"}
        BY DEF Agreements
      <3>4. {r} \cap error = {}
        BY <1>5, <3>1, <3>3
      <3> QED
        BY <1>4, <3>1, <3>2, <3>3, <3>4
    <2>13. CASE GenerateFails(r)
      <3>1. driver # "idle" /\ driver' = driver /\ call' = call /\ pc' = pc /\ error' = error
        BY <2>13, Zenon DEF GenerateFails, At, driverVars
      <3> QED
        BY <1>0, <3>1 DEF Goal
    <2>14. CASE Agree(r)
      <3>1. PICK op \in Agreements :
              /\ \A q \in Ranks : At(q, op)
              /\ \/ raised' = raised \cup Ranks /\ pc' = pc
                 \/ raised' = raised /\ Ranks \cap error = {} /\ Joint(Ranks, op)
        BY <2>14, AgreeStep
      <3>2. driver # "idle" /\ driver' = driver /\ call' = call /\ error' = error
        BY <2>14, <3>1, AgreeStep DEF At, driverVars
      <3>3. CASE pc' = pc
        BY <1>0, <3>2, <3>3 DEF Goal
      <3>4. CASE raised' = raised /\ Ranks \cap error = {} /\ Joint(Ranks, op)
        <4>1. op \notin {"gather", "returned"}
          BY DEF Agreements
        <4> QED
          BY <1>4, <3>2, <3>4, <4>1
      <3> QED
        BY <3>1, <3>3, <3>4
    <2>15. CASE Gather(r)
      <3>1. /\ \A q \in Ranks : At(q, "gather")
            /\ \A q \in Ranks : pc'[q] = AfterWeights(Open(q) \cup {next[r]}, bytes'[q], next[r] + 1)
            /\ driver' = driver /\ call' = call /\ error' = error
        BY <2>15, GatherStep DEF driverVars
      <3>2. \A q \in Ranks : pc'[q] \in {"push", "flush", "gather"}
        BY <3>1 DEF AfterWeights
      <3>3. driver # "idle" /\ error = {} /\ call.kind = "generate"
        <4>1. At(r, "gather") /\ pc[r] = "gather" /\ "gather" \in StepsOf(call.kind) /\ call.kind \in Methods
          BY <1>0, <3>1 DEF At, Types
        <4>2. \A q \in Ranks : q \notin error
          BY <1>0, <3>1 DEF At, Agreements
        <4> QED
          BY <1>0, <4>1, <4>2 DEF StepsOf, Methods, At
      <3>4. {"push", "flush", "gather"} \subseteq StepsOf("generate")
        BY DEF StepsOf, Syncing
      <3>5. \A q \in Ranks : L(q)
        BY <3>1, <3>2, <3>3, <3>4
      <3> QED
        BY <3>1, <3>3, <3>5 DEF Goal
    <2> QED
      BY <1>7, <2>4, <2>5, <2>6, <2>7, <2>8, <2>9, <2>10, <2>11, <2>12, <2>13, <2>14, <2>15, Zenon DEF Changes
  <1> QED
    BY <1>1, <1>2, <1>3, <1>6, <1>7, StepCases

\* What each change does to the shards, the devices and the buckets.
LEMMA Frames ==
  ASSUME NEW r \in Ranks
  PROVE  /\ Load(r) =>
              /\ on_gpu' = [on_gpu EXCEPT ![r] = @ \cup
                   (IF call.kind = "update_actor" THEN {"params", "optimizer"} ELSE {"params"})]
              /\ UNCHANGED <<raised, error, shard, next, full, bytes, engine>>
         /\ Offload(r) =>
              /\ on_gpu' = [on_gpu EXCEPT ![r] = @ \ PartsOffloaded(call.kind)]
              /\ UNCHANGED <<raised, error, shard, next, full, bytes, engine>>
         /\ Restore(r) =>
              /\ shard' = [shard EXCEPT ![r] = Saved]
              /\ on_gpu' = [on_gpu EXCEPT ![r] = @ \cup {"optimizer"}]
              /\ UNCHANGED <<raised, error, next, full, bytes, engine>>
         /\ Train(r) =>
              /\ shard' = [q \in Ranks |-> shard[q] + 1]
              /\ UNCHANGED <<raised, error, on_gpu, next, full, bytes, engine>>
         /\ Resume(r) \/ Flush(r) \/ Release(r) =>
              UNCHANGED <<raised, error, shard, on_gpu, next, full, bytes>>
         /\ Push(r) =>
              /\ full' = [full EXCEPT ![r] = EmptyBucket] /\ bytes' = [bytes EXCEPT ![r] = 0]
              /\ UNCHANGED <<raised, error, shard, on_gpu, next>>
         /\ OperationFails(r) =>
              /\ Leader(r) /\ error' = error \cup {r}
              /\ full' = [full EXCEPT ![r] = EmptyBucket] /\ bytes' = [bytes EXCEPT ![r] = 0]
              /\ UNCHANGED <<raised, shard, on_gpu, next, engine>>
         /\ GenerateFails(r) =>
              /\ pc[r] = "generate" /\ raised' = raised \cup {r}
              /\ UNCHANGED <<driverVars, pc, error, shard, on_gpu, next, full, bytes>>
  <1>1. Load(r) =>
          /\ on_gpu' = [on_gpu EXCEPT ![r] = @ \cup
               (IF call.kind = "update_actor" THEN {"params", "optimizer"} ELSE {"params"})]
          /\ UNCHANGED <<raised, error, shard, next, full, bytes, engine>>
    BY Zenon DEF Load, syncVars
  <1>2. Offload(r) =>
          /\ on_gpu' = [on_gpu EXCEPT ![r] = @ \ PartsOffloaded(call.kind)]
          /\ UNCHANGED <<raised, error, shard, next, full, bytes, engine>>
    BY Zenon DEF Offload, syncVars
  <1>3. Restore(r) =>
          /\ shard' = [shard EXCEPT ![r] = Saved]
          /\ on_gpu' = [on_gpu EXCEPT ![r] = @ \cup {"optimizer"}]
          /\ UNCHANGED <<raised, error, next, full, bytes, engine>>
    BY Zenon DEF Restore, syncVars
  <1>4. Train(r) =>
          /\ shard' = [q \in Ranks |-> shard[q] + 1]
          /\ UNCHANGED <<raised, error, on_gpu, next, full, bytes, engine>>
    BY Zenon DEF Train, syncVars
  <1>5. Resume(r) \/ Flush(r) \/ Release(r) =>
          UNCHANGED <<raised, error, shard, on_gpu, next, full, bytes>>
    BY Zenon DEF Resume, Flush, Release, syncVars
  <1>6. Push(r) =>
          /\ full' = [full EXCEPT ![r] = EmptyBucket] /\ bytes' = [bytes EXCEPT ![r] = 0]
          /\ UNCHANGED <<raised, error, shard, on_gpu, next>>
    BY Zenon DEF Push, Emptied
  <1>7. OperationFails(r) =>
          /\ Leader(r) /\ error' = error \cup {r}
          /\ full' = [full EXCEPT ![r] = EmptyBucket] /\ bytes' = [bytes EXCEPT ![r] = 0]
          /\ UNCHANGED <<raised, shard, on_gpu, next, engine>>
    BY Zenon DEF OperationFails, Emptied
  <1>8. GenerateFails(r) =>
          /\ pc[r] = "generate" /\ raised' = raised \cup {r}
          /\ UNCHANGED <<driverVars, pc, error, shard, on_gpu, next, full, bytes>>
    BY Zenon DEF GenerateFails, At, syncVars
  <1> QED
    BY <1>1, <1>2, <1>3, <1>4, <1>5, <1>6, <1>7, <1>8

\* What each change does to the engines.
LEMMA EngineFrames ==
  ASSUME Types, InMethod, NEW r \in Ranks, NEW e \in Engines
  PROVE  /\ Resume(r) =>
              /\ Awake(e)' <=> Awake(e) \/ (Leader(r) /\ e = Mine(r))
              /\ (Fresh(e)' <=> Fresh(e)) /\ Weights(e)' = Weights(e)
         /\ Push(r) =>
              /\ Awake(e)' <=> Awake(e)
              /\ Fresh(e)' => Fresh(e)
              /\ ~ (Leader(r) /\ e = Mine(r)) => (Fresh(e)' <=> Fresh(e)) /\ Weights(e)' = Weights(e)
              /\ Leader(r) /\ e = Mine(r) => \A p \in Params :
                   Weights(e)'[p] = IF p \in Open(r) THEN full[r][p] ELSE Weights(e)[p]
         /\ Flush(r) =>
              /\ Awake(e)' <=> Awake(e)
              /\ (Fresh(e)' <=> Fresh(e) \/ (Leader(r) /\ e = Mine(r))) /\ Weights(e)' = Weights(e)
         /\ Release(r) \/ GenerateFails(r) =>
              /\ Awake(e)' <=> Awake(e) /\ ~ (Leader(r) /\ e = Mine(r))
              /\ (Fresh(e)' <=> Fresh(e)) /\ Weights(e)' = Weights(e)
  <1> DEFINE d == r \div TPSize
             Kept == engine'[e] = engine[e]
  <1>1. d \in Engines /\ Mine(r) = d
    BY EngineOf DEF Mine
  <1>2. engine \in [Engines -> EngineStates] /\ engine[d] \in EngineStates /\ engine[e] \in EngineStates
    BY <1>1 DEF Types
  <1> HIDE DEF d
  <1>3. ASSUME NEW new \in EngineStates,
               engine' = IF Leader(r) THEN [engine EXCEPT ![d] = new] ELSE engine
        PROVE  engine'[e] = IF Leader(r) /\ e = d THEN new ELSE engine[e]
    BY <1>1, <1>2, <1>3
  <1>4. \A new \in EngineStates : engine' = (IF Leader(r) THEN [engine EXCEPT ![d] = new] ELSE engine) =>
          engine'[e] = IF Leader(r) /\ e = d THEN new ELSE engine[e]
    BY <1>3
  <1> HIDE <1>3
  <1>5. ASSUME Resume(r)
        PROVE  engine'[e] = IF Leader(r) /\ e = d THEN [engine[d] EXCEPT !.awake = TRUE] ELSE engine[e]
    <2>1. engine' = IF Leader(r) THEN [engine EXCEPT ![d] = [engine[d] EXCEPT !.awake = TRUE]] ELSE engine
      BY <1>5, Zenon DEF Resume, Operated, d
    <2>2. [engine[d] EXCEPT !.awake = TRUE] \in EngineStates
      BY <1>2 DEF EngineStates
    <2> QED
      BY <1>4, <2>1, <2>2
  <1>6. ASSUME Flush(r)
        PROVE  engine'[e] = IF Leader(r) /\ e = d THEN [engine[d] EXCEPT !.fresh = TRUE] ELSE engine[e]
    <2>1. engine' = IF Leader(r) THEN [engine EXCEPT ![d] = [engine[d] EXCEPT !.fresh = TRUE]] ELSE engine
      BY <1>6, Zenon DEF Flush, Operated, d
    <2>2. [engine[d] EXCEPT !.fresh = TRUE] \in EngineStates
      BY <1>2 DEF EngineStates
    <2> QED
      BY <1>4, <2>1, <2>2
  <1>7. ASSUME Release(r) \/ GenerateFails(r)
        PROVE  engine'[e] = IF Leader(r) /\ e = d THEN [engine[d] EXCEPT !.awake = FALSE] ELSE engine[e]
    <2> DEFINE new == [engine[d] EXCEPT !.awake = FALSE]
    <2>1. engine' = IF Leader(r) THEN [engine EXCEPT ![d] = new] ELSE engine
      <3>1. CASE Release(r)
        BY <3>1, Zenon DEF Release, Operated, d
      <3>2. CASE GenerateFails(r)
        <4>1. engine' = [engine EXCEPT ![d].awake = FALSE] /\ pc[r] = "generate"
          BY <3>2, Zenon DEF GenerateFails, d, At
        <4>2. Leader(r)
          BY <4>1 DEF InMethod
        <4> QED
          BY <4>1, <4>2
      <3> QED
        BY <1>7, <3>1, <3>2
    <2>2. new \in EngineStates
      BY <1>2 DEF EngineStates
    <2> QED
      BY <1>4, <2>1, <2>2
  <1>8. ASSUME Push(r)
        PROVE  engine'[e] = IF Leader(r) /\ e = d
                            THEN [engine[d] EXCEPT !.fresh = FALSE,
                                    !.weights = [p \in Params |-> IF p \in Open(r) THEN full[r][p] ELSE engine[d].weights[p]]]
                            ELSE engine[e]
    <2> DEFINE new == [engine[d] EXCEPT !.fresh = FALSE,
                         !.weights = [p \in Params |-> IF p \in Open(r) THEN full[r][p] ELSE engine[d].weights[p]]]
    <2>1. engine' = IF Leader(r) THEN [engine EXCEPT ![d] = new] ELSE engine
      BY <1>8, Zenon DEF Push, Operated, d
    <2>2. ASSUME NEW p \in Params PROVE (IF p \in Open(r) THEN full[r][p] ELSE engine[d].weights[p]) \in SUBSET Nat
      <3>1. PICK S \in SUBSET Params : full[r] \in [S -> SUBSET Nat]
        BY DEF Types, Buckets
      <3> QED
        BY <1>2, <3>1 DEF Open, EngineStates
    <2>3. new \in EngineStates
      BY <1>2, <2>2 DEF EngineStates
    <2> HIDE DEF new
    <2>4. engine'[e] = IF Leader(r) /\ e = d THEN new ELSE engine[e]
      BY <1>4, <2>1, <2>3
    <2> QED
      BY <2>4 DEF new
  <1>9. Resume(r) =>
          /\ Awake(e)' <=> Awake(e) \/ (Leader(r) /\ e = d)
          /\ (Fresh(e)' <=> Fresh(e)) /\ Weights(e)' = Weights(e)
    BY <1>2, <1>5 DEF Awake, Fresh, Weights, EngineStates
  <1>10. Flush(r) =>
          /\ Awake(e)' <=> Awake(e)
          /\ (Fresh(e)' <=> Fresh(e) \/ (Leader(r) /\ e = d)) /\ Weights(e)' = Weights(e)
    BY <1>2, <1>6 DEF Awake, Fresh, Weights, EngineStates
  <1>11. Release(r) \/ GenerateFails(r) =>
          /\ Awake(e)' <=> Awake(e) /\ ~ (Leader(r) /\ e = d)
          /\ (Fresh(e)' <=> Fresh(e)) /\ Weights(e)' = Weights(e)
    BY <1>2, <1>7 DEF Awake, Fresh, Weights, EngineStates
  <1>12. Push(r) =>
          /\ Awake(e)' <=> Awake(e)
          /\ Fresh(e)' => Fresh(e)
          /\ ~ (Leader(r) /\ e = d) => (Fresh(e)' <=> Fresh(e)) /\ Weights(e)' = Weights(e)
          /\ Leader(r) /\ e = d => \A p \in Params :
               Weights(e)'[p] = IF p \in Open(r) THEN full[r][p] ELSE Weights(e)[p]
    <2> DEFINE w == [p \in Params |-> IF p \in Open(r) THEN full[r][p] ELSE engine[d].weights[p]]
    <2>1. ASSUME Push(r), Leader(r), e = d
          PROVE  engine'[e] = [engine[d] EXCEPT !.fresh = FALSE, !.weights = w]
      BY <1>8, <2>1
    <2>2. \A p \in Params : w[p] = IF p \in Open(r) THEN full[r][p] ELSE engine[d].weights[p]
      OBVIOUS
    <2> HIDE DEF w
    <2>3. ASSUME Push(r), Leader(r), e = d
          PROVE  (Awake(e)' <=> Awake(e)) /\ (Fresh(e)' => Fresh(e)) /\ Weights(e)' = w
      BY <1>2, <2>1, <2>3 DEF Awake, Fresh, Weights, EngineStates
    <2>4. ASSUME Push(r), ~ (Leader(r) /\ e = d) PROVE engine'[e] = engine[e]
      BY <1>8, <2>4
    <2> QED
      BY <2>2, <2>3, <2>4 DEF Awake, Fresh, Weights
  <1> QED
    BY <1>1, <1>9, <1>10, <1>11, <1>12

\* All shards are gathered, of a parameter there is.
LEMMA GatherTyped ==
  ASSUME IInv, NEW r \in Ranks, Gather(r)
  PROVE  /\ call.kind = "generate" /\ driver # "idle"
         /\ next[r] \in Params /\ {shard[s] : s \in Ranks} = {version}
         /\ \A q \in Ranks : pc[q] = "gather" /\ q \notin error
         /\ \A q \in Ranks : pc'[q] \in {"push", "flush", "gather"}
         /\ \A q \in Ranks : Open(q) = Open(r) /\ bytes[q] = bytes[r] /\ next[q] = next[r]
  <1> USE DEF IInv
  <1>1. /\ \A q \in Ranks : At(q, "gather") /\ next[q] = next[r]
        /\ pc' = [q \in Ranks |-> AfterWeights(Open(q) \cup {next[r]}, bytes'[q], next[r] + 1)]
    BY GatherStep
  <1>2. \A q \in Ranks : pc[q] = "gather" /\ q \notin error /\ driver # "idle"
    BY <1>1 DEF At, InMethod, Agreements
  <1>3. call.kind = "generate"
    BY <1>2 DEF InMethod, Types, Methods, StepsOf
  <1>4. next[r] \in Params
    BY <1>2 DEF Bucketed
  <1>5. {shard[s] : s \in Ranks} = {version}
    BY <1>3 DEF Shards
  <1>6. \A q \in Ranks : pc'[q] \in {"push", "flush", "gather"}
    BY <1>1 DEF AfterWeights
  <1>7. \A q \in Ranks : Open(q) = Open(r) /\ bytes[q] = bytes[r]
    BY <1>2, <1>3 DEF InStep
  <1> QED
    BY <1>1, <1>2, <1>3, <1>4, <1>5, <1>6, <1>7

\* The variables keep their types.
LEMMA TypesKept ==
  ASSUME IInv, [Next]_vars
  PROVE  Types'
  <1> USE DEF IInv
  <1> DEFINE Driven == driver' \in {"idle", "busy", "failed"} /\ call'.kind \in Methods
             Placed == pc' \in [Ranks -> Steps]
             Failing == raised' \subseteq Ranks /\ error' \subseteq Ranks
             Sharded == shard' \in [Ranks -> Nat] /\ version' \in Nat
             Loaded == on_gpu' \in [Ranks -> SUBSET {"params", "optimizer"}]
             Filled == next' \in [Ranks -> Nat \ {0}] /\ bytes' \in [Ranks -> Nat] /\ full' \in [Ranks -> Buckets]
             Engined == engine' \in [Engines -> EngineStates]
             Goal == Driven /\ Placed /\ Failing /\ Sharded /\ Loaded /\ Filled /\ Engined
  <1>0. /\ driver \in {"idle", "busy", "failed"} /\ call.kind \in Methods
        /\ pc \in [Ranks -> Steps] /\ raised \subseteq Ranks /\ error \subseteq Ranks
        /\ shard \in [Ranks -> Nat] /\ version \in Nat
        /\ on_gpu \in [Ranks -> SUBSET {"params", "optimizer"}]
        /\ next \in [Ranks -> Nat \ {0}] /\ bytes \in [Ranks -> Nat] /\ full \in [Ranks -> Buckets]
        /\ engine \in [Engines -> EngineStates]
    BY DEF Types, Buckets, EngineStates, Steps
  <1> SUFFICES Goal
    BY DEF Types, Buckets, EngineStates, Steps
  <1>1. ASSUME NEW kind \in Methods, Called(kind) PROVE Goal
    <2>1. "load" \in Steps
      BY <1>1 DEF Steps, StepsOf, Methods, Syncing
    <2> QED
      BY <1>0, <1>1, <2>1 DEF Called
  <1>2. ASSUME Collect PROVE Goal
    <2>1. Saved \in Nat
      BY MeshAssumption
    <2>2. version' \in Nat
      BY <1>0, <1>2, <2>1, DriverSteps
    <2> QED
      BY <1>0, <1>2, <2>2, DriverSteps
  <1>3. ASSUME Fail \/ UNCHANGED vars PROVE Goal
    BY <1>0, <1>3, DriverSteps
  <1>4. ASSUME NEW R \in SUBSET Ranks, NEW op, op \notin {"gather", "returned"}, Joint(R, op)
        PROVE  Driven /\ Placed /\ version' \in Nat
    BY <1>0, <1>4, Moved DEF Steps
  <1>5. ASSUME NEW R \in SUBSET Ranks, NEW op, Passing(R, op) PROVE Goal
    <2>1. /\ op \notin {"gather", "returned"} /\ Joint(R, op)
          /\ UNCHANGED <<raised, error, shard, on_gpu, next, full, bytes, engine>>
      BY <1>5 DEF Passing
    <2> QED
      BY <1>0, <1>4, <2>1
  <1>6. ASSUME NEW r \in Ranks, Changes(r) PROVE Goal
    <2>1. \A op : Joint({r}, op) /\ op \notin {"gather", "returned"} => Driven /\ Placed /\ version' \in Nat
      BY <1>4
    <2> HIDE <1>4
    <2>2. EmptyBucket \in Buckets
      BY DEF EmptyBucket, Buckets
    <2>3. r \div TPSize \in Engines
      BY EngineOf
    <2>4. engine[r \div TPSize] \in EngineStates
      BY <1>0, <2>3
    <2>5. CASE Load(r)
      <3>1. Driven /\ Placed /\ version' \in Nat
        BY <2>1, <2>5, OwnSteps
      <3>2. Loaded
        BY <1>0, <2>5, Frames
      <3> QED
        BY <1>0, <2>5, <3>1, <3>2, Frames
    <2>6. CASE Offload(r)
      <3>1. Driven /\ Placed /\ version' \in Nat
        BY <2>1, <2>6, OwnSteps
      <3>2. Loaded
        BY <1>0, <2>6, Frames
      <3> QED
        BY <1>0, <2>6, <3>1, <3>2, Frames
    <2>7. CASE Restore(r)
      <3>1. Driven /\ Placed /\ version' \in Nat
        BY <2>1, <2>7, OwnSteps
      <3>2. Loaded
        BY <1>0, <2>7, Frames
      <3>3. shard' \in [Ranks -> Nat]
        BY <1>0, <2>7, Frames, MeshAssumption
      <3> QED
        BY <1>0, <2>7, <3>1, <3>2, <3>3, Frames
    <2>8. CASE Train(r)
      <3>1. Joint(Ranks, "train")
        BY <2>8, TrainStep
      <3>2. Driven /\ Placed /\ version' \in Nat
        BY <1>4, <3>1
      <3>3. shard' \in [Ranks -> Nat]
        BY <1>0, <2>8, Frames
      <3> QED
        BY <1>0, <2>8, <3>2, <3>3, Frames
    <2>9. ASSUME NEW new \in EngineStates, Operated(r, new) PROVE Engined
      BY <1>0, <2>3, <2>9 DEF Operated
    <2>10. CASE Resume(r)
      <3>1. Driven /\ Placed /\ version' \in Nat
        BY <2>1, <2>10, OwnSteps
      <3>2. [engine[r \div TPSize] EXCEPT !.awake = TRUE] \in EngineStates
        BY <2>4 DEF EngineStates
      <3>3. Engined
        BY <2>9, <2>10, <3>2, Zenon DEF Resume
      <3> QED
        BY <1>0, <2>10, <3>1, <3>3, Frames
    <2>11. CASE Flush(r)
      <3>1. Driven /\ Placed /\ version' \in Nat
        BY <2>1, <2>11, OwnSteps
      <3>2. [engine[r \div TPSize] EXCEPT !.fresh = TRUE] \in EngineStates
        BY <2>4 DEF EngineStates
      <3>3. Engined
        BY <2>9, <2>11, <3>2, Zenon DEF Flush
      <3> QED
        BY <1>0, <2>11, <3>1, <3>3, Frames
    <2>12. CASE Release(r)
      <3>1. Driven /\ Placed /\ version' \in Nat
        BY <2>1, <2>12, OwnSteps
      <3>2. [engine[r \div TPSize] EXCEPT !.awake = FALSE] \in EngineStates
        BY <2>4 DEF EngineStates
      <3>3. Engined
        BY <2>9, <2>12, <3>2, Zenon DEF Release
      <3> QED
        BY <1>0, <2>12, <3>1, <3>3, Frames
    <2>13. CASE Push(r)
      <3>1. Driven /\ Placed /\ version' \in Nat
        BY <2>1, <2>13, OwnSteps
      <3> DEFINE e == engine[r \div TPSize]
                 w == [p \in Params |-> IF p \in Open(r) THEN full[r][p] ELSE e.weights[p]]
      <3>2. [e EXCEPT !.fresh = FALSE, !.weights = w] \in EngineStates
        <4>1. ASSUME NEW p \in Params PROVE (IF p \in Open(r) THEN full[r][p] ELSE e.weights[p]) \in SUBSET Nat
          <5>1. PICK S \in SUBSET Params : full[r] \in [S -> SUBSET Nat]
            BY <1>0 DEF Buckets
          <5> QED
            BY <2>4, <5>1 DEF Open, EngineStates
        <4>2. w \in [Params -> SUBSET Nat]
          BY <4>1
        <4> HIDE DEF w
        <4> QED
          BY <2>4, <4>2 DEF EngineStates
      <3>3. Operated(r, [e EXCEPT !.fresh = FALSE, !.weights = w])
        BY <2>13, Zenon DEF Push
      <3>4. Engined
        BY <2>9, <3>2, <3>3
      <3> QED
        BY <1>0, <2>2, <2>13, <3>1, <3>4, Frames
    <2>14. CASE OperationFails(r)
      <3>1. Driven /\ Placed /\ version' \in Nat
        BY <2>1, <2>14, OwnSteps
      <3> QED
        BY <1>0, <2>2, <2>14, <3>1, Frames
    <2>15. CASE GenerateFails(r)
      <3>1. [engine[r \div TPSize] EXCEPT !.awake = FALSE] \in EngineStates
        BY <2>4 DEF EngineStates
      <3>2. engine' = [engine EXCEPT ![r \div TPSize] = [engine[r \div TPSize] EXCEPT !.awake = FALSE]]
        BY <2>15, Zenon DEF GenerateFails
      <3>3. Engined
        BY <1>0, <2>3, <3>1, <3>2
      <3> QED
        BY <1>0, <2>15, <3>3, Frames DEF driverVars
    <2>16. CASE Agree(r)
      <3>1. PICK op \in Agreements :
              /\ \/ raised' = raised \cup Ranks /\ pc' = pc
                 \/ raised' = raised /\ Ranks \cap error = {} /\ Joint(Ranks, op)
              /\ UNCHANGED <<driverVars, error, shard, on_gpu, next, full, bytes, engine>>
        BY <2>16, AgreeStep
      <3>2. op \notin {"gather", "returned"}
        BY DEF Agreements
      <3> QED
        BY <1>0, <1>4, <3>1, <3>2 DEF driverVars
    <2>17. CASE Gather(r)
      <3> DEFINE p == next[r]
      <3>1. /\ full' = [q \in Ranks |-> [w \in Open(q) \cup {p} |->
                          IF w = p THEN {shard[s] : s \in Ranks} ELSE full[q][w]]]
            /\ bytes' = [q \in Ranks |-> bytes[q] + Sizes[p]]
            /\ next' = [q \in Ranks |-> p + 1]
            /\ UNCHANGED <<driverVars, raised, error, shard, on_gpu, engine>>
        BY <2>17, GatherStep
      <3>2. p \in Params /\ {shard[s] : s \in Ranks} = {version} /\ call.kind = "generate"
            /\ \A q \in Ranks : pc'[q] \in {"push", "flush", "gather"}
        BY <2>17, GatherTyped
      <3> HIDE DEF p
      <3>3. Sizes[p] \in Nat /\ p \in Nat
        BY <3>2, MeshAssumption DEF Params
      <3>4. ASSUME NEW q \in Ranks
            PROVE  [w \in Open(q) \cup {p} |-> IF w = p THEN {version} ELSE full[q][w]] \in Buckets
        <4>1. PICK S \in SUBSET Params : full[q] \in [S -> SUBSET Nat]
          BY <1>0 DEF Buckets
        <4>2. Open(q) = S
          BY <4>1 DEF Open
        <4>3. S \cup {p} \in SUBSET Params /\ {version} \in SUBSET Nat
          BY <1>0, <3>2
        <4>4. [w \in S \cup {p} |-> IF w = p THEN {version} ELSE full[q][w]] \in [S \cup {p} -> SUBSET Nat]
          BY <4>1, <4>3
        <4> QED
          BY <4>2, <4>3, <4>4 DEF Buckets
      <3>5. full' \in [Ranks -> Buckets]
        BY <3>1, <3>2, <3>4
      <3>6. bytes' \in [Ranks -> Nat] /\ next' \in [Ranks -> Nat \ {0}]
        BY <1>0, <3>1, <3>3
      <3>7. Placed
        <4>1. {"push", "flush", "gather"} \subseteq Steps
          BY DEF Steps, StepsOf, Methods, Syncing
        <4>2. pc' = [q \in Ranks |-> pc'[q]]
          BY <2>17, GatherStep
        <4> QED
          BY <3>2, <4>1, <4>2
      <3> QED
        BY <1>0, <3>1, <3>5, <3>6, <3>7 DEF driverVars
    <2> QED
      BY <1>6, <2>5, <2>6, <2>7, <2>8, <2>10, <2>11, <2>12, <2>13, <2>14, <2>15, <2>16, <2>17, Zenon DEF Changes
  <1> QED
    BY <1>1, <1>2, <1>3, <1>5, <1>6, StepCases

\* All ranks raise after an agreement, and only leaders while they generate.
LEMMA RaisingKept ==
  ASSUME IInv, [Next]_vars
  PROVE  Raising'
  <1> USE DEF IInv
  <1> DEFINE Goal == \A r \in raised' : pc'[r] = "generate" \/ raised' = Ranks
  <1>0. raised \subseteq Ranks /\ \A r \in raised : pc[r] = "generate" \/ raised = Ranks
    BY DEF Types, Raising
  <1> SUFFICES Goal
    BY DEF Raising
  <1>1. ASSUME raised' = raised, \A r \in raised : pc'[r] = pc[r] PROVE Goal
    BY <1>0, <1>1
  <1>2. ASSUME NEW kind \in Methods, Called(kind) PROVE Goal
    BY <1>2 DEF Called, InMethod
  <1>3. ASSUME Collect \/ Fail \/ UNCHANGED vars PROVE Goal
    BY <1>1, <1>3, DriverSteps
  \* A rank that has raised takes no step.
  <1>4. ASSUME NEW R \in SUBSET Ranks, NEW op, Joint(R, op), raised' = raised PROVE Goal
    BY <1>0, <1>1, <1>4 DEF Joint, At
  <1>5. ASSUME NEW R \in SUBSET Ranks, NEW op, Passing(R, op) PROVE Goal
    BY <1>4, <1>5 DEF Passing
  <1>6. ASSUME NEW r \in Ranks, Changes(r) PROVE Goal
    <2> HIDE DEF Goal
    <2>1. CASE Load(r) \/ Offload(r) \/ Restore(r) \/ Resume(r) \/ Push(r) \/ Flush(r) \/ Release(r)
               \/ OperationFails(r)
      <3>1. (\E op : Joint({r}, op)) /\ raised' = raised
        BY <2>1, OwnSteps, Frames
      <3> QED
        BY <1>4, <3>1
    <2>2. CASE Train(r)
      BY <1>4, <2>2, TrainStep, Frames
    <2>3. CASE GenerateFails(r)
      BY <1>0, <2>3, Frames DEF Goal
    <2>4. CASE Agree(r)
      <3>1. PICK op \in Agreements :
              \/ raised' = raised \cup Ranks /\ pc' = pc
              \/ raised' = raised /\ Ranks \cap error = {} /\ Joint(Ranks, op)
        BY <2>4, AgreeStep
      <3>2. CASE raised' = raised \cup Ranks
        BY <1>0, <3>2 DEF Goal
      <3>3. CASE raised' = raised /\ Joint(Ranks, op)
        BY <1>4, <3>3
      <3> QED
        BY <3>1, <3>2, <3>3
    <2>5. CASE Gather(r)
      <3>1. raised' = raised /\ \A q \in Ranks : q \notin raised
        BY <2>5, GatherStep DEF At
      <3> QED
        BY <1>0, <1>1, <3>1
    <2> QED
      BY <1>6, <2>1, <2>2, <2>3, <2>4, <2>5, Zenon DEF Changes
  <1> QED
    BY <1>2, <1>3, <1>5, <1>6, StepCases

\* The shards move on together, with the version the driver counts.
LEMMA ShardsKept ==
  ASSUME IInv, [Next]_vars
  PROVE  Shards'
  <1> USE DEF IInv
  <1> DEFINE Done(r) == pc[r] \in {"offload", "returned"}
             Sh(r) == /\ driver = "idle" \/ call.kind \in {"generate", "compute_log_prob"} => shard[r] = version
                      /\ driver # "idle" /\ call.kind = "update_actor" =>
                           shard[r] = IF Done(r) THEN version + 1 ELSE version
                      /\ driver # "idle" /\ call.kind = "load_checkpoint" /\ Done(r) => shard[r] = Saved
  <1>0. \A r \in Ranks : Sh(r)
    BY DEF Shards
  <1> SUFFICES ASSUME NEW q \in Ranks PROVE Sh(q)'
    BY DEF Shards
  <1>a. call.kind \in Methods /\ pc[q] \in StepsOf(call.kind)
    BY DEF Types, InMethod
  <1>1. ASSUME NEW kind \in Methods, Called(kind) PROVE Sh(q)'
    <2>1. shard[q] = version
      BY <1>0, <1>1 DEF Called
    <2>2. shard' = shard /\ version' = version /\ pc'[q] = "load" /\ driver' = "busy"
      BY <1>1 DEF Called
    <2> QED
      BY <2>1, <2>2
  <1>2. ASSUME Collect PROVE Sh(q)'
    <2>1. pc[q] = "returned" /\ driver = "busy" /\ driver' = "idle" /\ shard' = shard /\ call' = call
      BY <1>2, DriverSteps DEF Returned
    <2>2. version' = CASE call.kind = "update_actor" -> version + 1
                       [] call.kind = "load_checkpoint" -> Saved
                       [] OTHER -> version
      BY <1>2, DriverSteps
    <2>3. shard[q] = version'
      BY <1>0, <1>a, <2>1, <2>2 DEF Methods
    <2> QED
      BY <2>1, <2>3
  <1>3. ASSUME Fail \/ UNCHANGED vars PROVE Sh(q)'
    BY <1>0, <1>3, DriverSteps
  <1>4. ASSUME NEW R \in SUBSET Ranks, NEW op, op \notin {"gather", "returned"}, Joint(R, op),
               op \notin {"restore", "train"}, shard' = shard
        PROVE  Sh(q)'
    <2>1. /\ \A r \in R : pc[r] = op /\ r \notin raised /\ driver # "idle" /\ pc'[r] = After(r, op)
          /\ \A r \in Ranks : r \notin R => pc'[r] = pc[r]
          /\ driver' = driver /\ call' = call /\ version' = version
      BY <1>4, Moved
    <2>2. ASSUME call.kind \in {"update_actor", "load_checkpoint"} PROVE Done(q)' <=> Done(q)
      <3>1. CASE q \in R
        <4>1. op \in StepsOf(call.kind) \ {"gather", "returned", "restore", "train"}
          BY <1>a, <1>4, <2>1, <3>1
        <4>2. After(q, op) \in {"offload", "returned"} <=> op \in {"offload", "returned"}
          BY <2>2, <4>1 DEF After, AfterInActor, StepsOf
        <4> QED
          BY <2>1, <3>1, <4>2
      <3>2. CASE q \notin R
        BY <2>1, <3>2
      <3> QED
        BY <3>1, <3>2
    <2> QED
      BY <1>0, <1>4, <2>1, <2>2
  <1>5. ASSUME NEW R \in SUBSET Ranks, NEW op, Passing(R, op) PROVE Sh(q)'
    BY <1>4, <1>5 DEF Passing
  <1>6. ASSUME NEW r \in Ranks, Changes(r) PROVE Sh(q)'
    <2>1. \A op : Joint({r}, op) /\ op \notin {"gather", "returned", "restore", "train"} /\ shard' = shard => Sh(q)'
      BY <1>4
    <2> HIDE <1>4
    <2>2. CASE Load(r) \/ Offload(r) \/ Resume(r) \/ Push(r) \/ Flush(r) \/ Release(r) \/ OperationFails(r)
      <3> HIDE DEF Sh
      <3>1. shard' = shard
        BY <2>2, Frames
      <3>2. \E op : Joint({r}, op) /\ op \notin {"gather", "returned", "restore", "train"}
        BY <2>2, OwnSteps
      <3> QED
        BY <2>1, <3>1, <3>2
    <2>3. CASE Restore(r)
      <3>1. Joint({r}, "restore") /\ shard' = [shard EXCEPT ![r] = Saved]
        BY <2>3, OwnSteps, Frames
      <3>2. /\ \A s \in {r} : pc[s] = "restore" /\ s \notin raised /\ driver # "idle" /\ pc'[s] = After(s, "restore")
            /\ \A s \in Ranks : s \notin {r} => pc'[s] = pc[s]
            /\ driver' = driver /\ call' = call /\ version' = version
        BY <3>1, Moved
      <3>3. call.kind = "load_checkpoint"
        BY <3>2 DEF InMethod, Types, Methods, StepsOf, Syncing, Past
      <3>4. shard'[q] = IF q = r THEN Saved ELSE shard[q]
        BY <3>1 DEF Types
      <3> QED
        BY <1>0, <3>2, <3>3, <3>4
    <2>4. CASE Train(r)
      <3>1. Joint(Ranks, "train") /\ shard'[q] = shard[q] + 1
        BY <2>4, TrainStep, Frames
      <3>2. /\ \A s \in Ranks : pc[s] = "train" /\ s \notin raised /\ driver # "idle" /\ pc'[s] = After(s, "train")
            /\ driver' = driver /\ call' = call /\ version' = version
        BY <3>1, Moved
      <3>3. call.kind = "update_actor"
        BY <1>a, <3>2 DEF Methods, StepsOf, Syncing, Past
      <3>4. After(q, "train") = "offload"
        BY <3>3 DEF After, AfterInActor
      <3> QED
        BY <1>0, <3>1, <3>2, <3>3, <3>4
    <2>5. CASE GenerateFails(r)
      BY <1>0, <2>5, Frames DEF driverVars
    <2>6. CASE Agree(r)
      <3>1. PICK op \in Agreements :
              /\ pc' = pc \/ Joint(Ranks, op)
              /\ UNCHANGED <<driverVars, shard>>
        BY <2>6, AgreeStep
      <3>2. op \notin {"gather", "returned", "restore", "train"}
        BY DEF Agreements
      <3>3. CASE pc' = pc
        BY <1>0, <3>1, <3>3 DEF driverVars
      <3>4. CASE Joint(Ranks, op)
        BY <1>4, <3>1, <3>2, <3>4
      <3> QED
        BY <3>1, <3>3, <3>4
    <2>7. CASE Gather(r)
      <3>1. call.kind = "generate" /\ driver # "idle" /\ UNCHANGED <<driverVars, shard>>
        BY <2>7, GatherTyped, GatherStep
      <3> QED
        BY <1>0, <3>1 DEF driverVars
    <2> QED
      BY <1>6, <2>2, <2>3, <2>4, <2>5, <2>6, <2>7, Zenon DEF Changes
  <1> QED
    BY <1>1, <1>2, <1>3, <1>5, <1>6, StepCases

\* The ranks of an engine are past the sharing of their rows together.
LEMMA GroupsKept ==
  ASSUME IInv, [Next]_vars
  PROVE  Groups'
  <1> USE DEF IInv
  <1> DEFINE In(r) == pc[r] \in Past
             Goal == call'.kind = "generate" =>
                       \A r, q \in Ranks : Mine(r) = Mine(q) => (In(r)' <=> In(q)')
  <1>0. call.kind = "generate" => \A r, q \in Ranks : Mine(r) = Mine(q) => (In(r) <=> In(q))
    BY DEF Groups
  <1> SUFFICES Goal
    BY DEF Groups, Mine
  <1>1. ASSUME pc' = pc, call' = call PROVE Goal
    BY <1>0, <1>1
  <1>2. ASSUME \A r \in Ranks : ~ In(r)' PROVE Goal
    BY <1>2
  <1>3. ASSUME NEW kind \in Methods, Called(kind) PROVE Goal
    BY <1>2, <1>3 DEF Called, Past
  <1>4. ASSUME Collect \/ Fail \/ UNCHANGED vars PROVE Goal
    BY <1>1, <1>4, DriverSteps
  <1>5. ASSUME NEW R \in SUBSET Ranks, NEW op, op \notin {"gather", "returned"}, Joint(R, op),
               op = "share" /\ call.kind = "generate" => \E r \in Ranks : R = Peers(r, TPSize)
        PROVE  Goal
    <2> SUFFICES ASSUME call'.kind = "generate" PROVE \A r, q \in Ranks : Mine(r) = Mine(q) => (In(r)' <=> In(q)')
      OBVIOUS
    <2>1. /\ \A r \in R : pc[r] = op /\ r \notin raised /\ driver # "idle" /\ pc'[r] = After(r, op)
          /\ \A r \in Ranks : r \notin R => pc'[r] = pc[r]
          /\ call' = call
      BY <1>5, Moved
    <2>2. call.kind = "generate" /\ \A r \in R : op \in StepsOf("generate")
      BY <2>1 DEF InMethod
    <2>3. CASE op = "share"
      <3>1. PICK s \in Ranks : R = Peers(s, TPSize)
        BY <1>5, <2>2, <2>3
      <3>2. \A r \in R : In(r)'
        BY <2>1, <2>2, <2>3, PathOfGenerate DEF After, Past
      <3>3. \A r \in Ranks : r \in R <=> Mine(r) = Mine(s)
        BY <3>1 DEF Peers, Mine
      <3>4. \A r \in Ranks : r \notin R => (In(r)' <=> In(r))
        BY <2>1
      <3> QED
        BY <1>0, <2>2, <3>2, <3>3, <3>4
    <2>4. CASE op # "share"
      <3>1. ASSUME NEW r \in Ranks PROVE In(r)' <=> In(r)
        <4>1. CASE r \in R
          <5>1. op \in StepsOf("generate") \ {"gather", "returned", "share"}
            BY <1>5, <2>2, <2>4, <4>1
          <5>2. \A open, n, p : AfterWeights(open, n, p) \notin Past
            BY DEF AfterWeights, Past
          <5>3. AfterInGenerate(r, op) \in Past <=> op \in Past
            <6>1. CASE op \in {"resumed", "pushed"}
              BY <5>2, <6>1, PathOfGenerate DEF Past
            <6>2. CASE op \notin {"resumed", "pushed"}
              BY <5>1, <6>2, PathOfGenerate DEF Past, StepsOf, Syncing
            <6> QED
              BY <6>1, <6>2
          <5> QED
            BY <2>1, <2>2, <4>1, <5>3 DEF After
        <4>2. CASE r \notin R
          BY <2>1, <4>2
        <4> QED
          BY <4>1, <4>2
      <3> QED
        BY <1>0, <2>2, <3>1
    <2> QED
      BY <2>3, <2>4
  <1>6. ASSUME NEW R \in SUBSET Ranks, NEW op, Passing(R, op) PROVE Goal
    BY <1>5, <1>6 DEF Passing
  <1>7. ASSUME NEW r \in Ranks, Changes(r) PROVE Goal
    <2> HIDE DEF Goal
    <2>1. \A R \in SUBSET Ranks, op \in {"load", "offload", "restore", "train", "release"}
            \cup {"resume", "push", "flush"} \cup Agreements : Joint(R, op) => Goal
      BY <1>5 DEF Agreements
    <2>2. CASE Load(r) \/ Offload(r) \/ Restore(r) \/ Resume(r) \/ Push(r) \/ Flush(r) \/ Release(r)
               \/ OperationFails(r)
      BY <2>1, <2>2, OwnSteps
    <2>3. CASE Train(r)
      BY <2>1, <2>3, TrainStep
    <2>4. CASE GenerateFails(r)
      BY <1>1, <2>4, Frames DEF driverVars
    <2>5. CASE Agree(r)
      BY <1>1, <2>1, <2>5, AgreeStep DEF driverVars
    <2>6. CASE Gather(r)
      <3>1. \A q \in Ranks : pc'[q] \notin Past
        BY <2>6, GatherTyped DEF Past
      <3> QED
        BY <1>2, <3>1
    <2> QED
      BY <1>7, <2>2, <2>3, <2>4, <2>5, <2>6, Zenon DEF Changes
  <1> QED
    BY <1>3, <1>4, <1>6, <1>7, StepCases

\* Every method takes off the device what it has loaded.
LEMMA DevicesKept ==
  ASSUME IInv, [Next]_vars
  PROVE  Devices'
  <1> USE DEF IInv
  <1> DEFINE D(r) == /\ pc[r] \in {"load", "returned"} => Off(r)
                     /\ call.kind = "generate" /\ pc[r] \in {"share"} \cup Past => Off(r)
                     /\ call.kind \in {"generate", "compute_log_prob"} => on_gpu[r] \cap Offloaded \subseteq {"params"}
  <1>0. \A r \in Ranks : D(r)
    BY DEF Devices
  <1> SUFFICES ASSUME NEW q \in Ranks PROVE D(q)'
    BY DEF Devices
  <1>a. /\ call.kind \in Methods /\ pc[q] \in StepsOf(call.kind)
        /\ on_gpu \in [Ranks -> SUBSET {"params", "optimizer"}]
    BY DEF Types, InMethod
  <1>b. on_gpu'[q] = on_gpu[q] => (Off(q)' <=> Off(q))
    BY DEF Off
  <1>1. ASSUME NEW kind \in Methods, Called(kind) PROVE D(q)'
    <2>1. Off(q) /\ on_gpu'[q] = on_gpu[q]
      BY <1>0, <1>1 DEF Called, InMethod
    <2>2. on_gpu[q] \cap Offloaded \subseteq {"params"}
      BY <2>1 DEF Off
    <2> QED
      BY <1>b, <2>1, <2>2
  <1>2. ASSUME UNCHANGED <<pc, call, on_gpu>> PROVE D(q)'
    BY <1>0, <1>b, <1>2
  <1>3. ASSUME Collect \/ Fail \/ UNCHANGED vars PROVE D(q)'
    BY <1>2, <1>3, DriverSteps
  <1>4. ASSUME NEW R \in SUBSET Ranks, NEW op, op \notin {"gather", "returned"}, Joint(R, op),
               on_gpu'[q] = on_gpu[q], op \notin {"load", "offload", "restore"} \/ q \notin R
        PROVE  D(q)'
    <2>1. /\ \A r \in R : pc[r] = op /\ r \notin raised /\ driver # "idle" /\ pc'[r] = After(r, op)
          /\ \A r \in Ranks : r \notin R => pc'[r] = pc[r]
          /\ call' = call
      BY <1>4, Moved
    <2>2. CASE q \notin R
      BY <1>0, <1>4, <1>b, <2>1, <2>2
    <2>3. CASE q \in R
      <3>1. op \in StepsOf(call.kind) \ {"gather", "returned", "load", "offload", "restore"}
        BY <1>a, <1>4, <2>1, <2>3
      <3>2. CASE call.kind = "generate"
        <4>1. \A open, n, p : AfterWeights(open, n, p) \notin {"load", "share"} \cup Past
          BY DEF AfterWeights, Past
        <4>2. AfterInGenerate(q, op) \in {"load", "share"} \cup Past => op \in {"share"} \cup Past
          <5>1. CASE op \in {"resumed", "pushed"}
            BY <4>1, <5>1, PathOfGenerate
          <5>2. CASE op \notin {"resumed", "pushed"}
            BY <3>1, <3>2, <5>2, PathOfGenerate DEF Past, StepsOf, Syncing
          <5> QED
            BY <5>1, <5>2
        <4>3. pc'[q] \in {"load", "returned"} \cup {"share"} \cup Past => Off(q)
          BY <1>0, <2>1, <2>3, <3>2, <4>2 DEF After, Past
        <4> QED
          BY <1>0, <1>4, <1>b, <2>1, <3>2, <4>3
      <3>3. CASE call.kind # "generate"
        <4>1. After(q, op) \notin {"load", "returned"}
          BY <1>a, <3>1, <3>3 DEF After, AfterInActor, StepsOf, Methods
        <4> QED
          BY <1>0, <1>4, <2>1, <2>3, <3>3, <4>1
      <3> QED
        BY <3>2, <3>3
    <2> QED
      BY <2>2, <2>3
  <1>5. ASSUME NEW R \in SUBSET Ranks, NEW op, Passing(R, op) PROVE D(q)'
    BY <1>4, <1>5 DEF Passing
  <1>6. ASSUME NEW r \in Ranks, Changes(r) PROVE D(q)'
    <2> HIDE DEF D
    <2>1. \A op \in {"load", "offload", "restore", "release", "resume", "push", "flush"} :
            Joint({r}, op) /\ on_gpu'[q] = on_gpu[q] /\ (op \notin {"load", "offload", "restore"} \/ q # r) => D(q)'
      BY <1>4
    <2>2. \A op \in Agreements \cup {"train"} : Joint(Ranks, op) /\ on_gpu'[q] = on_gpu[q] => D(q)'
      BY <1>4 DEF Agreements
    <2>3. CASE Load(r)
      <3>1. /\ Joint({r}, "load")
            /\ on_gpu' = [on_gpu EXCEPT ![r] = @ \cup
                 (IF call.kind = "update_actor" THEN {"params", "optimizer"} ELSE {"params"})]
        BY <2>3, OwnSteps, Frames
      <3>2. CASE q # r
        BY <1>a, <2>1, <3>1, <3>2
      <3>3. CASE q = r
        <4>1. /\ \A s \in {r} : pc[s] = "load" /\ s \notin raised /\ driver # "idle" /\ pc'[s] = After(s, "load")
              /\ \A s \in Ranks : s \notin {r} => pc'[s] = pc[s]
              /\ call' = call
          BY <3>1, Moved
        <4>2. After(q, "load") \in {"resume", "restore", "share"} /\ (call.kind = "generate" => After(q, "load") = "resume")
          BY PathOfGenerate DEF After, AfterInActor
        <4>3. call.kind \in {"generate", "compute_log_prob"} => on_gpu'[q] = on_gpu[q] \cup {"params"}
          BY <1>a, <3>1, <3>3
        <4> QED
          BY <1>0, <3>3, <4>1, <4>2, <4>3 DEF D, Past
      <3> QED
        BY <3>2, <3>3
    <2>4. CASE Offload(r)
      <3>1. Joint({r}, "offload") /\ on_gpu' = [on_gpu EXCEPT ![r] = @ \ PartsOffloaded(call.kind)]
        BY <2>4, OwnSteps, Frames
      <3>2. CASE q # r
        BY <1>a, <2>1, <3>1, <3>2
      <3>3. CASE q = r
        <4>1. call' = call
          BY <3>1, Moved
        <4>2. on_gpu'[q] = on_gpu[q] \ PartsOffloaded(call.kind)
          BY <1>a, <3>1, <3>3
        <4>3. on_gpu'[q] \cap Offloaded = {}
          BY <1>0, <1>a, <4>2 DEF D, PartsOffloaded, Methods
        <4> QED
          BY <4>1, <4>3 DEF D, Off
      <3> QED
        BY <3>2, <3>3
    <2>5. CASE Restore(r)
      <3>1. Joint({r}, "restore") /\ on_gpu' = [on_gpu EXCEPT ![r] = @ \cup {"optimizer"}]
        BY <2>5, OwnSteps, Frames
      <3>2. CASE q # r
        BY <1>a, <2>1, <3>1, <3>2
      <3>3. CASE q = r
        <4>1. /\ \A s \in {r} : pc[s] = "restore" /\ s \notin raised /\ driver # "idle" /\ pc'[s] = After(s, "restore")
              /\ \A s \in Ranks : s \notin {r} => pc'[s] = pc[s]
              /\ call' = call
          BY <3>1, Moved
        <4>2. call.kind = "load_checkpoint"
          BY <1>a, <3>3, <4>1 DEF Methods, StepsOf, Syncing, Past
        <4>3. After(q, "restore") = "offload"
          BY <4>2 DEF After, AfterInActor
        <4> QED
          BY <3>3, <4>1, <4>2, <4>3 DEF D
      <3> QED
        BY <3>2, <3>3
    <2>6. CASE Train(r)
      BY <2>2, <2>6, TrainStep, Frames
    <2>7. CASE Resume(r) \/ Push(r) \/ Flush(r) \/ Release(r) \/ OperationFails(r)
      <3>1. \E op \in {"resume", "push", "flush", "release"} : Joint({r}, op)
        BY <2>7, OwnSteps
      <3>2. on_gpu' = on_gpu
        BY <2>7, Frames
      <3> QED
        BY <2>1, <3>1, <3>2
    <2>8. CASE GenerateFails(r)
      BY <1>2, <2>8, Frames DEF driverVars
    <2>9. CASE Agree(r)
      <3>1. on_gpu' = on_gpu /\ call' = call /\ (pc' = pc \/ \E op \in Agreements : Joint(Ranks, op))
        BY <2>9, AgreeStep DEF driverVars
      <3> QED
        BY <1>2, <2>2, <3>1
    <2>10. CASE Gather(r)
      <3>1. pc'[q] \in {"push", "flush", "gather"} /\ on_gpu' = on_gpu /\ call' = call
        BY <2>10, GatherTyped, GatherStep DEF driverVars
      <3> QED
        BY <1>0, <3>1 DEF D, Past
    <2> QED
      BY <1>6, <2>3, <2>4, <2>5, <2>6, <2>7, <2>8, <2>9, <2>10, Zenon DEF Changes
  <1> QED
    BY <1>1, <1>3, <1>5, <1>6, StepCases

\* A rollout ends with its engines asleep.
LEMMA AsleepKept ==
  ASSUME IInv, [Next]_vars
  PROVE  Asleep'
  <1> USE DEF IInv
  <1> DEFINE Outside == driver = "idle" \/ call.kind # "generate"
             Idle(r) == pc[r] \in {"load", "resume", "returned"}
             Goal == /\ Outside' => \A e \in Engines : ~ Awake(e)'
                     /\ \A r \in Ranks, e \in Engines : Leader(r) /\ e = Mine(r) /\ Idle(r)' => ~ Awake(e)'
  <1>a. \A r \in Ranks : Mine(r) \in Engines
    BY EngineOf DEF Mine
  <1>0. /\ Outside => \A e \in Engines : ~ Awake(e)
        /\ \A r \in Ranks, e \in Engines : Leader(r) /\ e = Mine(r) /\ Idle(r) => ~ Awake(e)
    BY DEF Asleep
  <1> SUFFICES Goal
    BY <1>a DEF Asleep, Mine, Leader, Awake
  <1>1. ASSUME \A e \in Engines : Awake(e)' => Awake(e),
               Outside' => Outside,
               \A r \in Ranks, e \in Engines : Leader(r) /\ e = Mine(r) /\ Idle(r)' => Idle(r) \/ ~ Awake(e)'
        PROVE  Goal
    BY <1>0, <1>1
  <1>b. engine' = engine => \A e \in Engines : Awake(e)' => Awake(e)
    BY DEF Awake
  <1>2. ASSUME NEW kind \in Methods, Called(kind) PROVE Goal
    <2>1. engine' = engine /\ driver = "idle"
      BY <1>2 DEF Called
    <2>2. \A e \in Engines : ~ Awake(e)'
      BY <1>0, <1>b, <2>1
    <2> QED
      BY <2>2
  <1>3. ASSUME Collect PROVE Goal
    <2>1. engine' = engine /\ \A r \in Ranks : pc[r] = "returned"
      BY <1>3, DriverSteps DEF Returned
    <2>2. ASSUME NEW e \in Engines PROVE ~ Awake(e)
      <3>1. PICK r \in Ranks : Leader(r) /\ e = Mine(r)
        BY LeaderOf DEF Mine
      <3> QED
        BY <1>0, <2>1, <3>1
    <2>3. \A e \in Engines : ~ Awake(e)'
      BY <1>b, <2>1, <2>2
    <2> QED
      BY <2>3
  <1>4. ASSUME Fail \/ UNCHANGED vars PROVE Goal
    <2>1. engine' = engine /\ pc' = pc /\ call' = call /\ (driver' = "idle" => driver = "idle")
      BY <1>4, DriverSteps
    <2> QED
      BY <1>1, <1>b, <2>1
  <1>5. ASSUME NEW R \in SUBSET Ranks, NEW op, op \notin {"gather", "returned", "release"}, Joint(R, op),
               \A e \in Engines : Awake(e)' => Awake(e)
        PROVE  Goal
    <2>1. /\ \A r \in R : pc[r] = op /\ r \notin raised /\ driver # "idle" /\ pc'[r] = After(r, op)
          /\ \A r \in Ranks : r \notin R => pc'[r] = pc[r]
          /\ driver' = driver /\ call' = call
      BY <1>5, Moved
    <2>2. CASE call.kind # "generate"
      BY <1>0, <1>5, <2>2
    <2>3. CASE call.kind = "generate"
      <3>1. ASSUME NEW r \in Ranks, Leader(r), Idle(r)' PROVE Idle(r)
        <4>1. CASE r \notin R
          BY <2>1, <3>1, <4>1
        <4>2. CASE r \in R
          <5>1. op \in StepsOf("generate") \ {"gather", "returned", "release"} /\ pc[r] = op
            BY <1>5, <2>1, <2>3, <4>2 DEF InMethod
          <5>2. \A open, n, p : AfterWeights(open, n, p) \notin {"load", "resume", "returned"}
            BY DEF AfterWeights
          <5>3. AfterInGenerate(r, op) \in {"load", "resume", "returned"}
            BY <2>1, <2>3, <3>1, <4>2 DEF After
          <5>4. op \in {"load", "resume", "returned"}
            <6>1. op \notin {"resumed", "pushed"}
              BY <5>2, <5>3, PathOfGenerate
            <6> QED
              BY <3>1, <5>1, <5>3, <6>1, PathOfGenerate DEF StepsOf, Syncing, Past
          <5> QED
            BY <5>1, <5>4
        <4> QED
          BY <4>1, <4>2
      <3> QED
        BY <1>1, <1>5, <2>1, <3>1
    <2> QED
      BY <2>2, <2>3
  <1>6. ASSUME NEW R \in SUBSET Ranks, NEW op, Passing(R, op) PROVE Goal
    <2>1. engine' = engine /\ Joint(R, op) /\ op \notin {"gather", "returned", "release"}
      BY <1>6 DEF Passing
    <2> QED
      BY <1>5, <1>b, <2>1
  <1>7. ASSUME NEW r \in Ranks, Changes(r) PROVE Goal
    <2>a. \A R \in SUBSET Ranks, op \in {"load", "offload", "restore", "train", "resume", "push", "flush"} \cup Agreements :
            Joint(R, op) /\ (\A e \in Engines : Awake(e)' => Awake(e)) => Goal
      BY <1>5 DEF Agreements
    <2>1. CASE Load(r) \/ Offload(r) \/ Restore(r) \/ OperationFails(r)
      <3> HIDE DEF Goal
      <3>1. engine' = engine
        BY <2>1, Frames
      <3>2. \E op \in {"load", "offload", "restore", "resume", "push", "flush"} : Joint({r}, op)
        BY <2>1, OwnSteps
      <3> QED
        BY <1>b, <2>a, <3>1, <3>2
    <2>2. CASE Train(r)
      <3> HIDE DEF Goal
      <3> QED
        BY <1>b, <2>a, <2>2, TrainStep, Frames
    <2>3. CASE Push(r) \/ Flush(r)
      <3> HIDE DEF Goal
      <3>1. \A e \in Engines : Awake(e)' => Awake(e)
        BY <2>3, EngineFrames
      <3>2. \E op \in {"push", "flush"} : Joint({r}, op)
        BY <2>3, OwnSteps
      <3> QED
        BY <2>a, <3>1, <3>2
    <2>4. CASE Resume(r)
      <3>1. Joint({r}, "resume") /\ \A e \in Engines : Awake(e)' <=> Awake(e) \/ (Leader(r) /\ e = Mine(r))
        BY <2>4, OwnSteps, EngineFrames
      <3>2. /\ \A s \in {r} : pc[s] = "resume" /\ s \notin raised /\ driver # "idle" /\ pc'[s] = After(s, "resume")
            /\ \A s \in Ranks : s \notin {r} => pc'[s] = pc[s]
            /\ driver' = driver /\ call' = call
        BY <3>1, Moved
      <3>3. call.kind = "generate"
        BY <3>2 DEF InMethod, Types, Methods, StepsOf
      <3>4. pc'[r] = "resumed"
        BY <3>2, <3>3, PathOfGenerate DEF After
      <3>5. ASSUME NEW q \in Ranks, NEW e \in Engines, Leader(q), e = Mine(q), Idle(q)' PROVE ~ Awake(e)'
        <4>1. q # r /\ pc'[q] = pc[q]
          BY <3>2, <3>4, <3>5
        <4>2. ~ (Leader(r) /\ e = Mine(r))
          BY <3>5, <4>1, OneLeader DEF Mine
        <4> QED
          BY <1>0, <3>1, <3>5, <4>1, <4>2
      <3> QED
        BY <3>2, <3>3, <3>5
    <2>5. CASE Release(r)
      <3>1. Joint({r}, "release") /\ \A e \in Engines : Awake(e)' <=> Awake(e) /\ ~ (Leader(r) /\ e = Mine(r))
        BY <2>5, OwnSteps, EngineFrames
      <3>2. /\ \A s \in {r} : pc[s] = "release" /\ s \notin raised /\ driver # "idle" /\ pc'[s] = After(s, "release")
            /\ \A s \in Ranks : s \notin {r} => pc'[s] = pc[s]
            /\ driver' = driver /\ call' = call
        BY <3>1, Moved
      <3>3. Leader(r)
        BY <3>2 DEF InMethod
      <3> QED
        BY <1>1, <3>1, <3>2, <3>3
    <2>6. CASE GenerateFails(r)
      <3>1. \A e \in Engines : Awake(e)' => Awake(e)
        BY <2>6, EngineFrames
      <3> QED
        BY <1>1, <2>6, <3>1, Frames DEF driverVars
    <2>7. CASE Agree(r)
      <3>1. engine' = engine /\ driver' = driver /\ call' = call /\ (pc' = pc \/ \E op \in Agreements : Joint(Ranks, op))
        BY <2>7, AgreeStep DEF driverVars
      <3>2. CASE pc' = pc
        BY <1>1, <1>b, <3>1, <3>2
      <3>3. CASE \E op \in Agreements : Joint(Ranks, op)
        BY <1>b, <2>a, <3>1, <3>3
      <3> QED
        BY <3>1, <3>2, <3>3
    <2>8. CASE Gather(r)
      <3>1. engine' = engine /\ driver' = driver /\ call' = call
        BY <2>8, GatherStep DEF driverVars
      <3>2. \A q \in Ranks : ~ Idle(q)'
        BY <2>8, GatherTyped
      <3> QED
        BY <1>1, <1>b, <3>1, <3>2
    <2> QED
      BY <1>7, <2>1, <2>2, <2>3, <2>4, <2>5, <2>6, <2>7, <2>8, Zenon DEF Changes
  <1> QED
    BY <1>2, <1>3, <1>4, <1>6, <1>7, StepCases

\* What iter_weight_buckets decides on an open bucket.
LEMMA Closing ==
  ASSUME NEW open, NEW n \in Nat, NEW p \in Nat \ {0}, open = {} => n = 0
  PROVE  /\ AfterWeights(open, n, p) \in {"push", "flush", "gather"}
         /\ AfterWeights(open, n, p) = "flush" => p > Len(Sizes) /\ open = {}
         /\ AfterWeights(open, n, p) = "gather" => p \in Params
  <1>1. MaxBytes \in Nat \ {0} /\ Len(Sizes) \in Nat
    BY MeshAssumption
  <1>2. AfterWeights(open, n, p) \in {"push", "flush", "gather"}
    BY DEF AfterWeights
  <1>3. AfterWeights(open, n, p) = "flush" => p > Len(Sizes) /\ ~ (open # {} /\ p > Len(Sizes))
    BY DEF AfterWeights
  <1>4. AfterWeights(open, n, p) = "gather" => ~ (p > Len(Sizes))
    BY DEF AfterWeights
  <1> QED
    BY <1>1, <1>2, <1>3, <1>4 DEF Params

\* No parameter is lost between two buckets, nor after the last one.
LEMMA BucketedKept ==
  ASSUME IInv, [Next]_vars
  PROVE  Bucketed'
  <1> USE DEF IInv
  <1> DEFINE B(r) == /\ pc[r] \in {"load", "resume"} => next[r] = 1
                     /\ pc[r] = "gather" => next[r] \in Params
                     /\ Open(r) # {} => pc[r] \in {"gather", "push"}
                     /\ Open(r) = {} => bytes[r] = 0
                     /\ \A p \in Open(r) : full[r][p] = {version}
                     /\ call.kind = "generate" /\ pc[r] \in {"flush", "flushed", "offload", "share", "generate"} =>
                          next[r] > Len(Sizes)
  <1>0. \A r \in Ranks : B(r)
    BY DEF Bucketed
  <1> SUFFICES ASSUME NEW q \in Ranks PROVE B(q)'
    BY DEF Bucketed
  <1>a. /\ call.kind \in Methods /\ pc[q] \in StepsOf(call.kind)
        /\ next[q] \in Nat \ {0} /\ bytes[q] \in Nat
    BY DEF Types, InMethod
  <1>b. full'[q] = full[q] => Open(q)' = Open(q)
    BY DEF Open
  <1>1. ASSUME NEW kind \in Methods, Called(kind) PROVE B(q)'
    <2>1. Open(q) = {} /\ full'[q] = full[q] /\ bytes'[q] = bytes[q] /\ next'[q] = 1 /\ pc'[q] = "load"
      BY <1>0, <1>1 DEF Called, InMethod
    <2> QED
      BY <1>0, <1>b, <2>1
  <1>2. ASSUME Collect PROVE B(q)'
    <2>1. /\ pc[q] = "returned" /\ pc'[q] = pc[q] /\ full'[q] = full[q] /\ bytes'[q] = bytes[q]
      BY <1>2, DriverSteps DEF Returned
    <2>2. Open(q)' = {} /\ bytes'[q] = 0
      BY <1>0, <1>b, <2>1
    <2> QED
      BY <2>1, <2>2
  <1>3. ASSUME UNCHANGED <<call, pc, next, full, bytes, version>> PROVE B(q)'
    BY <1>0, <1>b, <1>3
  <1>4. ASSUME Fail \/ UNCHANGED vars PROVE B(q)'
    BY <1>3, <1>4, DriverSteps
  <1>5. ASSUME NEW R \in SUBSET Ranks, NEW op, op \notin {"gather", "returned"}, Joint(R, op),
               next'[q] = next[q], full'[q] = full[q], bytes'[q] = bytes[q], op # "push" \/ q \notin R
        PROVE  B(q)'
    <2>1. /\ \A r \in R : pc[r] = op /\ r \notin raised /\ driver # "idle" /\ pc'[r] = After(r, op)
          /\ \A r \in Ranks : r \notin R => pc'[r] = pc[r]
          /\ call' = call /\ version' = version
      BY <1>5, Moved
    <2>2. CASE q \notin R
      BY <1>0, <1>5, <1>b, <2>1, <2>2
    <2>3. CASE q \in R
      <3>1. op \in StepsOf(call.kind) \ {"gather", "returned", "push"}
        BY <1>a, <1>5, <2>1, <2>3
      <3>2. Open(q) = {} /\ Open(q)' = {} /\ bytes'[q] = 0
        BY <1>0, <1>5, <1>b, <2>1, <2>3, <3>1
      <3>3. CASE call.kind = "generate"
        <4>1. pc'[q] = AfterInGenerate(q, op)
          BY <2>1, <2>3, <3>3 DEF After
        <4>2. CASE op \in {"resumed", "pushed"}
          <5>1. pc'[q] = AfterWeights(Open(q), bytes[q], next[q])
            BY <4>1, <4>2, PathOfGenerate
          <5>2. bytes[q] = 0
            BY <1>5, <3>2
          <5>3. /\ pc'[q] \in {"push", "flush", "gather"}
                /\ pc'[q] = "flush" => next[q] > Len(Sizes)
                /\ pc'[q] = "gather" => next[q] \in Params
            <6> DEFINE o == Open(q)
                       n == bytes[q]
                       p == next[q]
                       a == AfterWeights(o, n, p)
            <6>1. n \in Nat /\ p \in Nat \ {0} /\ n = 0
              BY <1>a, <5>2
            <6> HIDE DEF o, n, p
            <6>2. a \in {"push", "flush", "gather"} /\ (a = "flush" => p > Len(Sizes)) /\ (a = "gather" => p \in Params)
              BY <6>1, Closing
            <6> QED
              BY <5>1, <6>2 DEF o, n, p
          <5> QED
            BY <1>5, <3>2, <5>3
        <4>3. CASE op \in {"load", "resume", "flush", "flushed", "offload", "share"} \cup Past
          <5>1. /\ pc'[q] = "resume" => op = "load"
                /\ pc'[q] \notin {"load", "gather"}
                /\ pc'[q] \in {"flush", "flushed", "offload", "share", "generate"} => op \in {"flush", "flushed", "offload", "share"}
            BY <3>1, <4>1, <4>3, PathOfGenerate DEF Past
          <5> QED
            BY <1>0, <1>5, <2>1, <2>3, <3>2, <5>1
        <4> QED
          BY <3>1, <3>3, <4>2, <4>3 DEF StepsOf, Syncing
      <3>4. CASE call.kind # "generate"
        <4>1. After(q, op) \notin {"load", "resume", "gather"}
          BY <1>a, <3>1, <3>4 DEF After, AfterInActor, StepsOf, Methods
        <4> QED
          BY <2>1, <2>3, <3>2, <3>4, <4>1
      <3> QED
        BY <3>3, <3>4
    <2> QED
      BY <2>2, <2>3
  <1>6. ASSUME NEW R \in SUBSET Ranks, NEW op, Passing(R, op) PROVE B(q)'
    BY <1>5, <1>6 DEF Passing
  <1>7. ASSUME NEW r \in Ranks, Changes(r) PROVE B(q)'
    <2> HIDE DEF B
    <2>1. \A R \in SUBSET Ranks, op \in {"load", "offload", "restore", "release", "resume", "flush", "train"} \cup Agreements :
            Joint(R, op) /\ UNCHANGED <<next, full, bytes>> => B(q)'
      BY <1>5 DEF Agreements
    <2>2. CASE Load(r) \/ Offload(r) \/ Restore(r) \/ Resume(r) \/ Flush(r) \/ Release(r)
      <3>1. \E op \in {"load", "offload", "restore", "release", "resume", "flush"} : Joint({r}, op)
        BY <2>2, OwnSteps
      <3>2. UNCHANGED <<next, full, bytes>>
        BY <2>2, Frames
      <3> QED
        BY <2>1, <3>1, <3>2
    <2>3. CASE Train(r)
      BY <2>1, <2>3, TrainStep, Frames
    <2>4. CASE Push(r) \/ OperationFails(r)
      <3>1. PICK op \in {"resume", "push", "flush"} : Joint({r}, op)
        BY <2>4, OwnSteps
      <3>2. full' = [full EXCEPT ![r] = EmptyBucket] /\ bytes' = [bytes EXCEPT ![r] = 0] /\ next' = next
        BY <2>4, Frames
      <3>3. CASE q # r
        <4>1. full'[q] = full[q] /\ bytes'[q] = bytes[q] /\ next'[q] = next[q]
          BY <3>2, <3>3 DEF Types
        <4> QED
          BY <1>5, <3>1, <3>3, <4>1
      <3>4. CASE q = r
        <4>1. /\ \A s \in {r} : pc[s] = op /\ s \notin raised /\ driver # "idle" /\ pc'[s] = After(s, op)
              /\ \A s \in Ranks : s \notin {r} => pc'[s] = pc[s]
              /\ call' = call
          BY <3>1, Moved
        <4>2. call.kind = "generate"
          BY <1>a, <3>4, <4>1 DEF StepsOf, Methods
        <4>3. /\ op = "resume" => pc'[q] = "resumed"
              /\ op = "push" => pc'[q] = "pushed"
              /\ op = "flush" => pc'[q] = "flushed"
          BY <3>4, <4>1, <4>2, PathOfGenerate DEF After
        <4>4. full'[q] = EmptyBucket /\ bytes'[q] = 0 /\ next'[q] = next[q]
          BY <3>2, <3>4 DEF Types
        <4>5. Open(q)' = {}
          BY <4>4 DEF Open, EmptyBucket
        <4> QED
          BY <1>0, <3>4, <4>1, <4>3, <4>4, <4>5 DEF B
      <3> QED
        BY <3>3, <3>4
    <2>5. CASE GenerateFails(r)
      BY <1>3, <2>5, Frames DEF driverVars
    <2>6. CASE Agree(r)
      <3>1. UNCHANGED <<driverVars, next, full, bytes>> /\ (pc' = pc \/ \E op \in Agreements : Joint(Ranks, op))
        BY <2>6, AgreeStep
      <3>2. CASE pc' = pc
        BY <1>3, <3>1, <3>2 DEF driverVars
      <3>3. CASE \E op \in Agreements : Joint(Ranks, op)
        BY <2>1, <3>1, <3>3
      <3> QED
        BY <3>1, <3>2, <3>3
    <2>7. CASE Gather(r)
      <3> DEFINE p == next[r]
      <3>1. /\ full' = [s \in Ranks |-> [w \in Open(s) \cup {p} |->
                          IF w = p THEN {shard[t] : t \in Ranks} ELSE full[s][w]]]
            /\ bytes' = [s \in Ranks |-> bytes[s] + Sizes[p]]
            /\ next' = [s \in Ranks |-> p + 1]
            /\ pc' = [s \in Ranks |-> AfterWeights(Open(s) \cup {p}, bytes'[s], p + 1)]
            /\ UNCHANGED driverVars
        BY <2>7, GatherStep
      <3>2. p \in Params /\ {shard[s] : s \in Ranks} = {version}
        BY <2>7, GatherTyped
      <3> HIDE DEF p
      <3>3. Sizes[p] \in Nat /\ p \in Nat
        BY <3>2, MeshAssumption DEF Params
      <3>4. full'[q] = [w \in Open(q) \cup {p} |-> IF w = p THEN {version} ELSE full[q][w]]
        BY <3>1, <3>2
      <3>5. Open(q)' = Open(q) \cup {p} /\ \A w \in Open(q)' : full'[q][w] = {version}
        BY <1>0, <3>4 DEF Open, B
      <3>6. bytes'[q] \in Nat /\ p + 1 \in Nat \ {0} /\ next'[q] = p + 1
        BY <1>a, <3>1, <3>3
      <3> DEFINE o == Open(q) \cup {p}
      <3>7. pc'[q] = AfterWeights(o, bytes'[q], p + 1) /\ o # {}
        BY <3>1
      <3> HIDE DEF o
      <3>8. /\ pc'[q] \in {"push", "gather"}
            /\ pc'[q] = "gather" => p + 1 \in Params
        BY <3>6, <3>7, Closing
      <3>9. version' = version
        BY <3>1 DEF driverVars
      <3> QED
        BY <3>5, <3>6, <3>7, <3>8, <3>9 DEF B, o
    <2> QED
      BY <1>7, <2>2, <2>3, <2>4, <2>5, <2>6, <2>7, Zenon DEF Changes
  <1> QED
    BY <1>1, <1>2, <1>4, <1>6, <1>7, StepCases

\* What has been pushed stays in the engine, and no flush is skipped.
LEMMA SyncedKept ==
  ASSUME IInv, [Next]_vars
  PROVE  Synced'
  <1> USE DEF IInv
  <1> DEFINE Told == (Syncing \ {"load", "resume"}) \cup {"offload", "share", "generate"}
             Flushed == {"flushed", "offload", "share", "generate"}
             Same(e) == (Awake(e) => Awake(e)') /\ (Fresh(e) => Fresh(e)') /\ Weights(e)' = Weights(e)
             Y(r, e) == e = Mine(r) /\ Serving(r) =>
               /\ pc[r] \in Told =>
                    /\ Awake(e)
                    /\ \A p \in Params : p < next[r] /\ p \notin Open(r) => Weights(e)[p] = {version}
               /\ pc[r] \in Flushed => Fresh(e)
  <1>a. \A r \in Ranks : Mine(r) \in Engines
    BY EngineOf DEF Mine
  <1>0. \A r \in Ranks, e \in Engines : Y(r, e)
    BY DEF Synced
  <1> SUFFICES ASSUME NEW q \in Ranks, NEW e \in Engines PROVE Y(q, e)'
    BY <1>a DEF Synced, Mine, Awake, Fresh, Weights
  <1>b. /\ full'[q] = full[q] => Open(q)' = Open(q)
        /\ engine'[e] = engine[e] => Same(e)
    BY DEF Open, Awake, Fresh, Weights
  <1>c. pc[q] \in StepsOf(call.kind) /\ call.kind \in Methods /\ Serving(q) = (Leader(q) /\ q \notin error /\ q \notin raised /\ call.kind = "generate" /\ driver # "idle")
    BY DEF Types, InMethod, Serving
  <1>1. ASSUME pc'[q] \notin Told \/ ~ Serving(q)' PROVE Y(q, e)'
    <2>1. Flushed \subseteq Told
      BY DEF Syncing
    <2> QED
      BY <1>1, <2>1
  <1>2. ASSUME NEW kind \in Methods, Called(kind) PROVE Y(q, e)'
    BY <1>1, <1>2 DEF Called, Syncing
  <1>3. ASSUME Collect PROVE Y(q, e)'
    BY <1>1, <1>3, DriverSteps DEF Serving
  <1>4. ASSUME Serving(q)' => Serving(q), UNCHANGED <<pc, next, full, engine, version>> PROVE Y(q, e)'
    BY <1>0, <1>b, <1>4
  <1>5. ASSUME Fail \/ UNCHANGED vars PROVE Y(q, e)'
    <2>1. /\ UNCHANGED <<pc, next, full, engine, version, error, raised, call>>
          /\ driver' # "idle" => driver # "idle"
      BY <1>5, DriverSteps
    <2> QED
      BY <1>4, <2>1 DEF Serving, Leader
  \* A move of other ranks, and a move that tells the rank nothing new.
  <1>6. ASSUME NEW R \in SUBSET Ranks, NEW op, op \notin {"gather", "returned"}, Joint(R, op),
               error \subseteq error', raised \subseteq raised', next'[q] = next[q], full'[q] = full[q],
               Serving(q)' /\ e = Mine(q) => Same(e),
               op \notin {"resume", "push", "flush", "release"} \/ q \notin R
        PROVE  Y(q, e)'
    <2>1. /\ \A r \in R : pc[r] = op /\ r \notin raised /\ driver # "idle" /\ pc'[r] = After(r, op)
          /\ \A r \in Ranks : r \notin R => pc'[r] = pc[r]
          /\ driver' = driver /\ call' = call /\ version' = version
      BY <1>6, Moved
    <2>2. Serving(q)' => Serving(q)
      BY <1>6, <2>1 DEF Serving, Leader
    <2>3. CASE ~ Serving(q)' \/ e # Mine(q)
      BY <1>1, <2>3 DEF Mine
    <2>4. CASE Serving(q)' /\ e = Mine(q) /\ q \notin R
      BY <1>0, <1>b, <1>6, <2>1, <2>2, <2>4
    <2>5. CASE Serving(q)' /\ e = Mine(q) /\ q \in R
      <3>1. op \in StepsOf("generate") \ {"gather", "returned", "resume", "push", "flush", "release"}
        BY <1>c, <1>6, <2>1, <2>2, <2>5 DEF Serving
      <3>2. pc'[q] = AfterInGenerate(q, op) /\ pc[q] = op
        BY <2>1, <2>2, <2>5 DEF After, Serving
      <3>3. (pc'[q] \in Told => op \in Told) /\ (pc'[q] \in Flushed => op \in Flushed)
        <4>1. CASE op \in {"resumed", "pushed"}
          <5>1. \A open, n, p : AfterWeights(open, n, p) \notin Flushed
            BY DEF AfterWeights
          <5> QED
            BY <3>2, <4>1, <5>1, PathOfGenerate DEF Syncing
        <4>2. CASE op \in {"load", "flushed", "offload", "share"} \cup Past
          BY <3>1, <3>2, <4>2, PathOfGenerate DEF Syncing, Past
        <4> QED
          BY <3>1, <4>1, <4>2 DEF StepsOf, Syncing
      <3> QED
        BY <1>0, <1>b, <1>6, <2>1, <2>2, <2>5, <3>2, <3>3
    <2> QED
      BY <2>3, <2>4, <2>5
  <1>7. ASSUME NEW R \in SUBSET Ranks, NEW op, Passing(R, op) PROVE Y(q, e)'
    <2>1. /\ op \notin {"gather", "returned", "resume", "push", "flush", "release"} /\ Joint(R, op)
          /\ UNCHANGED <<raised, error, next, full, engine>>
      BY <1>7 DEF Passing
    <2> QED
      BY <1>6, <1>b, <2>1
  <1>8. ASSUME NEW r \in Ranks, Changes(r) PROVE Y(q, e)'
    <2>a. \A R \in SUBSET Ranks, op \in {"load", "offload", "restore", "train"} \cup Agreements :
            Joint(R, op) /\ UNCHANGED <<raised, error, next, full, engine>> => Y(q, e)'
      BY <1>6, <1>b DEF Agreements
    <2>b. \A op \in {"resume", "push", "flush", "release"} :
            /\ Joint({r}, op) /\ q # r /\ error \subseteq error' /\ raised \subseteq raised'
            /\ next'[q] = next[q] /\ full'[q] = full[q] /\ (Serving(q)' /\ e = Mine(q) => Same(e))
            => Y(q, e)'
      BY <1>6
    \* The operation of another rank is on another engine.
    <2>c. ASSUME q # r, Leader(q), e = Mine(q) PROVE ~ (Leader(r) /\ e = Mine(r))
      BY <2>c, OneLeader DEF Mine
    <2>d. ASSUME NEW op, Joint({r}, op), op \in {"resume", "push", "flush", "release"}
          PROVE  /\ pc[r] = op /\ call.kind = "generate" /\ pc'[r] = AfterInGenerate(r, op)
                 /\ call' = call /\ driver' = driver /\ version' = version
      <3>1. /\ \A s \in {r} : pc[s] = op /\ s \notin raised /\ driver # "idle" /\ pc'[s] = After(s, op)
            /\ \A s \in Ranks : s \notin {r} => pc'[s] = pc[s]
            /\ driver' = driver /\ call' = call /\ version' = version
        BY <2>d, Moved
      <3>2. call.kind = "generate"
        BY <2>d, <3>1 DEF InMethod, Types, StepsOf, Methods
      <3> QED
        BY <3>1, <3>2 DEF After
    <2>1. CASE Load(r) \/ Offload(r) \/ Restore(r)
      <3> HIDE DEF Y
      <3>1. \E op \in {"load", "offload", "restore"} : Joint({r}, op)
        BY <2>1, OwnSteps
      <3>2. UNCHANGED <<raised, error, next, full, engine>>
        BY <2>1, Frames
      <3> QED
        BY <2>a, <3>1, <3>2
    <2>2. CASE Train(r)
      BY <2>a, <2>2, TrainStep, Frames
    <2>3. CASE Agree(r)
      <3>1. PICK op \in Agreements :
              /\ \/ raised' = raised \cup Ranks /\ pc' = pc
                 \/ raised' = raised /\ Ranks \cap error = {} /\ Joint(Ranks, op)
              /\ UNCHANGED <<driverVars, error, next, full, engine>>
        BY <2>3, AgreeStep
      <3>2. CASE raised' = raised \cup Ranks
        BY <1>1, <3>2 DEF Serving
      <3>3. CASE raised' = raised /\ Joint(Ranks, op)
        BY <2>a, <3>1, <3>3
      <3> QED
        BY <3>1, <3>2, <3>3
    <2>4. CASE OperationFails(r)
      <3>1. PICK op \in {"resume", "push", "flush"} : Joint({r}, op)
        BY <2>4, OwnSteps
      <3>2. /\ error' = error \cup {r} /\ full' = [full EXCEPT ![r] = EmptyBucket]
            /\ UNCHANGED <<raised, next, engine>>
        BY <2>4, Frames
      <3>3. CASE q = r
        BY <1>1, <3>2, <3>3 DEF Serving
      <3>4. CASE q # r
        <4>1. full'[q] = full[q]
          BY <3>2, <3>4 DEF Types
        <4> QED
          BY <1>b, <2>b, <3>1, <3>2, <3>4, <4>1
      <3> QED
        BY <3>3, <3>4
    <2>5. CASE Resume(r)
      <3>1. Joint({r}, "resume") /\ UNCHANGED <<raised, error, next, full>>
        BY <2>5, OwnSteps, Frames
      <3>2. (Awake(e)' <=> Awake(e) \/ (Leader(r) /\ e = Mine(r))) /\ (Fresh(e)' <=> Fresh(e)) /\ Weights(e)' = Weights(e)
        BY <2>5, EngineFrames
      <3>3. CASE q # r
        BY <2>b, <3>1, <3>2, <3>3
      <3>4. CASE q = r
        <4>1. pc[q] = "resume" /\ pc'[q] = "resumed"
          BY <2>d, <3>1, <3>4, PathOfGenerate
        <4>2. next'[q] = 1
          BY <3>1, <4>1 DEF Bucketed
        <4>3. \A p \in Params : ~ (p < next'[q])
          BY <4>2 DEF Params
        <4>4. Serving(q)' /\ e = Mine(q) => Awake(e)'
          BY <3>2, <3>4 DEF Serving, Leader
        <4> QED
          BY <4>1, <4>3, <4>4 DEF Mine
      <3> QED
        BY <3>3, <3>4
    <2>6. CASE Flush(r)
      <3>1. Joint({r}, "flush") /\ UNCHANGED <<raised, error, next, full>>
        BY <2>6, OwnSteps, Frames
      <3>2. (Awake(e)' <=> Awake(e)) /\ (Fresh(e)' <=> Fresh(e) \/ (Leader(r) /\ e = Mine(r))) /\ Weights(e)' = Weights(e)
        BY <2>6, EngineFrames
      <3>3. CASE q # r
        BY <2>b, <3>1, <3>2, <3>3
      <3>4. CASE q = r
        <4>1. pc[q] = "flush" /\ pc'[q] = "flushed" /\ (Serving(q)' => Serving(q))
          BY <2>d, <3>1, <3>4, PathOfGenerate DEF Serving, Leader
        <4>2. Serving(q)' /\ e = Mine(q) => Fresh(e)'
          BY <3>2, <3>4 DEF Serving, Leader
        <4>3. pc[q] \in Told
          BY <4>1 DEF Syncing
        <4>4. Open(q)' = Open(q) /\ next'[q] = next[q]
          BY <1>b, <3>1
        <4> QED
          BY <1>0, <2>d, <3>1, <3>2, <3>4, <4>1, <4>2, <4>3, <4>4 DEF Mine
      <3> QED
        BY <3>3, <3>4
    <2>7. CASE Release(r)
      <3>1. Joint({r}, "release") /\ UNCHANGED <<raised, error, next, full>>
        BY <2>7, OwnSteps, Frames
      <3>2. (Awake(e)' <=> Awake(e) /\ ~ (Leader(r) /\ e = Mine(r))) /\ (Fresh(e)' <=> Fresh(e)) /\ Weights(e)' = Weights(e)
        BY <2>7, EngineFrames
      <3>3. CASE q # r
        <4>1. Serving(q)' => Leader(q)
          BY DEF Serving, Leader
        <4> QED
          BY <2>b, <2>c, <3>1, <3>2, <3>3, <4>1
      <3>4. CASE q = r
        <4>1. pc'[q] = "returned"
          BY <2>d, <3>1, <3>4, PathOfGenerate
        <4> QED
          BY <1>1, <4>1 DEF Syncing
      <3> QED
        BY <3>3, <3>4
    <2>8. CASE GenerateFails(r)
      <3>1. raised' = raised \cup {r} /\ UNCHANGED <<driverVars, pc, error, next, full>>
        BY <2>8, Frames
      <3>2. (Awake(e)' <=> Awake(e) /\ ~ (Leader(r) /\ e = Mine(r))) /\ (Fresh(e)' <=> Fresh(e)) /\ Weights(e)' = Weights(e)
        BY <2>8, EngineFrames
      <3>3. CASE q # r
        <4>1. Serving(q)' => Serving(q) /\ Leader(q)
          BY <3>1 DEF Serving, Leader, driverVars
        <4>2. Open(q)' = Open(q) /\ next'[q] = next[q] /\ pc'[q] = pc[q] /\ version' = version
          BY <1>b, <3>1 DEF driverVars
        <4> QED
          BY <1>0, <2>c, <3>2, <3>3, <4>1, <4>2 DEF Mine
      <3>4. CASE q = r
        BY <1>1, <3>1, <3>4 DEF Serving
      <3> QED
        BY <3>3, <3>4
    <2>9. CASE Push(r)
      <3>1. /\ Joint({r}, "push") /\ UNCHANGED <<raised, error, next>>
            /\ full' = [full EXCEPT ![r] = EmptyBucket]
        BY <2>9, OwnSteps, Frames
      <3>2. /\ Awake(e)' <=> Awake(e)
            /\ ~ (Leader(r) /\ e = Mine(r)) => (Fresh(e)' <=> Fresh(e)) /\ Weights(e)' = Weights(e)
            /\ Leader(r) /\ e = Mine(r) => \A p \in Params :
                 Weights(e)'[p] = IF p \in Open(r) THEN full[r][p] ELSE Weights(e)[p]
        BY <2>9, EngineFrames
      <3>3. CASE q # r
        <4>1. Serving(q)' => Leader(q)
          BY DEF Serving, Leader
        <4>2. full'[q] = full[q]
          BY <3>1, <3>3 DEF Types
        <4> QED
          BY <2>b, <2>c, <3>1, <3>2, <3>3, <4>1, <4>2
      <3>4. CASE q = r
        <4>1. pc[q] = "push" /\ pc'[q] = "pushed" /\ (Serving(q)' => Serving(q)) /\ version' = version
          BY <2>d, <3>1, <3>4, PathOfGenerate DEF Serving, Leader
        <4>2. pc[q] \in Told /\ pc'[q] \notin Flushed
          BY <4>1 DEF Syncing
        <4>3. next'[q] = next[q] /\ \A p \in Open(q) : full[q][p] = {version}
          BY <3>1 DEF Bucketed
        <4>4. Serving(q) => Leader(q)
          BY DEF Serving
        <4>5. ASSUME Serving(q)', e = Mine(q)
              PROVE  Awake(e)' /\ \A p \in Params : p < next'[q] => Weights(e)'[p] = {version'}
          BY <1>0, <3>2, <3>4, <4>1, <4>2, <4>3, <4>4, <4>5
        <4> QED
          BY <4>2, <4>5 DEF Mine
      <3> QED
        BY <3>3, <3>4
    <2>10. CASE Gather(r)
      <3> DEFINE p == next[r]
      <3>1. /\ full' = [s \in Ranks |-> [w \in Open(s) \cup {p} |->
                          IF w = p THEN {shard[t] : t \in Ranks} ELSE full[s][w]]]
            /\ next' = [s \in Ranks |-> p + 1]
            /\ UNCHANGED <<driverVars, raised, error, engine>>
        BY <2>10, GatherStep
      <3>2. p \in Params /\ next[q] = p /\ pc[q] = "gather" /\ pc'[q] \in {"push", "flush", "gather"}
        BY <2>10, GatherTyped
      <3> HIDE DEF p
      <3>3. Open(q)' = Open(q) \cup {p} /\ next'[q] = p + 1
        BY <3>1 DEF Open
      <3>4. Same(e) /\ version' = version /\ (Serving(q)' => Serving(q))
        BY <1>b, <3>1 DEF Serving, Leader, driverVars
      <3>5. pc[q] \in Told /\ pc'[q] \notin Flushed
        BY <3>2 DEF Syncing
      <3>6. \A w \in Params : w < next'[q] /\ w \notin Open(q)' => w < next[q] /\ w \notin Open(q)
        BY <3>2, <3>3 DEF Params
      <3> QED
        BY <1>0, <3>4, <3>5, <3>6 DEF Mine
    <2> QED
      BY <1>8, <2>1, <2>2, <2>3, <2>4, <2>5, <2>6, <2>7, <2>8, <2>9, <2>10, Zenon DEF Changes
  <1> QED
    BY <1>2, <1>3, <1>5, <1>7, <1>8, StepCases

\* The buckets close after the same parameter on all ranks.
LEMMA InStepKept ==
  ASSUME IInv, [Next]_vars
  PROVE  InStep'
  <1> USE DEF IInv
  <1> DEFINE Both == {"gather", "push"}
             SameNext == \A r, q \in Ranks : next[r] = next[q]
             Z(r, q) == /\ Stage(pc[r]) = Stage(pc[q])
                        /\ pc[r] \in Both /\ pc[q] = pc[r] => Open(r) = Open(q) /\ bytes[r] = bytes[q]
             Goal == SameNext' /\ (call'.kind = "generate" => \A r, q \in Ranks : Z(r, q)')
  <1>0. SameNext /\ (call.kind = "generate" => \A r, q \in Ranks : Z(r, q))
    BY DEF InStep
  <1> SUFFICES Goal
    BY DEF InStep
  <1>1. ASSUME SameNext', call'.kind # "generate" PROVE Goal
    BY <1>1
  <1>2. ASSUME UNCHANGED <<next, call, pc, full, bytes>> PROVE Goal
    BY <1>0, <1>2 DEF Open
  <1>3. ASSUME NEW kind \in Methods, Called(kind) PROVE Goal
    BY <1>3 DEF Called
  <1>4. ASSUME Collect \/ Fail \/ UNCHANGED vars PROVE Goal
    BY <1>2, <1>4, DriverSteps
  \* A move within a stretch.
  <1>5. ASSUME NEW R \in SUBSET Ranks, NEW op, op \notin {"gather", "returned"} \cup Agreements, Joint(R, op),
               next' = next, \A q \in Ranks : q \notin R => full'[q] = full[q] /\ bytes'[q] = bytes[q]
        PROVE  Goal
    <2>1. /\ \A r \in R : pc[r] = op /\ r \notin raised /\ driver # "idle" /\ pc'[r] = After(r, op)
          /\ \A r \in Ranks : r \notin R => pc'[r] = pc[r]
          /\ call' = call
      BY <1>5, Moved
    <2> SUFFICES ASSUME call.kind = "generate" PROVE \A r, q \in Ranks : Z(r, q)'
      BY <1>0, <1>5, <2>1
    <2>2. ASSUME NEW r \in Ranks
          PROVE  /\ Stage(pc'[r]) = Stage(pc[r])
                 /\ pc'[r] \in Both => pc'[r] = pc[r] /\ Open(r)' = Open(r) /\ bytes'[r] = bytes[r]
      <3>1. CASE r \notin R
        BY <1>5, <2>1, <3>1 DEF Open
      <3>2. CASE r \in R
        <4>1. op \in StepsOf("generate") \ ({"gather", "returned"} \cup Agreements)
          BY <1>5, <2>1, <3>2 DEF InMethod
        <4>2. op \in {"load", "resume", "push", "flush", "offload", "share", "generate", "broadcast", "split", "release"}
          BY <4>1 DEF StepsOf, Syncing, Past, Agreements
        <4>3. pc[r] = op /\ pc'[r] = AfterInGenerate(r, op)
          BY <2>1, <3>2 DEF After
        <4>4. \/ op \in {"load", "resume"} /\ pc'[r] \in {"resume", "resumed"}
              \/ op = "push" /\ pc'[r] = "pushed"
              \/ op = "flush" /\ pc'[r] = "flushed"
              \/ op \in {"offload", "share"} \cup Past /\ pc'[r] \in {"share"} \cup Past
          BY <4>2, <4>3, PathOfGenerate DEF Past
        <4> QED
          BY <4>3, <4>4 DEF Stage, Past
      <3> QED
        BY <3>1, <3>2
    <2> QED
      BY <1>0, <2>2
  <1>6. ASSUME NEW R \in SUBSET Ranks, NEW op, Passing(R, op) PROVE Goal
    <2>1. /\ op \notin {"gather", "returned"} \cup Agreements /\ Joint(R, op) /\ UNCHANGED <<next, full, bytes>>
      BY <1>6 DEF Passing, Agreements
    <2> QED
      BY <1>5, <2>1
  \* All the ranks arrive at the same step with the same bucket.
  <1>7. ASSUME SameNext',
               \A r, q \in Ranks : pc'[r] = pc'[q] /\ (pc'[r] \in Both => Open(r)' = Open(q)' /\ bytes'[r] = bytes'[q])
        PROVE  Goal
    BY <1>7
  <1>8. ASSUME NEW r \in Ranks, Changes(r) PROVE Goal
    <2> HIDE DEF Goal
    <2>a. \A R \in SUBSET Ranks, op \in {"load", "offload", "restore", "train", "resume", "push", "flush", "release"} :
            /\ Joint(R, op) /\ next' = next /\ \A q \in Ranks : q \notin R => full'[q] = full[q] /\ bytes'[q] = bytes[q]
            => Goal
      BY <1>5 DEF Agreements
    <2>1. CASE Load(r) \/ Offload(r) \/ Restore(r) \/ Resume(r) \/ Flush(r) \/ Release(r)
      <3>1. \E op \in {"load", "offload", "restore", "resume", "flush", "release"} : Joint({r}, op)
        BY <2>1, OwnSteps
      <3>2. UNCHANGED <<next, full, bytes>>
        BY <2>1, Frames
      <3> QED
        BY <2>a, <3>1, <3>2
    <2>2. CASE Train(r)
      BY <2>a, <2>2, TrainStep, Frames
    <2>3. CASE Push(r) \/ OperationFails(r)
      <3>1. \E op \in {"resume", "push", "flush"} : Joint({r}, op)
        BY <2>3, OwnSteps
      <3>2. full' = [full EXCEPT ![r] = EmptyBucket] /\ bytes' = [bytes EXCEPT ![r] = 0] /\ next' = next
        BY <2>3, Frames
      <3>3. \A q \in Ranks : q \notin {r} => full'[q] = full[q] /\ bytes'[q] = bytes[q]
        BY <3>2 DEF Types
      <3> QED
        BY <2>a, <3>1, <3>2, <3>3
    <2>4. CASE GenerateFails(r)
      BY <1>2, <2>4, Frames DEF driverVars
    <2>5. CASE Agree(r)
      <3>1. PICK op \in Agreements :
              /\ \A q \in Ranks : At(q, op)
              /\ pc' = pc \/ Joint(Ranks, op)
              /\ UNCHANGED <<driverVars, next, full, bytes>>
        BY <2>5, AgreeStep
      <3>2. CASE pc' = pc
        BY <1>2, <3>1, <3>2 DEF driverVars
      <3>3. CASE Joint(Ranks, op)
        <4>1. op \notin {"gather", "returned"}
          BY DEF Agreements
        <4>2. \A q \in Ranks : pc[q] = op /\ q \notin raised /\ driver # "idle" /\ pc'[q] = After(q, op)
          BY <3>3, <4>1, Moved
        <4>3. call.kind = "generate"
          <5>1. op \in StepsOf(call.kind) /\ call.kind \in Methods
            BY <4>2 DEF InMethod, Types
          <5> QED
            BY <5>1 DEF StepsOf, Methods, Agreements
        <4>4. \A q \in Ranks : Open(q) = {} /\ bytes[q] = 0 /\ next[q] = next[r]
          BY <1>0, <4>1, <4>2 DEF Bucketed, Agreements
        <4>5. \A q \in Ranks : pc'[q] = IF op = "flushed" THEN "offload" ELSE AfterWeights({}, 0, next[r])
          BY <4>2, <4>3, <4>4, PathOfGenerate DEF After, Agreements
        <4>6. \A q \in Ranks : Open(q)' = {} /\ bytes'[q] = 0
          BY <3>1, <4>4 DEF Open
        <4>7. SameNext'
          BY <1>0, <3>1
        <4> QED
          BY <1>7, <4>5, <4>6, <4>7
      <3> QED
        BY <3>1, <3>2, <3>3
    <2>6. CASE Gather(r)
      <3> DEFINE p == next[r]
                 o == Open(r) \cup {p}
                 n == bytes[r] + Sizes[p]
      <3>1. /\ full' = [s \in Ranks |-> [w \in Open(s) \cup {p} |->
                          IF w = p THEN {shard[t] : t \in Ranks} ELSE full[s][w]]]
            /\ bytes' = [s \in Ranks |-> bytes[s] + Sizes[p]]
            /\ next' = [s \in Ranks |-> p + 1]
            /\ pc' = [s \in Ranks |-> AfterWeights(Open(s) \cup {p}, bytes'[s], p + 1)]
        BY <2>6, GatherStep
      <3>2. \A q \in Ranks : Open(q) = Open(r) /\ bytes[q] = bytes[r]
        BY <2>6, GatherTyped
      <3>3. \A q \in Ranks : next'[q] = p + 1 /\ Open(q)' = o /\ bytes'[q] = n
        BY <3>1, <3>2 DEF Open
      <3>4. \A q \in Ranks : pc'[q] = AfterWeights(o, n, p + 1)
        BY <3>1, <3>2, <3>3
      <3> HIDE DEF p, o, n
      <3> QED
        BY <1>7, <3>3, <3>4
    <2> QED
      BY <1>8, <2>1, <2>2, <2>3, <2>4, <2>5, <2>6, Zenon DEF Changes
  <1> QED
    BY <1>3, <1>4, <1>6, <1>8, StepCases

-----------------------------------------------------------------------------
(* The theorems.                                                           *)

\* It holds at first,
LEMMA InitIInv == Init => IInv
  <1> SUFFICES ASSUME Init PROVE IInv
    OBVIOUS
  <1>1. Types
    <2>1. {0} \in SUBSET Nat /\ "returned" \in Steps
      BY DEF Steps, StepsOf, Methods
    <2>2. EmptyBucket \in [{} -> SUBSET Nat]
      BY DEF EmptyBucket
    <2>a. EmptyBucket \in Buckets
      BY <2>2 DEF Buckets
    <2>3. engine \in [Engines -> EngineStates]
      BY <2>1 DEF Init, EngineStates
    <2>4. pc \in [Ranks -> Steps]
      BY <2>1 DEF Init
    <2>5. full \in [Ranks -> Buckets]
      BY <2>a DEF Init
    <2>6. /\ shard \in [Ranks -> Nat] /\ next \in [Ranks -> Nat \ {0}] /\ bytes \in [Ranks -> Nat]
          /\ on_gpu \in [Ranks -> SUBSET {"params", "optimizer"}]
      BY DEF Init
    <2>7. driver = "idle" /\ call.kind \in Methods /\ raised = {} /\ error = {} /\ version = 0
      BY DEF Init, Methods
    <2> QED
      BY <2>3, <2>4, <2>5, <2>6, <2>7 DEF Types
  <1>2. InMethod
    BY DEF Init, InMethod, StepsOf
  <1>3. Raising /\ Shards /\ Devices /\ Groups
    BY DEF Init, Raising, Shards, Devices, Groups, Off, Past
  <1>4. Asleep
    <2>1. \A r \in Ranks : Mine(r) \in Engines
      BY EngineOf DEF Mine
    <2>2. \A e \in Engines : ~ Awake(e)
      BY DEF Init, Awake
    <2> QED
      BY <2>1, <2>2 DEF Asleep
  <1>5. Bucketed
    BY DEF Init, Bucketed, Open, EmptyBucket
  <1>6. Synced
    BY DEF Init, Synced, Serving
  <1>7. InStep
    BY DEF Init, InStep
  <1> QED
    BY <1>1, <1>2, <1>3, <1>4, <1>5, <1>6, <1>7 DEF IInv

\* every step keeps it,
LEMMA NextIInv == IInv /\ [Next]_vars => IInv'
  <1> SUFFICES ASSUME IInv, [Next]_vars PROVE IInv'
    OBVIOUS
  <1> QED
    BY TypesKept, MethodKept, RaisingKept, ShardsKept, DevicesKept, GroupsKept, AsleepKept, BucketedKept,
       SyncedKept, InStepKept
       DEF IInv

\* so it always holds.
LEMMA Invariant == Spec => []IInv
  BY InitIInv, NextIInv, PTL DEF Spec

\* An engine that generates is awake and holds, with an empty cache, all the
\* weights of the last update: the property of the bucket-wise weight sync.
THEOREM EngineIsCurrent == Spec => []ServesNewestWeights
  <1>1. IInv => ServesNewestWeights
    <2> SUFFICES ASSUME IInv, NEW r \in Ranks, At(r, "generate")
                 PROVE  /\ engine[r \div TPSize].awake /\ engine[r \div TPSize].fresh
                        /\ \A p \in Params : engine[r \div TPSize].weights[p] = {version}
      BY DEF ServesNewestWeights
    <2>1. pc[r] = "generate" /\ r \notin raised /\ driver # "idle"
      BY DEF At
    <2>2. Leader(r) /\ r \notin error
      BY <2>1 DEF IInv, InMethod, Agreements
    <2>3. call.kind = "generate"
      BY <2>1 DEF IInv, InMethod, Types, StepsOf, Methods
    <2>4. Serving(r)
      BY <2>1, <2>2, <2>3 DEF Serving
    <2>5. next[r] > Len(Sizes) /\ Open(r) = {}
      BY <2>1, <2>3 DEF IInv, Bucketed
    <2>6. \A p \in Params : p < next[r] /\ p \notin Open(r)
      BY <2>5, MeshAssumption DEF Params, IInv, Types
    <2>7. Awake(Mine(r)) /\ Fresh(Mine(r)) /\ \A p \in Params : Weights(Mine(r))[p] = {version}
      BY <2>1, <2>4, <2>6 DEF IInv, Synced
    <2> QED
      BY <2>7 DEF Awake, Fresh, Weights, Mine
  <1> QED
    BY <1>1, Invariant, PTL

\* The engine's memory and the actor's offloaded parts are never on the device
\* together while either of them computes.
THEOREM DeviceIsShared == Spec => []MemoryIsExclusive
  <1>1. IInv => MemoryIsExclusive
    <2> SUFFICES ASSUME IInv, NEW r \in Ranks
                 PROVE  /\ At(r, "generate") => \A q \in Peers(r, TPSize) : on_gpu[q] \cap Offloaded = {}
                        /\ At(r, "forward") \/ At(r, "train") => ~ engine[r \div TPSize].awake
      BY DEF MemoryIsExclusive
    <2>1. ASSUME At(r, "generate"), NEW q \in Peers(r, TPSize) PROVE on_gpu[q] \cap Offloaded = {}
      <3>1. pc[r] = "generate" /\ q \in Ranks /\ Mine(q) = Mine(r)
        BY <2>1 DEF At, Peers, Mine
      <3>2. call.kind = "generate"
        BY <3>1 DEF IInv, InMethod, Types, StepsOf, Methods
      <3>3. pc[q] \in Past
        BY <3>1, <3>2 DEF IInv, Groups, Past
      <3> QED
        BY <3>1, <3>2, <3>3 DEF IInv, Devices, Off
    <2>2. ASSUME At(r, "forward") \/ At(r, "train") PROVE ~ engine[r \div TPSize].awake
      <3>1. pc[r] \in {"forward", "train"}
        BY <2>2 DEF At
      <3>2. call.kind # "generate"
        BY <3>1 DEF IInv, InMethod, StepsOf, Syncing, Past
      <3>3. ~ Awake(Mine(r))
        BY <3>2, EngineOf DEF IInv, Asleep, Mine
      <3> QED
        BY <3>3 DEF Awake, Mine
    <2> QED
      BY <2>1, <2>2
  <1> QED
    BY <1>1, Invariant, PTL

\* The operation that comes before an agreement.
Before(op) ==
  CASE op = "resumed" -> {"load", "resume"}
    [] op = "pushed"  -> {"push"}
    [] op = "flushed" -> {"flush"}

\* Who waits in an all-gather of the whole group waits for nobody who left.
NobodyLeftBehind ==
  \A r, q \in Ranks :
    /\ At(r, "gather") => At(q, "gather") /\ next[q] = next[r]
    /\ \A op \in Agreements : At(r, op) => \E step \in {op} \cup Before(op) : At(q, step)

\* The buckets close at the same parameters on all ranks, and a failure is
\* learnt by all of them: a rank that waits in an all-gather of the whole
\* group, of a weight or of the errors, finds each other rank there, for the
\* same parameter, or about to arrive, and never gone.
THEOREM CollectivesMatch == Spec => []NobodyLeftBehind
  <1>1. IInv => NobodyLeftBehind
    <2> SUFFICES ASSUME IInv, NEW r \in Ranks, NEW q \in Ranks
                 PROVE  /\ At(r, "gather") => At(q, "gather") /\ next[q] = next[r]
                        /\ \A op \in Agreements : At(r, op) => \E step \in {op} \cup Before(op) : At(q, step)
      BY DEF NobodyLeftBehind
    <2>1. ASSUME pc[r] \in {"gather"} \cup Agreements, r \notin raised, driver # "idle"
          PROVE  /\ call.kind = "generate" /\ Stage(pc[q]) = Stage(pc[r]) /\ next[q] = next[r]
                 /\ pc[q] \in StepsOf("generate") /\ q \notin raised
      <3>1. call.kind = "generate"
        BY <2>1 DEF IInv, InMethod, Types, StepsOf, Methods, Agreements
      <3>2. Stage(pc[q]) = Stage(pc[r]) /\ next[q] = next[r] /\ pc[q] \in StepsOf("generate")
        BY <3>1 DEF IInv, InStep, InMethod
      <3>3. pc[q] # "generate"
        BY <2>1, <3>2 DEF Stage, Agreements, Past
      <3>4. q \notin raised
        BY <2>1, <3>3 DEF IInv, Raising
      <3> QED
        BY <3>1, <3>2, <3>4
    <2>2. ASSUME At(r, "gather") PROVE At(q, "gather") /\ next[q] = next[r]
      <3>1. pc[r] = "gather" /\ r \notin raised /\ driver # "idle"
        BY <2>2 DEF At
      <3>2. pc[q] = "gather"
        BY <2>1, <3>1 DEF Stage, StepsOf, Syncing, Past
      <3> QED
        BY <2>1, <3>1, <3>2 DEF At
    <2>3. ASSUME NEW op \in Agreements, At(r, op) PROVE \E step \in {op} \cup Before(op) : At(q, step)
      <3>1. pc[r] = op /\ r \notin raised /\ driver # "idle"
        BY <2>3 DEF At
      <3>2. Stage(pc[q]) = Stage(op) /\ pc[q] \in StepsOf("generate") /\ q \notin raised
        BY <2>1, <3>1
      <3>3. pc[q] \in {op} \cup Before(op)
        BY <3>2 DEF Stage, Before, Agreements, StepsOf, Syncing, Past
      <3> QED
        BY <3>1, <3>2, <3>3 DEF At
    <2> QED
      BY <2>2, <2>3
  <1> QED
    BY <1>1, Invariant, PTL

-----------------------------------------------------------------------------
(* Rows: masks, padding, parts and their concatenation.                    *)

\* The active rows up to row i
UpTo(mask, i) == {j \in mask : j <= i}

\* and its place among them
Place(mask, i) == Cardinality(UpTo(mask, i))

\* A later row has a later place among the active ones.
LEMMA Places ==
  ASSUME NEW mask \in SUBSET Nat, IsFiniteSet(mask)
  PROVE  /\ Cardinality(mask) \in Nat
         /\ \A i \in mask : Place(mask, i) \in 1 .. Cardinality(mask)
         /\ \A i, j \in mask : i < j => Place(mask, i) < Place(mask, j)
  <1>1. Cardinality(mask) \in Nat
    BY FS_CardinalityType
  <1>2. ASSUME NEW i \in mask
        PROVE  IsFiniteSet(UpTo(mask, i)) /\ Place(mask, i) \in 0 .. Cardinality(mask)
    <2>1. UpTo(mask, i) \in SUBSET mask
      BY DEF UpTo
    <2>2. IsFiniteSet(UpTo(mask, i)) /\ Cardinality(UpTo(mask, i)) <= Cardinality(mask)
      BY <2>1, FS_Subset
    <2>3. Cardinality(UpTo(mask, i)) \in Nat
      BY <2>2, FS_CardinalityType
    <2> QED
      BY <1>1, <2>2, <2>3 DEF Place
  <1>3. ASSUME NEW i \in mask PROVE Place(mask, i) \in 1 .. Cardinality(mask)
    <2>1. UpTo(mask, i) # {}
      BY DEF UpTo
    <2>2. Cardinality(UpTo(mask, i)) # 0
      BY <1>2, <2>1, FS_EmptySet
    <2> QED
      BY <1>1, <1>2, <2>2 DEF Place
  <1>4. ASSUME NEW i \in mask, NEW j \in mask, i < j PROVE Place(mask, i) < Place(mask, j)
    <2>a. ASSUME NEW k \in mask, k <= i PROVE k <= j
      <3>1. k \in Nat /\ i \in Nat /\ j \in Nat
        OBVIOUS
      <3> QED
        BY <1>4, <2>a, <3>1
    <2>b. ~ (j <= i) /\ j <= j
      <3>1. i \in Nat /\ j \in Nat
        OBVIOUS
      <3> QED
        BY <1>4, <3>1
    <2>d. \A k \in mask : k <= i => k <= j
      BY <2>a
    <2>1. UpTo(mask, i) \in SUBSET UpTo(mask, j) /\ j \in UpTo(mask, j) /\ j \notin UpTo(mask, i)
      BY <2>b, <2>d DEF UpTo
    <2>2. /\ Cardinality(UpTo(mask, i)) <= Cardinality(UpTo(mask, j))
          /\ Cardinality(UpTo(mask, j)) = Cardinality(UpTo(mask, i)) => UpTo(mask, j) = UpTo(mask, i)
      BY <1>2, <2>1, FS_Subset
    <2> QED
      BY <1>1, <1>2, <2>1, <2>2 DEF Place
  <1> QED
    BY <1>1, <1>3, <1>4

\* Rows in ascending order
Ascending(rows) == \A i, j \in DOMAIN rows : i < j => rows[i] < rows[j]

\* The active rows can be put in ascending order.
LEMMA AscendingExists ==
  ASSUME NEW mask \in SUBSET Nat, IsFiniteSet(mask)
  PROVE  \E rows \in [1 .. Cardinality(mask) -> mask] : Ascending(rows)
  <1> DEFINE n == Cardinality(mask)
             place == [i \in mask |-> Place(mask, i)]
  <1>1. n \in Nat /\ IsFiniteSet(1 .. n) /\ Cardinality(1 .. n) = n
    BY Places, FS_Interval
  <1>2. place \in [mask -> 1 .. n] /\ \A i, j \in mask : i < j => place[i] < place[j]
    BY Places
  <1> HIDE DEF place
  <1>3. place \in Injection(mask, 1 .. n)
    <2>1. ASSUME NEW i \in mask, NEW j \in mask, place[i] = place[j] PROVE i = j
      <3>1. place[i] \in Nat /\ place[j] \in Nat /\ i \in Nat /\ j \in Nat
        BY <1>2, <1>1
      <3> QED
        BY <1>2, <2>1, <3>1
    <2> QED
      BY <1>2, <2>1 DEF Injection, IsInjective
  <1>4. place \in Surjection(mask, 1 .. n)
    BY <1>1, <1>3, FS_Injection
  <1>5. \A k \in 1 .. n : \E i \in mask : place[i] = k
    BY <1>4 DEF Surjection
  <1> HIDE DEF n
  <1> DEFINE rows == [k \in 1 .. n |-> CHOOSE i \in mask : place[i] = k]
  <1>6. \A k \in 1 .. n : rows[k] \in mask /\ place[rows[k]] = k
    BY <1>5
  <1>7. rows \in [1 .. n -> mask]
    BY <1>6
  <1>8. ASSUME NEW a \in 1 .. n, NEW b \in 1 .. n, a < b PROVE rows[a] < rows[b]
    <2>1. rows[a] \in Nat /\ rows[b] \in Nat /\ place[rows[a]] = a /\ place[rows[b]] = b
      BY <1>6
    <2>2. rows[a] \in mask /\ rows[b] \in mask
      BY <1>6
    <2> HIDE DEF rows
    <2>3. ~ (rows[b] < rows[a]) /\ rows[a] # rows[b]
      BY <1>2, <1>8, <2>1, <2>2
    <2> QED
      BY <2>1, <2>3
  <1>9. Ascending(rows)
    <2>1. DOMAIN rows = 1 .. n
      OBVIOUS
    <2> HIDE DEF rows
    <2> QED
      BY <1>8, <2>1 DEF Ascending
  <1> QED
    BY <1>7, <1>9 DEF n

\* Every active row is found at its place among the active rows.
LEMMA ActiveRowAtPlace ==
  ASSUME NEW mask \in SUBSET Nat, IsFiniteSet(mask)
  PROVE  /\ ActiveRows(mask) \in [1 .. Cardinality(mask) -> mask]
         /\ \A i \in mask : ActiveRows(mask)[Place(mask, i)] = i
  <1> DEFINE n == Cardinality(mask)
             rows == ActiveRows(mask)
  <1>1. n \in Nat /\ IsFiniteSet(1 .. n) /\ Cardinality(1 .. n) = n
    BY Places, FS_Interval
  <1>2. rows \in [1 .. n -> mask] /\ \A i, j \in 1 .. n : i < j => rows[i] < rows[j]
    <2>1. PICK x \in [1 .. n -> mask] : \A i, j \in DOMAIN x : i < j => x[i] < x[j]
      BY AscendingExists DEF Ascending
    <2>2. rows \in [1 .. n -> mask] /\ \A i, j \in DOMAIN rows : i < j => rows[i] < rows[j]
      BY <2>1 DEF ActiveRows
    <2> HIDE DEF rows, n
    <2> QED
      BY <2>2
  <1> HIDE DEF rows
  <1>3. rows \in Injection(1 .. n, mask)
    <2>1. ASSUME NEW i \in 1 .. n, NEW j \in 1 .. n, rows[i] = rows[j] PROVE i = j
      <3>1. rows[i] \in Nat /\ rows[j] \in Nat
        BY <1>2
      <3> HIDE DEF n
      <3> QED
        BY <1>1, <1>2, <2>1, <3>1
    <2> QED
      BY <1>2, <2>1 DEF Injection, IsInjective
  <1>4. rows \in Surjection(1 .. n, mask)
    BY <1>1, <1>3, FS_Injection
  <1>5. \A i \in mask : \E k \in 1 .. n : rows[k] = i
    BY <1>4 DEF Surjection
  <1> HIDE DEF n
  <1>6. ASSUME NEW k \in 1 .. n PROVE Place(mask, rows[k]) = k
    <2> DEFINE part == [m \in 1 .. k |-> rows[m]]
               up == UpTo(mask, rows[k])
    <2>0. \A m \in 1 .. k : m \in 1 .. n
      BY <1>1
    <2>1. ASSUME NEW m \in 1 .. k PROVE rows[m] \in up
      <3>1. rows[m] \in mask /\ rows[m] \in Nat /\ rows[k] \in Nat /\ m \in 1 .. n
        BY <1>2, <2>0
      <3>2. m < k \/ m = k
        BY <1>1
      <3>3. rows[m] <= rows[k]
        BY <1>2, <3>1, <3>2
      <3> QED
        BY <3>1, <3>3 DEF UpTo
    <2>2. ASSUME NEW i \in up PROVE \E m \in 1 .. k : rows[m] = i
      <3>1. i \in mask /\ i <= rows[k]
        BY DEF UpTo
      <3>2. PICK m \in 1 .. n : rows[m] = i
        BY <1>5, <3>1
      <3>3. rows[m] \in Nat /\ rows[k] \in Nat
        BY <1>2
      <3>4. ~ (k < m)
        BY <1>2, <3>1, <3>2, <3>3
      <3>5. m \in 1 .. k
        BY <3>4, <1>1
      <3> QED
        BY <3>2, <3>5
    <2>3. ASSUME NEW a \in 1 .. k, NEW b \in 1 .. k, rows[a] = rows[b] PROVE a = b
      BY <1>3, <2>0, <2>3 DEF Injection, IsInjective
    <2> HIDE DEF up
    <2>4. part \in Bijection(1 .. k, up)
      <3>1. part \in [1 .. k -> up]
        BY <2>1
      <3>2. part \in Injection(1 .. k, up)
        BY <2>3, <3>1 DEF Injection, IsInjective
      <3>3. part \in Surjection(1 .. k, up)
        BY <2>2, <3>1 DEF Surjection
      <3> QED
        BY <3>2, <3>3 DEF Bijection
    <2>5. ExistsBijection(1 .. k, up) /\ k \in Nat
      BY <2>4, <1>1 DEF ExistsBijection
    <2> QED
      BY <2>5, FS_CountingElements DEF up, Place
  <1>7. ASSUME NEW i \in mask PROVE rows[Place(mask, i)] = i
    <2>1. PICK k \in 1 .. n : rows[k] = i
      BY <1>5
    <2> QED
      BY <1>6, <2>1
  <1> QED
    BY <1>2, <1>7 DEF rows, n

\* Products of natural numbers.
LEMMA Products ==
  ASSUME NEW a \in Nat, NEW b \in Nat, NEW c \in Nat
  PROVE  a * b \in Nat /\ a * b = b * a /\ (a + c) * b = a * b + c * b
         /\ (a * b) * c = a * (b * c) /\ (a >= 1 /\ b >= 1 => a * b >= 1)
  OBVIOUS

\* Quotient and remainder are unique.
LEMMA Cell ==
  ASSUME NEW n \in Nat \ {0}, NEW d \in Nat, NEW m \in 0 .. n - 1
  PROVE  n * d + m \in Nat /\ (n * d + m) \div n = d /\ (n * d + m) % n = m
  <1> DEFINE a == n * d + m
             q == a \div n
             x == a % n
  <1>1. a \in Nat /\ n * d \in Nat
    BY Products
  <1>2. q \in Nat /\ x \in 0 .. n - 1 /\ a = n * q + x
    BY <1>1, DivMod
  <1> HIDE DEF q, x
  <1>3. /\ n * q \in Nat
        /\ d < q => n * d + n <= n * q
        /\ q < d => n * q + n <= n * d
    BY <1>2, Multiples
  <1>4. n * q + x = n * d + m
    BY <1>2
  <1>5. ~ (d < q) /\ ~ (q < d)
    BY <1>1, <1>2, <1>3, <1>4
  <1>6. d = q
    BY <1>2, <1>5
  <1>7. x = m
    BY <1>1, <1>2, <1>4, <1>6
  <1> QED
    BY <1>1, <1>6, <1>7 DEF q, x

\* Rounding up to a multiple.
LEMMA RoundUp ==
  ASSUME NEW n \in Nat \ {0}, NEW w \in Nat \ {0}
  PROVE  (-n) % w \in 0 .. w - 1 /\ \E k \in Nat \ {0} : n + ((-n) % w) = w * k
  <1> DEFINE d == (-n) \div w
             m == (-n) % w
  <1>1. d \in Int /\ m \in 0 .. w - 1 /\ -n = w * d + m
    OBVIOUS
  <1> HIDE DEF d, m
  <1>2. -d \in Int /\ w * (-d) = -(w * d) /\ w * d \in Int
    BY <1>1
  <1>3. n + m = w * (-d)
    BY <1>1, <1>2
  <1>4. ASSUME d >= 0 PROVE FALSE
    <2>1. w * d >= 0
      BY <1>1, <1>4
    <2> QED
      BY <1>1, <1>2, <2>1
  <1>5. -d \in Nat \ {0}
    BY <1>1, <1>4
  <1> QED
    BY <1>1, <1>3, <1>5 DEF m

\* A stretch of n rows
Slice(rows, from, n) == [j \in 1 .. n |-> rows[from + j]]

\* Padding keeps the rows, and makes a whole number of them for every rank.
LEMMA PaddedRows ==
  ASSUME NEW rows \in Seq(Nat), rows # <<>>
  PROVE  /\ Padded(rows) \in Seq(Nat)
         /\ \E k \in Nat \ {0} : Len(Padded(rows)) = World * k
         /\ Len(rows) <= Len(Padded(rows))
         /\ \A i \in 1 .. Len(rows) : Padded(rows)[i] = rows[i]
  <1> DEFINE n == Len(rows)
             m == (-n) % World
             fill == [i \in 1 .. m |-> rows[((i - 1) % n) + 1]]
  <1>1. n \in Nat \ {0} /\ World \in Nat \ {0}
    BY MeshAssumption
  <1>3. \A i \in 1 .. n : rows[i] \in Nat
    OBVIOUS
  <1>4. Padded(rows) = rows \o fill
    BY DEF Padded
  <1> HIDE DEF n
  <1>2. m \in 0 .. World - 1 /\ \E k \in Nat \ {0} : n + m = World * k
    BY <1>1, RoundUp
  <1> HIDE DEF m
  <1>a. m \in 0 .. World - 1
    BY <1>2
  <1>d. m \in Nat
    BY <1>1, <1>a
  <1>5. ASSUME NEW i \in 1 .. m PROVE ((i - 1) % n) + 1 \in 1 .. n
    <2>1. i - 1 \in Nat
      BY <1>d
    <2>2. (i - 1) % n \in 0 .. n - 1
      BY <1>1, <2>1, DivMod
    <2> QED
      BY <1>1, <2>2
  <1>6. \A i \in 1 .. m : fill[i] \in Nat
    BY <1>3, <1>5
  <1>7. fill \in Seq(Nat) /\ Len(fill) = m
    BY <1>d, <1>6
  <1> HIDE DEF fill
  <1>8. Len(rows \o fill) = n + m /\ rows \o fill \in Seq(Nat)
    BY <1>7 DEF n
  <1>9. \A i \in 1 .. n : (rows \o fill)[i] = rows[i]
    BY <1>7 DEF n
  <1>b. n <= n + m
    BY <1>1, <1>d
  <1>c. /\ rows \o fill \in Seq(Nat)
        /\ \E k \in Nat \ {0} : Len(rows \o fill) = World * k
        /\ n <= Len(rows \o fill)
    BY <1>2, <1>8, <1>b
  <1> QED
    BY <1>4, <1>9, <1>c DEF n

\* A part of n * k rows in n equal ones
LEMMA ChunkIsSlice ==
  ASSUME NEW n \in Nat \ {0}, NEW k \in Nat \ {0}, NEW X, NEW rows \in Seq(X), Len(rows) = n * k,
         NEW i \in 0 .. n - 1
  PROVE  Chunk(rows, n, i) = Slice(rows, i * k, k)
  <1>1. (n * k) \div n = k
    <2>1. 0 \in 0 .. n - 1 /\ n * k + 0 = n * k
      OBVIOUS
    <2> QED
      BY <2>1, Cell
  <1>2. Chunk(rows, n, i) = SubSeq(rows, i * k + 1, (i + 1) * k)
    BY <1>1 DEF Chunk
  <1> DEFINE a == i * k
  <1>3. a \in Nat /\ (i + 1) * k = a + k /\ a + k <= n * k
    <2>1. i * k = k * i /\ n * k = k * n /\ i * k \in Nat /\ (i + 1) * k = i * k + 1 * k
      BY Products
    <2>2. k * i + k <= k * n
      BY Multiples
    <2> QED
      BY <2>1, <2>2
  <1> HIDE DEF a
  <1>4. SubSeq(rows, a + 1, a + k) = [j \in 1 .. (a + k) - (a + 1) + 1 |-> rows[j + (a + 1) - 1]]
    BY <1>3
  <1>5. (a + k) - (a + 1) + 1 = k /\ \A j \in 1 .. k : j + (a + 1) - 1 = a + j
    BY <1>3
  <1>6. SubSeq(rows, a + 1, a + k) = [j \in 1 .. k |-> rows[a + j]]
    BY <1>4, <1>5
  <1> QED
    BY <1>2, <1>3, <1>6 DEF a, Slice

\* A stretch of a sequence is a sequence.
LEMMA SliceTyped ==
  ASSUME NEW X, NEW rows \in Seq(X), NEW from \in Nat, NEW n \in Nat, from + n <= Len(rows)
  PROVE  Slice(rows, from, n) \in Seq(X) /\ Len(Slice(rows, from, n)) = n
  <1>1. \A j \in 1 .. n : rows[from + j] \in X
    OBVIOUS
  <1> QED
    BY <1>1 DEF Slice

\* Two adjacent stretches are one.
LEMMA Adjacent ==
  ASSUME NEW X, NEW rows \in Seq(X), NEW from \in Nat, NEW a \in Nat, NEW b \in Nat,
         NEW to, to = from + a, NEW n, n = a + b, from + n <= Len(rows)
  PROVE  Slice(rows, from, a) \o Slice(rows, to, b) = Slice(rows, from, n)
  <1> DEFINE s == Slice(rows, from, a)
             t == Slice(rows, from + a, b)
  <1>1. s \in Seq(X) /\ Len(s) = a /\ \A j \in 1 .. a : s[j] = rows[from + j]
    <2>1. \A j \in 1 .. a : rows[from + j] \in X
      OBVIOUS
    <2> QED
      BY <2>1 DEF Slice
  <1>2. t \in Seq(X) /\ Len(t) = b /\ \A j \in 1 .. b : t[j] = rows[from + a + j]
    <2>1. \A j \in 1 .. b : rows[from + a + j] \in X
      OBVIOUS
    <2> QED
      BY <2>1 DEF Slice
  <1> HIDE DEF s, t
  <1>3. /\ s \o t \in Seq(X) /\ Len(s \o t) = a + b
        /\ \A j \in 1 .. a + b : (s \o t)[j] = IF j <= a THEN s[j] ELSE t[j - a]
    <2>1. s \in Seq(X) /\ t \in Seq(X) /\ Len(s) = a /\ Len(t) = b
      BY <1>1, <1>2
    <2> QED
      BY <2>1, ConcatProperties
  <1>4. ASSUME NEW j \in 1 .. a + b PROVE (s \o t)[j] = rows[from + j]
    <2>1. CASE j <= a
      <3>1. j \in 1 .. a
        BY <2>1
      <3> QED
        BY <1>1, <1>3, <2>1, <3>1
    <2>2. CASE j > a
      <3>1. j - a \in 1 .. b /\ from + a + (j - a) = from + j
        BY <2>2
      <3>2. (s \o t)[j] = t[j - a]
        BY <1>3, <2>2
      <3>3. t[j - a] = rows[from + a + (j - a)]
        BY <1>2, <3>1
      <3> QED
        BY <3>1, <3>2, <3>3
    <2>3. j <= a \/ j > a
      OBVIOUS
    <2> QED
      BY <2>1, <2>2, <2>3, Zenon
  <1> DEFINE st == s \o t
  <1>a. st \in Seq(X) /\ Len(st) = a + b
    BY <1>3
  <1> HIDE DEF st
  <1>b. st = [j \in 1 .. a + b |-> st[j]]
    BY <1>a
  <1>5. s \o t = [j \in 1 .. a + b |-> (s \o t)[j]]
    BY <1>b DEF st
  <1>6. s \o t = [j \in 1 .. a + b |-> rows[from + j]]
    BY <1>4, <1>5
  <1> QED
    BY <1>6 DEF s, t, Slice

\* Every non-empty set of natural numbers has a least member.
LEMMA LeastNatural ==
  ASSUME NEW S \in SUBSET Nat, S # {}
  PROVE  \E m \in S : \A n \in S : m <= n
  <1> DEFINE T == {0 .. n : n \in S}
  <1>1. ASSUME NEW n \in S PROVE IsFiniteSet(0 .. n) /\ 0 .. n \in SUBSET Nat
    BY FS_Interval
  <1>2. T \subseteq FiniteSubsetsOf(Nat) /\ T # {}
    BY <1>1 DEF FiniteSubsetsOf
  <1>3. PICK x \in T : \A y \in T : ~ (<<y, x>> \in StrictSubsetOrdering(Nat))
    BY <1>2, WFMin, FS_StrictSubsetOrderingWellFounded
  <1>4. PICK m \in S : x = 0 .. m
    BY <1>3
  <1>5. ASSUME NEW n \in S, n < m PROVE FALSE
    <2>1. 0 .. n \subseteq 0 .. m /\ m \in 0 .. m /\ m \notin 0 .. n
      BY <1>5
    <2>2. 0 .. n \in SUBSET Nat /\ 0 .. m \in SUBSET Nat
      BY <1>1
    <2>3. <<0 .. n, 0 .. m>> \in StrictSubsetOrdering(Nat)
      BY <2>1, <2>2 DEF StrictSubsetOrdering
    <2> QED
      BY <1>3, <1>4, <2>3
  <1> QED
    BY <1>5

\* The first parts and the next one
LEMMA OneMore ==
  ASSUME NEW n \in Nat \ {0}, NEW k \in Nat \ {0}, NEW X, NEW rows \in Seq(X), NEW from \in Nat,
         from + n * k <= Len(rows),
         NEW i \in 2 .. n
  PROVE  Slice(rows, from, (i - 1) * k) \o Slice(rows, from + (i - 1) * k, k) = Slice(rows, from, i * k)
  <1> DEFINE a == (i - 1) * k
             c == n * k
  <1>1. a \in Nat /\ i * k = a + k /\ a + k <= c /\ c \in Nat
    <2>1. i - 1 \in Nat /\ (i - 1) + 1 = i
      OBVIOUS
    <2>2. (i - 1) * k = k * (i - 1) /\ (i - 1) * k \in Nat /\ n * k = k * n /\ n * k \in Nat
      BY <2>1, Products
    <2>3. ((i - 1) + 1) * k = (i - 1) * k + 1 * k
      BY <2>1, Products
    <2>4. i - 1 < n
      OBVIOUS
    <2>5. k * (i - 1) + k <= k * n
      BY <2>1, <2>4, Multiples
    <2> QED
      BY <2>1, <2>2, <2>3, <2>5
  <1>2. from + c <= Len(rows) /\ Len(rows) \in Nat
    OBVIOUS
  <1> HIDE DEF a, c
  <1>3. from + (a + k) <= Len(rows)
    BY <1>1, <1>2
  <1>5. Slice(rows, from, a) \o Slice(rows, from + a, k) = Slice(rows, from, a + k)
    <2>1. k \in Nat /\ a \in Nat
      BY <1>1
    <2> QED
      BY <2>1, <1>3, Adjacent
  <1> QED
    BY <1>1, <1>5 DEF a

\* Parts one after the other, joined
LEMMA Joined ==
  ASSUME NEW n \in Nat \ {0}, NEW k \in Nat \ {0}, NEW X, NEW rows \in Seq(X), NEW from \in Nat,
         from + n * k <= Len(rows),
         NEW parts, parts = [i \in 1 .. n |-> Slice(rows, from + (i - 1) * k, k)]
  PROVE  FlattenSeq(parts) = Slice(rows, from, n * k)
  <1> DEFINE g == [i \in 1 .. n |-> Slice(rows, from, i * k)]
             f == CHOOSE h : h = [i \in 1 .. Len(parts) |-> IF i = 1 THEN parts[i] ELSE h[i - 1] \o parts[i]]
  <1>1. Len(parts) = n
    OBVIOUS
  <1>2. ASSUME NEW i \in 2 .. n
        PROVE  Slice(rows, from, (i - 1) * k) \o parts[i] = Slice(rows, from, i * k)
    <2>1. parts[i] = Slice(rows, from + (i - 1) * k, k)
      OBVIOUS
    <2>2. Slice(rows, from, (i - 1) * k) \o Slice(rows, from + (i - 1) * k, k) = Slice(rows, from, i * k)
      BY OneMore, Zenon
    <2> QED
      BY <2>1, <2>2
  <1>3. parts[1] = Slice(rows, from, 1 * k)
    <2>1. (1 - 1) * k = 0 /\ from + 0 = from /\ 1 * k = k
      OBVIOUS
    <2>2. parts[1] = Slice(rows, from + (1 - 1) * k, k)
      OBVIOUS
    <2> QED
      BY <2>1, <2>2
  <1>4. g = [i \in 1 .. Len(parts) |-> IF i = 1 THEN parts[i] ELSE g[i - 1] \o parts[i]]
    <2>1. ASSUME NEW i \in 1 .. n PROVE g[i] = IF i = 1 THEN parts[i] ELSE g[i - 1] \o parts[i]
      <3>1. CASE i = 1
        BY <3>1, <1>3
      <3>2. CASE i # 1
        <4>1. i \in 2 .. n /\ i - 1 \in 1 .. n
          BY <3>2
        <4>2. g[i] = Slice(rows, from, i * k) /\ g[i - 1] = Slice(rows, from, (i - 1) * k)
          BY <4>1
        <4> QED
          BY <3>2, <4>1, <4>2, <1>2
      <3> QED
        BY <3>1, <3>2
    <2>2. g = [i \in 1 .. n |-> g[i]]
      OBVIOUS
    <2> HIDE DEF g
    <2> QED
      BY <1>1, <2>1, <2>2
  <1>5. f = [i \in 1 .. Len(parts) |-> IF i = 1 THEN parts[i] ELSE f[i - 1] \o parts[i]]
    <2> HIDE DEF g
    <2> QED
      BY <1>4
  <1>6. FlattenSeq(parts) = f[n]
    BY <1>1 DEF FlattenSeq
  <1> HIDE DEF f
  <1>7. /\ g[1] = parts[1] /\ f[1] = parts[1]
        /\ \A i \in 2 .. n : g[i] = g[i - 1] \o parts[i] /\ f[i] = f[i - 1] \o parts[i]
    <2> HIDE DEF g
    <2>1. /\ g = [i \in 1 .. n |-> IF i = 1 THEN parts[i] ELSE g[i - 1] \o parts[i]]
          /\ f = [i \in 1 .. n |-> IF i = 1 THEN parts[i] ELSE f[i - 1] \o parts[i]]
      BY <1>1, <1>4, <1>5
    <2>2. \A i \in 1 .. n : /\ g[i] = IF i = 1 THEN parts[i] ELSE g[i - 1] \o parts[i]
                           /\ f[i] = IF i = 1 THEN parts[i] ELSE f[i - 1] \o parts[i]
      BY ONLY <2>1
    <2>3. 1 \in 1 .. n /\ \A i \in 2 .. n : i \in 1 .. n /\ i # 1
      OBVIOUS
    <2> QED
      BY ONLY <2>2, <2>3
  <1>8. \A i \in 1 .. n : f[i] = g[i]
    <2> HIDE DEF g
    <2> SUFFICES ASSUME {i \in 1 .. n : f[i] # g[i]} # {} PROVE FALSE
      OBVIOUS
    <2>1. PICK m \in {i \in 1 .. n : f[i] # g[i]} : \A i \in {j \in 1 .. n : f[j] # g[j]} : m <= i
      <3> DEFINE S == {i \in 1 .. n : f[i] # g[i]}
      <3>1. S \in SUBSET Nat /\ S # {}
        OBVIOUS
      <3> HIDE DEF S
      <3>2. \E m \in S : \A i \in S : m <= i
        BY <3>1, LeastNatural
      <3> QED
        BY <3>2 DEF S
    <2>2. m # 1
      BY <2>1, <1>7
    <2>3. m \in 2 .. n /\ m - 1 \in 1 .. n
      BY <2>1, <2>2
    <2>4. f[m - 1] = g[m - 1]
      <3>1. ~ (m <= m - 1)
        BY <2>3
      <3> QED
        BY <2>1, <2>3, <3>1
    <2>5. g[m] = g[m - 1] \o parts[m] /\ f[m] = f[m - 1] \o parts[m]
      BY ONLY <2>3, <1>7
    <2>6. f[m] = g[m]
      BY ONLY <2>4, <2>5
    <2> QED
      BY <2>1, <2>6
  <1>9. g[n] = Slice(rows, from, n * k) /\ n \in 1 .. n
    OBVIOUS
  <1> QED
    BY <1>6, <1>8, <1>9

\* A stretch of a stretch
LEMMA SliceOfSlice ==
  ASSUME NEW rows, NEW from \in Nat, NEW n \in Nat, NEW a \in Nat, NEW k \in Nat, a + k <= n,
         NEW to, to = from + a
  PROVE  Slice(Slice(rows, from, n), a, k) = Slice(rows, to, k)
  <1> DEFINE s == Slice(rows, from, n)
  <1>1. \A j \in 1 .. n : s[j] = rows[from + j]
    BY DEF Slice
  <1> HIDE DEF s
  <1>2. ASSUME NEW j \in 1 .. k PROVE s[a + j] = rows[from + a + j]
    <2>1. a + j \in 1 .. n /\ from + (a + j) = from + a + j
      OBVIOUS
    <2>2. s[a + j] = rows[from + (a + j)]
      BY <1>1, <2>1
    <2> QED
      BY <2>1, <2>2
  <1>3. Slice(s, a, k) = Slice(rows, from + a, k)
    BY <1>2 DEF Slice
  <1> QED
    BY <1>3 DEF s

-----------------------------------------------------------------------------
(* The rows of a call.                                                     *)

\* The methods that give rows back
Fetching == {"generate", "compute_log_prob"}

\* The rows of call c, and how many of them a rank gets
RowsOf(c) == IF c.kind = "generate" THEN Padded(Extracted(c.mask)) ELSE [i \in 1 .. TrainRows |-> i]
PerRank(c) == Len(RowsOf(c)) \div World
\* The ranks that share their rows
Group(c) == IF c.kind = "generate" THEN TPSize ELSE SPSize

\* The rows before and after they are answered
Asked(c)    == [i \in 1 .. Len(RowsOf(c)) |-> Unanswered(RowsOf(c)[i])]
Answered(c) == [i \in 1 .. Len(RowsOf(c)) |-> [prompt |-> RowsOf(c)[i], answer |-> RowsOf(c)[i]]]

\* A rank's own part of the rows, and its group's
Own(c, r, rows)    == Slice(rows, r * PerRank(c), PerRank(c))
Shared(c, r, rows) == Slice(rows, (r \div Group(c)) * (Group(c) * PerRank(c)), Group(c) * PerRank(c))

\* The rows of rank r before step op
RowsAt(c, op, r) ==
  CASE op \in Syncing \cup {"share"}           -> Own(c, r, Asked(c))
    [] op = "offload"                          -> Own(c, r, IF c.kind = "generate" THEN Asked(c) ELSE Answered(c))
    [] op \in {"generate", "broadcast", "forward"} -> Shared(c, r, Asked(c))
    [] op = "split"                            -> Shared(c, r, Answered(c))
    [] op \in {"release", "returned"}          -> Own(c, r, Answered(c))

\* Every rank has the rows that its step is about, and a leader that has
\* generated the answers of its group.
RowsInPlace ==
  call.kind \in Fetching =>
    \A r \in Ranks :
      /\ data[r] = RowsAt(call, pc[r], r)
      /\ pc[r] = "broadcast" /\ Leader(r) => output[r] = Shared(call, r, RowsOf(call))

\* Only known masks are asked for.
Valid(c) == c.kind = "generate" => c.mask \in Masks

\* Every rank holds rows.
Held == DOMAIN data = Ranks /\ DOMAIN output = Ranks

RowsInv == Valid(call) /\ Held /\ RowsInPlace /\ RowsComeBack

RowSet == [prompt : Nat, answer : Nat]

\* The rows that are extracted: the active ones in order, or the first.
LEMMA ExtractedRows ==
  ASSUME NEW mask \in Masks
  PROVE  /\ Extracted(mask) \in Seq(Nat) /\ Extracted(mask) # <<>>
         /\ mask # {} => /\ Len(Extracted(mask)) = Cardinality(mask)
                         /\ \A i \in mask : Place(mask, i) \in 1 .. Cardinality(mask)
                         /\ \A i \in mask : Extracted(mask)[Place(mask, i)] = i
  <1>1. mask \in SUBSET (1 .. Batch) /\ Batch \in Nat
    BY MeshAssumption
  <1>2. IsFiniteSet(1 .. Batch)
    BY <1>1, FS_Interval
  <1>a. IsFiniteSet(mask)
    BY <1>1, <1>2, FS_Subset
  <1>b. mask \in SUBSET Nat
    BY <1>1
  <1>3. IsFiniteSet(mask) /\ mask \in SUBSET Nat
    BY <1>a, <1>b
  <1>4. CASE mask = {}
    <2>1. Extracted(mask) = <<1>>
      BY <1>4 DEF Extracted
    <2>2. <<1>> \in Seq(Nat) /\ <<1>> # <<>>
      OBVIOUS
    <2> QED
      BY <1>4, <2>1, <2>2
  <1>5. CASE mask # {}
    <2> DEFINE rows == ActiveRows(mask)
               n == Cardinality(mask)
    <2>1. rows \in [1 .. n -> mask] /\ \A i \in mask : rows[Place(mask, i)] = i
      BY <1>3, ActiveRowAtPlace
    <2>2. n \in Nat /\ n # 0 /\ \A i \in mask : Place(mask, i) \in 1 .. n
      BY <1>3, <1>5, Places, FS_EmptySet
    <2>3. Extracted(mask) = rows
      BY <1>5 DEF Extracted
    <2> HIDE DEF rows, n
    <2>4. rows \in [1 .. n -> Nat]
      BY <1>3, <2>1
    <2>5. rows \in Seq(Nat) /\ Len(rows) = n
      BY <2>2, <2>4
    <2>6. rows # <<>>
      BY <2>2, <2>5
    <2>7. Len(Extracted(mask)) = n /\ Extracted(mask) \in Seq(Nat) /\ Extracted(mask) # <<>>
      BY <2>3, <2>5, <2>6
    <2>8. \A i \in mask : Extracted(mask)[Place(mask, i)] = i
      BY <2>1, <2>3
    <2> QED
      BY <2>2, <2>7, <2>8 DEF n
  <1> QED
    BY <1>4, <1>5

\* The rows of a call are as many for every rank.
LEMMA RowsSized ==
  ASSUME NEW c, c.kind \in Fetching, Valid(c)
  PROVE  /\ RowsOf(c) \in Seq(Nat) /\ Len(RowsOf(c)) = World * PerRank(c)
         /\ PerRank(c) \in Nat \ {0}
  <1>1. World \in Nat \ {0}
    BY MeshAssumption
  <1>2. RowsOf(c) \in Seq(Nat) /\ \E k \in Nat \ {0} : Len(RowsOf(c)) = World * k
    <2>1. CASE c.kind = "generate"
      <3>1. c.mask \in Masks
        BY <2>1 DEF Valid
      <3>2. Extracted(c.mask) \in Seq(Nat) /\ Extracted(c.mask) # <<>>
        BY <3>1, ExtractedRows
      <3> QED
        BY <2>1, <3>2, PaddedRows DEF RowsOf
    <2>2. CASE c.kind # "generate"
      <3>1. RowsOf(c) = [i \in 1 .. TrainRows |-> i]
        BY <2>2 DEF RowsOf
      <3>2. TrainRows \in Nat /\ TrainRows = World * 2
        BY <1>1 DEF TrainRows
      <3>3. [i \in 1 .. TrainRows |-> i] \in Seq(Nat) /\ Len([i \in 1 .. TrainRows |-> i]) = TrainRows
        BY <3>2
      <3> QED
        BY <3>1, <3>2, <3>3
    <2> QED
      BY <2>1, <2>2
  <1>3. PICK k \in Nat \ {0} : Len(RowsOf(c)) = World * k
    BY <1>2
  <1>4. PerRank(c) = k
    <2>1. 0 \in 0 .. World - 1 /\ World * k + 0 = World * k
      BY <1>1
    <2>2. (World * k + 0) \div World = k
      BY <1>1, <2>1, Cell
    <2> QED
      BY <1>3, <2>1, <2>2 DEF PerRank
  <1> QED
    BY <1>2, <1>3, <1>4

\* So are the rows with and without answers.
LEMMA RecordsSized ==
  ASSUME NEW c, c.kind \in Fetching, Valid(c)
  PROVE  /\ Asked(c) \in Seq(RowSet) /\ Len(Asked(c)) = World * PerRank(c)
         /\ Answered(c) \in Seq(RowSet) /\ Len(Answered(c)) = World * PerRank(c)
  <1> DEFINE rows == RowsOf(c)
             n == Len(RowsOf(c))
  <1>1. rows \in Seq(Nat) /\ n \in Nat /\ n = World * PerRank(c)
    BY RowsSized
  <1>2. \A i \in 1 .. n : rows[i] \in Nat
    BY <1>1
  <1> HIDE DEF rows, n
  <1>3. \A i \in 1 .. n : Unanswered(rows[i]) \in RowSet /\ [prompt |-> rows[i], answer |-> rows[i]] \in RowSet
    BY <1>2 DEF Unanswered, NoAnswer, RowSet
  <1>4. Asked(c) = [i \in 1 .. n |-> Unanswered(rows[i])]
    BY DEF Asked, rows, n
  <1>5. Answered(c) = [i \in 1 .. n |-> [prompt |-> rows[i], answer |-> rows[i]]]
    BY DEF Answered, rows, n
  <1>a. n \in Nat
    BY <1>1
  <1>b. Asked(c) \in [1 .. n -> RowSet] /\ Answered(c) \in [1 .. n -> RowSet]
    BY <1>3, <1>4, <1>5
  <1>6. Asked(c) \in Seq(RowSet) /\ Len(Asked(c)) = n
    BY <1>a, <1>b
  <1>7. Answered(c) \in Seq(RowSet) /\ Len(Answered(c)) = n
    BY <1>a, <1>b
  <1> QED
    BY <1>1, <1>6, <1>7

\* Where a group's rows are among all
LEMMA GroupRows ==
  ASSUME NEW c, NEW r \in Ranks, NEW k \in Nat \ {0}
  PROVE  LET g == Group(c)
             d == r \div g
         IN  /\ g \in Nat \ {0} /\ d \in Nat /\ r % g \in 0 .. g - 1
             /\ g * k \in Nat \ {0} /\ d * (g * k) \in Nat
             /\ (r % g) * k \in Nat /\ (r % g) * k + k <= g * k
             /\ d * (g * k) + (r % g) * k = r * k
             /\ d * (g * k) + g * k <= World * k
             /\ \A i \in 1 .. g : /\ d * g + i - 1 \in Ranks /\ (d * g + i - 1) \div g = d
                                  /\ (d * g + i - 1) * k = d * (g * k) + (i - 1) * k
  <1> DEFINE g == Group(c)
             d == r \div g
             m == r % g
             w == World \div g
  <1>1. g \in Nat \ {0} /\ World \in Nat \ {0} /\ World % g = 0 /\ r \in Nat /\ r < World
    BY MeshAssumption DEF Group, Ranks
  <1> HIDE DEF g
  <1>2. d \in Nat /\ m \in 0 .. g - 1 /\ r = g * d + m
    BY <1>1, DivMod
  <1>3. w \in Nat /\ World = g * w + 0
    BY <1>1, DivMod
  <1> HIDE DEF d, m, w
  <1>4. m \in Nat /\ k \in Nat /\ g \in Nat
    BY <1>1, <1>2
  <1>5. g * d = d * g /\ d * g \in Nat /\ g * k \in Nat /\ (d * g) * k = d * (g * k) /\ d * (g * k) \in Nat
    BY <1>1, <1>2, <1>4, Products
  <1>6. d < w
    <2>1. (w <= d => g * w <= g * d) /\ g * w \in Nat /\ g * d \in Nat
      BY <1>1, <1>2, <1>3, Multiples
    <2> QED
      BY <1>1, <1>2, <1>3, <2>1
  <1>7. d * g + g <= World
    <2>1. g * d + g <= g * w
      BY <1>1, <1>2, <1>3, <1>6, Multiples
    <2>2. g * w \in Nat /\ World = g * w
      BY <1>1, <1>3, Multiples
    <2>3. d * g + g <= g * w
      BY <2>1, <1>5
    <2> QED
      BY <2>2, <2>3
  <1>8. g * k \in Nat \ {0}
    <2>1. g >= 1 /\ k >= 1
      BY <1>1
    <2> QED
      BY <1>4, <1>5, <2>1, Products
  <1>9. m * k \in Nat /\ m * k + k <= g * k
    <2>1. m * k = k * m /\ g * k = k * g /\ m * k \in Nat
      BY <1>4, Products
    <2>2. k * m + k <= k * g
      BY <1>2, <1>4, Multiples
    <2> QED
      BY <2>1, <2>2
  <1>10. ASSUME NEW x \in Nat PROVE (d * g + x) * k = d * (g * k) + x * k
    <2>1. (d * g + x) * k = (d * g) * k + x * k
      BY <1>4, <1>5, Products
    <2> QED
      BY <1>5, <2>1
  <1>11. d * (g * k) + m * k = r * k
    BY <1>2, <1>4, <1>5, <1>10
  <1>12. d * (g * k) + g * k <= World * k
    <2>1. d * g + g \in Nat
      BY <1>4, <1>5
    <2>2. (d * g + g) * k = k * (d * g + g) /\ World * k = k * World
      BY <1>1, <1>4, <2>1, Products
    <2>3. k * (d * g + g) <= k * World
      BY <1>1, <1>7, <2>1, Multiples
    <2>4. (d * g + g) * k = d * (g * k) + g * k
      BY <1>4, <1>10
    <2> QED
      BY <2>2, <2>3, <2>4
  <1>13. ASSUME NEW i \in 1 .. g
         PROVE  /\ d * g + i - 1 \in Ranks /\ (d * g + i - 1) \div g = d
                /\ (d * g + i - 1) * k = d * (g * k) + (i - 1) * k
    <2>1. i - 1 \in 0 .. g - 1 /\ i - 1 \in Nat /\ d * g + i - 1 = d * g + (i - 1)
      BY <1>4, <1>5
    <2>2. (g * d + (i - 1)) \div g = d
      BY <1>1, <1>2, <2>1, Cell
    <2>3. d * g + i - 1 \in 0 .. World - 1
      BY <1>1, <1>4, <1>5, <1>7, <2>1
    <2> QED
      BY <1>5, <1>10, <2>1, <2>2, <2>3 DEF Ranks
  <1> QED
    BY <1>1, <1>2, <1>5, <1>8, <1>9, <1>11, <1>12, <1>13 DEF g, d, m

-----------------------------------------------------------------------------
(* Every step keeps the rows in their places.                              *)

\* A call gives every rank its part of the rows.
LEMMA DispatchKept ==
  ASSUME NEW kind, NEW mask, NEW rows, Dispatch(kind, mask, rows),
         LET c == [kind |-> kind, mask |-> mask] IN
           Valid(c) /\ (kind \in Fetching => rows = RowsOf(c))
  PROVE  RowsInv'
  <1> DEFINE c == [kind |-> kind, mask |-> mask]
  <1>1. /\ driver' = "busy" /\ call' = c
        /\ pc' = [r \in Ranks |-> "load"]
        /\ data' = [r \in Ranks |-> Chunk([i \in 1 .. Len(rows) |-> Unanswered(rows[i])], World, r)]
        /\ output' = [r \in Ranks |-> <<>>]
    BY Zenon DEF Dispatch
  <1>2. c.kind = kind /\ Valid(c)
    OBVIOUS
  <1> HIDE DEF c
  <1>3. Valid(call)'
    BY <1>1, <1>2 DEF Valid
  <1>4. ASSUME kind \in Fetching, NEW r \in Ranks
        PROVE  data'[r] = RowsAt(c, "load", r)
    <2>1. rows = RowsOf(c) /\ c.kind \in Fetching
      BY <1>2, <1>4 DEF c
    <2>2. data'[r] = Chunk(Asked(c), World, r)
      BY <1>1, <2>1 DEF Asked
    <2>3. Asked(c) \in Seq(RowSet) /\ Len(Asked(c)) = World * PerRank(c)
      BY <1>2, <2>1, RecordsSized
    <2>4. PerRank(c) \in Nat \ {0} /\ World \in Nat \ {0} /\ r \in 0 .. World - 1
      BY <1>2, <2>1, RowsSized, MeshAssumption DEF Ranks
    <2>5. Chunk(Asked(c), World, r) = Slice(Asked(c), r * PerRank(c), PerRank(c))
      BY <2>3, <2>4, ChunkIsSlice, Zenon
    <2> QED
      BY <2>2, <2>5 DEF RowsAt, Own, Syncing
  <1>5. RowsInPlace'
    BY <1>1, <1>2, <1>4 DEF RowsInPlace
  <1>6. RowsComeBack'
    BY <1>1 DEF RowsComeBack
  <1>7. Held'
    BY <1>1 DEF Held
  <1> QED
    BY <1>3, <1>5, <1>6, <1>7 DEF RowsInv

\* While the driver is not idle it has nothing to show.
LEMMA BusyKept ==
  ASSUME driver' # "idle"
  PROVE  RowsComeBack'
  BY DEF RowsComeBack

\* Ranks whose rows are left alone and belong to their next step as well
LEMMA QuietKept ==
  ASSUME RowsInv, driver' # "idle", call' = call, data' = data, output' = output,
         call.kind \in Fetching => \A q \in Ranks :
           /\ RowsAt(call, pc'[q], q) = RowsAt(call, pc[q], q)
           /\ pc'[q] = "broadcast" => pc[q] = "broadcast"
  PROVE  RowsInv'
  <1>1. Valid(call)'
    BY DEF RowsInv, Valid
  <1>2. RowsInPlace'
    <2> SUFFICES ASSUME call.kind \in Fetching, NEW r \in Ranks
                 PROVE  /\ data[r] = RowsAt(call, pc'[r], r)
                        /\ pc'[r] = "broadcast" /\ Leader(r) => output[r] = Shared(call, r, RowsOf(call))
      BY DEF RowsInPlace
    <2>1. /\ data[r] = RowsAt(call, pc[r], r)
          /\ pc[r] = "broadcast" /\ Leader(r) => output[r] = Shared(call, r, RowsOf(call))
      BY DEF RowsInv, RowsInPlace
    <2> QED
      BY <2>1
  <1>3. Held'
    BY DEF RowsInv, Held
  <1> QED
    BY <1>1, <1>2, <1>3, BusyKept DEF RowsInv

\* The steps that touch no rows
Quiet == {"load", "resume", "resumed", "push", "pushed", "flush", "flushed", "offload", "release",
          "restore", "train"}

\* In these steps the rows stay what they are.
LEMMA QuietMoves ==
  ASSUME Types, InMethod, RowsInv, NEW R \in SUBSET Ranks, NEW op \in Quiet, Joint(R, op),
         data' = data, output' = output, R # {}
  PROVE  RowsInv'
  <1>1. /\ \A r \in R : pc[r] = op /\ driver # "idle" /\ pc'[r] = After(r, op)
        /\ \A r \in Ranks : r \notin R => pc'[r] = pc[r]
        /\ driver' = driver /\ call' = call
    <2>1. op \notin {"gather", "returned"}
      BY DEF Quiet
    <2>2. /\ \A r \in R : pc[r] = op /\ r \notin raised /\ driver # "idle" /\ pc'[r] = After(r, op)
          /\ \A r \in Ranks : r \notin R => pc'[r] = pc[r]
          /\ driver' = driver /\ call' = call
      BY <2>1, Moved
    <2> QED
      BY <2>2
  <1>2. ASSUME call.kind = "generate", NEW r \in R
        PROVE  /\ pc'[r] # "broadcast"
               /\ RowsAt(call, pc'[r], r) = RowsAt(call, pc[r], r)
    <2>1. op \in StepsOf("generate")
      BY <1>1, <1>2 DEF InMethod
    <2>2. pc'[r] = AfterInGenerate(r, op)
      BY <1>1, <1>2 DEF After
    <2>3. op \in {"load", "resume", "resumed", "push", "pushed", "flush", "flushed", "offload", "release"}
      BY <2>1 DEF StepsOf, Syncing, Past, Quiet
    <2>4. AfterWeights(Open(r), bytes[r], next[r]) \in {"push", "flush", "gather"}
      BY DEF AfterWeights
    <2>5. CASE op \in {"load", "resume", "resumed", "push", "pushed", "flush"}
      <3>1. pc'[r] \in Syncing
        BY <2>2, <2>4, <2>5, PathOfGenerate DEF Syncing
      <3>2. pc[r] \in Syncing
        BY <1>1, <2>5 DEF Syncing
      <3> QED
        BY <3>1, <3>2 DEF RowsAt, Syncing
    <2>6. CASE op = "flushed"
      <3>1. pc'[r] = "offload" /\ pc[r] = "flushed"
        BY <1>1, <2>2, <2>6, PathOfGenerate
      <3> QED
        BY <1>2, <3>1 DEF RowsAt, Syncing
    <2>7. CASE op = "offload"
      <3>1. pc'[r] = "share" /\ pc[r] = "offload"
        BY <1>1, <2>2, <2>7, PathOfGenerate
      <3> QED
        BY <1>2, <3>1 DEF RowsAt, Syncing
    <2>8. CASE op = "release"
      <3>1. pc'[r] = "returned" /\ pc[r] = "release"
        BY <1>1, <2>2, <2>8, PathOfGenerate
      <3> QED
        BY <3>1 DEF RowsAt, Syncing
    <2> QED
      BY <2>3, <2>5, <2>6, <2>7, <2>8
  <1>3. ASSUME call.kind = "compute_log_prob", NEW r \in R
        PROVE  /\ pc'[r] # "broadcast"
               /\ RowsAt(call, pc'[r], r) = RowsAt(call, pc[r], r)
    <2>1. op \in StepsOf("compute_log_prob")
      BY <1>1, <1>3 DEF InMethod
    <2>2. op \in {"load", "offload"}
      BY <2>1 DEF StepsOf, Syncing, Past, Quiet
    <2>3. pc[r] = op /\ pc'[r] = IF op = "load" THEN "share" ELSE "returned"
      BY <1>1, <1>3, <2>2 DEF After, AfterInActor
    <2>4. CASE op = "load"
      BY <2>3, <2>4 DEF RowsAt, Syncing
    <2>5. CASE op = "offload"
      BY <1>3, <2>3, <2>5 DEF RowsAt, Syncing
    <2> QED
      BY <2>2, <2>4, <2>5
  <1>4. call.kind \in Fetching => \A q \in Ranks :
           /\ RowsAt(call, pc'[q], q) = RowsAt(call, pc[q], q)
           /\ pc'[q] = "broadcast" => pc[q] = "broadcast"
    BY <1>1, <1>2, <1>3 DEF Fetching
  <1>5. driver' # "idle"
    BY <1>1
  <1> QED
    BY <1>1, <1>4, <1>5, QuietKept

\* Most of what ranks do leaves the rows alone.
LEMMA ChangesKeepRows ==
  ASSUME Types, InMethod, RowsInv, NEW r \in Ranks, Changes(r)
  PROVE  RowsInv'
  <1> DEFINE Same == data' = data /\ output' = output
  <1>1. {r} \in SUBSET Ranks /\ {r} # {} /\ Ranks # {}
    BY DEF Ranks
  <1>2. ASSUME NEW op \in Quiet, Joint({r}, op), Same PROVE RowsInv'
    BY <1>1, <1>2, QuietMoves
  <1>3. ASSUME NEW op \in Quiet, Joint(Ranks, op), Same PROVE RowsInv'
    BY <1>1, <1>3, QuietMoves
  <1>4. CASE Load(r)
    <2>1. Same
      BY <1>4, Zenon DEF Load
    <2> QED
      BY <1>2, <1>4, <2>1, OwnSteps DEF Quiet
  <1>5. CASE Offload(r)
    <2>1. Same
      BY <1>5, Zenon DEF Offload
    <2> QED
      BY <1>2, <1>5, <2>1, OwnSteps DEF Quiet
  <1>6. CASE Restore(r)
    <2>1. Same
      BY <1>6, Zenon DEF Restore
    <2> QED
      BY <1>2, <1>6, <2>1, OwnSteps DEF Quiet
  <1>7. CASE Train(r)
    <2>1. Same
      BY <1>7, Zenon DEF Train
    <2> QED
      BY <1>3, <1>7, <2>1, TrainStep DEF Quiet
  <1>8. CASE Resume(r)
    <2>1. Same
      BY <1>8, Zenon DEF Resume
    <2> QED
      BY <1>2, <1>8, <2>1, OwnSteps DEF Quiet
  <1>9. CASE Push(r)
    <2>1. Same
      BY <1>9, Zenon DEF Push
    <2> QED
      BY <1>2, <1>9, <2>1, OwnSteps DEF Quiet
  <1>10. CASE Flush(r)
    <2>1. Same
      BY <1>10, Zenon DEF Flush
    <2> QED
      BY <1>2, <1>10, <2>1, OwnSteps DEF Quiet
  <1>11. CASE OperationFails(r)
    <2>1. Same
      BY <1>11, Zenon DEF OperationFails
    <2>2. PICK op \in {"resume", "push", "flush"} : Joint({r}, op)
      BY <1>11, OwnSteps
    <2>3. op \in Quiet
      BY DEF Quiet
    <2> QED
      BY <1>2, <2>1, <2>2, <2>3
  <1>12. CASE GenerateFails(r)
    <2>1. Same /\ At(r, "generate") /\ UNCHANGED <<driverVars, pc>>
      BY <1>12, Zenon DEF GenerateFails
    <2>2. driver' # "idle" /\ call' = call /\ pc' = pc
      BY <2>1 DEF At, driverVars
    <2> QED
      BY <2>1, <2>2, QuietKept
  <1>13. CASE Release(r)
    <2>1. Same
      BY <1>13, Zenon DEF Release
    <2> QED
      BY <1>2, <1>13, <2>1, OwnSteps DEF Quiet
  <1>14. CASE Agree(r)
    <2>1. Same
      BY <1>14, Zenon DEF Agree
    <2>2. PICK op \in Agreements :
            /\ \A q \in Ranks : At(q, op)
            /\ pc' = pc \/ Joint(Ranks, op)
      BY <1>14, AgreeStep
    <2>3. op \in Quiet
      BY DEF Quiet, Agreements
    <2>4. UNCHANGED driverVars
      BY <1>14, Zenon DEF Agree
    <2>5. driver' # "idle" /\ call' = call
      BY <2>2, <2>4 DEF At, driverVars
    <2>6. CASE pc' = pc
      BY <2>1, <2>5, <2>6, QuietKept
    <2> QED
      BY <1>3, <2>1, <2>2, <2>3, <2>6
  <1>15. CASE Gather(r)
    <2>1. Same
      BY <1>15, Zenon DEF Gather
    <2>2. /\ \A q \in Ranks : At(q, "gather")
          /\ pc' = [q \in Ranks |-> AfterWeights(Open(q) \cup {next[r]}, bytes'[q], next[r] + 1)]
          /\ UNCHANGED driverVars
      BY <1>15, GatherStep
    <2>3. ASSUME NEW q \in Ranks
          PROVE  /\ RowsAt(call, pc'[q], q) = RowsAt(call, pc[q], q)
                 /\ pc'[q] # "broadcast"
      <3>1. pc'[q] \in {"push", "flush", "gather"}
        BY <2>2 DEF AfterWeights
      <3>2. pc[q] = "gather"
        BY <2>2 DEF At
      <3> QED
        BY <3>1, <3>2 DEF RowsAt, Syncing
    <2>4. driver' # "idle" /\ call' = call
      BY <1>1, <2>2 DEF At, driverVars
    <2> QED
      BY <2>1, <2>3, <2>4, QuietKept
  <1> QED
    BY <1>4, <1>5, <1>6, <1>7, <1>8, <1>9, <1>10, <1>11, <1>12, <1>13, <1>14, <1>15 DEF Changes

\* Where the rows of a rank are among its group's
LEMMA GroupMember ==
  ASSUME NEW c, NEW r \in Ranks, NEW k \in Nat \ {0}, NEW i \in 1 .. Group(c)
  PROVE  ((r \div Group(c)) * Group(c) + i - 1) * k
           = (r \div Group(c)) * (Group(c) * k) + (i - 1) * k
  BY GroupRows

\* A group's rows, asked for and answered
LEMMA SharedRows ==
  ASSUME NEW c, c.kind \in Fetching, Valid(c), NEW r \in Ranks
  PROVE  LET n == Group(c) * PerRank(c)
             s == Shared(c, r, RowsOf(c))
         IN  /\ n \in Nat
             /\ s = [i \in 1 .. n |-> s[i]]
             /\ Shared(c, r, Asked(c)) = [i \in 1 .. n |-> Unanswered(s[i])]
             /\ Shared(c, r, Answered(c)) = [i \in 1 .. n |-> [prompt |-> s[i], answer |-> s[i]]]
  <1> DEFINE n == Group(c) * PerRank(c)
             from == (r \div Group(c)) * (Group(c) * PerRank(c))
             rows == RowsOf(c)
             m == Len(rows)
             s == Shared(c, r, RowsOf(c))
  <1>1. m \in Nat /\ m = World * PerRank(c) /\ PerRank(c) \in Nat \ {0}
    BY RowsSized
  <1>2. n \in Nat \ {0} /\ from \in Nat /\ from + n <= World * PerRank(c)
    BY <1>1, GroupRows
  <1>3. /\ Asked(c) = [i \in 1 .. m |-> Unanswered(rows[i])]
        /\ Answered(c) = [i \in 1 .. m |-> [prompt |-> rows[i], answer |-> rows[i]]]
    BY DEF Asked, Answered
  <1>4. /\ s = [j \in 1 .. n |-> rows[from + j]]
        /\ Shared(c, r, Asked(c)) = [j \in 1 .. n |-> Asked(c)[from + j]]
        /\ Shared(c, r, Answered(c)) = [j \in 1 .. n |-> Answered(c)[from + j]]
    BY DEF Shared, Slice
  <1> HIDE DEF n, from, s, rows, m
  <1>5. n \in Nat /\ from \in Nat /\ from + n <= m /\ m \in Nat
    BY <1>1, <1>2
  <1>6. \A j \in 1 .. n : from + j \in 1 .. m
    BY <1>5
  <1>7. \A j \in 1 .. n : s[j] = rows[from + j]
    BY <1>4
  <1>8. \A j \in 1 .. n : /\ Asked(c)[from + j] = Unanswered(s[j])
                          /\ Answered(c)[from + j] = [prompt |-> s[j], answer |-> s[j]]
    BY <1>3, <1>6, <1>7
  <1>9. s = [i \in 1 .. n |-> s[i]]
    BY <1>4
  <1>10. Shared(c, r, Asked(c)) = [i \in 1 .. n |-> Unanswered(s[i])]
    BY <1>4, <1>8
  <1>11. Shared(c, r, Answered(c)) = [i \in 1 .. n |-> [prompt |-> s[i], answer |-> s[i]]]
    BY <1>4, <1>8
  <1> QED
    BY <1>5, <1>9, <1>10, <1>11 DEF n, s

\* The part of its group's rows that a rank keeps is its own.
LEMMA OwnOfShared ==
  ASSUME NEW c, c.kind \in Fetching, Valid(c), NEW r \in Ranks
  PROVE  Chunk(Shared(c, r, Answered(c)), Group(c), r % Group(c)) = Own(c, r, Answered(c))
  <1> DEFINE g == Group(c)
             k == PerRank(c)
             n == g * k
             from == (r \div g) * (g * k)
             i == r % g
             a == i * k
             s == Shared(c, r, Answered(c))
  <1>1. k \in Nat \ {0} /\ Len(Answered(c)) = World * k /\ Answered(c) \in Seq(RowSet)
    BY RowsSized, RecordsSized
  <1>2. /\ g \in Nat \ {0} /\ i \in 0 .. g - 1 /\ n \in Nat \ {0} /\ from \in Nat
        /\ a \in Nat /\ a + k <= n /\ from + a = r * k /\ from + n <= World * k
    BY <1>1, GroupRows
  <1>3. s = Slice(Answered(c), from, n)
    BY DEF Shared
  <1> HIDE DEF g, k, i
  <1>4. s \in Seq(RowSet) /\ Len(s) = n
    <2> HIDE DEF n, from, s
    <2>1. from + n <= Len(Answered(c)) /\ n \in Nat /\ from \in Nat
      BY <1>1, <1>2
    <2> QED
      BY <1>1, <1>3, <2>1, SliceTyped
  <1>5. Chunk(s, g, i) = Slice(s, i * k, k)
    <2> HIDE DEF s
    <2>1. Len(s) = g * k
      BY <1>4
    <2> QED
      BY <1>1, <1>2, <1>4, <2>1, ChunkIsSlice, Zenon
  <1>6. Slice(s, a, k) = Slice(Answered(c), from + a, k)
    <2> HIDE DEF n, from, s, a
    <2>1. n \in Nat /\ from \in Nat /\ a \in Nat /\ k \in Nat /\ a + k <= n
      BY <1>1, <1>2
    <2> QED
      BY <1>3, <2>1, SliceOfSlice
  <1>7. Slice(s, a, k) = Slice(Answered(c), r * k, k)
    <2> HIDE DEF n, from, s, a
    <2> QED
      BY <1>2, <1>6
  <1> QED
    BY <1>5, <1>7 DEF Own, g, k, i

\* The parts of the ranks of a group are the group's rows.
LEMMA SharedOfOwn ==
  ASSUME NEW c, c.kind \in Fetching, Valid(c), NEW r \in Ranks
  PROVE  FlattenSeq([i \in 1 .. Group(c) |-> Own(c, (r \div Group(c)) * Group(c) + i - 1, Asked(c))])
           = Shared(c, r, Asked(c))
  <1> DEFINE g == Group(c)
             k == PerRank(c)
             d == r \div g
             from == d * (g * k)
             rows == Asked(c)
             parts == [i \in 1 .. g |-> Own(c, d * g + i - 1, rows)]
  <1>1. k \in Nat \ {0} /\ Len(rows) = World * k /\ rows \in Seq(RowSet)
    BY RowsSized, RecordsSized
  <1>2. /\ g \in Nat \ {0} /\ from \in Nat /\ from + g * k <= World * k
        /\ \A i \in 1 .. g : (d * g + i - 1) * k = from + (i - 1) * k
    <2>1. g \in Nat \ {0} /\ from \in Nat /\ from + g * k <= World * k
      BY <1>1, GroupRows
    <2>2. ASSUME NEW i \in 1 .. g PROVE (d * g + i - 1) * k = from + (i - 1) * k
      BY <1>1, GroupMember
    <2> QED
      BY <2>1, <2>2
  <1>3. \A i \in 1 .. g : Own(c, d * g + i - 1, rows) = Slice(rows, (d * g + i - 1) * k, k)
    BY DEF Own
  <1>4. Shared(c, r, rows) = Slice(rows, from, g * k)
    BY DEF Shared
  <1> HIDE DEF g, k, d, from, rows
  <1>5. parts = [i \in 1 .. g |-> Slice(rows, from + (i - 1) * k, k)]
    BY <1>2, <1>3
  <1>6. from + g * k <= Len(rows)
    BY <1>1, <1>2
  <1> HIDE DEF parts
  <1>7. FlattenSeq(parts) = Slice(rows, from, g * k)
    BY <1>1, <1>2, <1>5, <1>6, Joined, Zenon
  <1> QED
    BY <1>4, <1>7 DEF parts, g, k, d, rows

\* The parts of all ranks are all the rows.
LEMMA AllOfOwn ==
  ASSUME NEW c, c.kind \in Fetching, Valid(c)
  PROVE  FlattenSeq([i \in 1 .. World |-> Own(c, i - 1, Answered(c))]) = Answered(c)
  <1> DEFINE k == PerRank(c)
             rows == Answered(c)
             parts == [i \in 1 .. World |-> Own(c, i - 1, rows)]
  <1>1. k \in Nat \ {0} /\ Len(rows) = World * k /\ rows \in Seq(RowSet) /\ World \in Nat \ {0}
    BY RowsSized, RecordsSized, MeshAssumption
  <1>2. \A i \in 1 .. World : Own(c, i - 1, rows) = Slice(rows, (i - 1) * k, k)
    BY DEF Own
  <1> HIDE DEF k, rows
  <1>3. ASSUME NEW i \in 1 .. World PROVE 0 + (i - 1) * k = (i - 1) * k
    <2>1. i - 1 \in Nat /\ k \in Nat
      BY <1>1
    <2>2. (i - 1) * k \in Nat
      BY <2>1, Products
    <2> QED
      BY <2>2
  <1>4. parts = [i \in 1 .. World |-> Slice(rows, 0 + (i - 1) * k, k)]
    BY <1>2, <1>3
  <1>5. World * k \in Nat /\ 0 + World * k <= Len(rows) /\ 0 \in Nat
    <2>1. Len(rows) \in Nat
      BY <1>1
    <2> QED
      BY <1>1, <2>1
  <1> HIDE DEF parts
  <1>6. FlattenSeq(parts) = Slice(rows, 0, World * k)
    BY <1>1, <1>4, <1>5, Joined, Zenon
  <1>7. Slice(rows, 0, World * k) = rows
    <2> DEFINE n == World * k
    <2>1. Slice(rows, 0, n) = [j \in 1 .. n |-> rows[0 + j]]
      BY DEF Slice
    <2>2. n \in Nat /\ Len(rows) = n
      BY <1>1, <1>5
    <2> HIDE DEF n
    <2>3. rows = [j \in 1 .. n |-> rows[j]]
      BY <1>1, <2>2
    <2>4. \A j \in 1 .. n : 0 + j = j
      BY <2>2
    <2> QED
      BY <2>1, <2>3, <2>4 DEF n
  <1> QED
    BY <1>6, <1>7 DEF parts, rows

\* Ranks that get the rows of their next step, or keep those they have
LEMMA MoveKept ==
  ASSUME RowsInv, driver' # "idle", call' = call, Held',
         call.kind \in Fetching => \A q \in Ranks :
           \/ pc'[q] = pc[q] /\ data'[q] = data[q] /\ output'[q] = output[q]
           \/ /\ data'[q] = RowsAt(call, pc'[q], q)
              /\ pc'[q] = "broadcast" /\ Leader(q) => output'[q] = Shared(call, q, RowsOf(call))
  PROVE  RowsInv'
  <1>1. Valid(call)'
    BY DEF RowsInv, Valid
  <1>2. RowsInPlace'
    <2> SUFFICES ASSUME call.kind \in Fetching, NEW r \in Ranks
                 PROVE  /\ data'[r] = RowsAt(call, pc'[r], r)
                        /\ pc'[r] = "broadcast" /\ Leader(r) => output'[r] = Shared(call, r, RowsOf(call))
      BY DEF RowsInPlace
    <2>1. /\ data[r] = RowsAt(call, pc[r], r)
          /\ pc[r] = "broadcast" /\ Leader(r) => output[r] = Shared(call, r, RowsOf(call))
      BY DEF RowsInv, RowsInPlace
    <2> QED
      BY <2>1
  <1> QED
    BY <1>1, <1>2, BusyKept DEF RowsInv

\* Splitting the group's rows gives each rank its own.
LEMMA SplitKept ==
  ASSUME Types, InMethod, RowsInv, NEW r \in Ranks, Split(r)
  PROVE  RowsInv'
  <1>1. /\ At(r, "split") /\ Advance({r}) /\ UNCHANGED driverVars /\ output' = output
        /\ data' = [data EXCEPT ![r] = Chunk(@, GroupSize("split"), r % GroupSize("split"))]
    BY Zenon DEF Split
  <1>2. driver' # "idle" /\ call' = call /\ pc[r] = "split"
    BY <1>1 DEF At, driverVars
  <1>3. GroupSize("split") = Group(call)
    BY DEF GroupSize, Group, Agreements
  <1>4. /\ pc'[r] = After(r, "split")
        /\ \A q \in Ranks : q # r => pc'[q] = pc[q]
    BY <1>1, <1>2 DEF Advance
  <1>5. /\ data'[r] = Chunk(data[r], Group(call), r % Group(call))
        /\ \A q \in Ranks : q # r => data'[q] = data[q]
        /\ Held'
    BY <1>1, <1>3 DEF RowsInv, Held
  <1>7. ASSUME call.kind \in Fetching
        PROVE  data'[r] = RowsAt(call, pc'[r], r) /\ pc'[r] # "broadcast"
    <2>1. data[r] = Shared(call, r, Answered(call))
      BY <1>2, <1>7 DEF RowsInv, RowsInPlace, RowsAt, Syncing
    <2>2. data'[r] = Own(call, r, Answered(call))
      BY <1>5, <1>7, <2>1, OwnOfShared DEF RowsInv
    <2>3. CASE call.kind = "generate"
      <3>1. pc'[r] \in {"release", "returned"}
        BY <1>4, <2>3, PathOfGenerate DEF After
      <3> QED
        BY <2>2, <3>1 DEF RowsAt, Syncing
    <2>4. CASE call.kind = "compute_log_prob"
      <3>1. pc'[r] = "offload"
        BY <1>4, <2>4 DEF After, AfterInActor
      <3> QED
        BY <2>2, <2>4, <3>1 DEF RowsAt, Syncing
    <2> QED
      BY <1>7, <2>3, <2>4 DEF Fetching
  <1> QED
    BY <1>1, <1>2, <1>4, <1>5, <1>7, MoveKept

\* A leader answers its group's prompts.
LEMMA GenerateKept ==
  ASSUME Types, InMethod, RowsInv, NEW r \in Ranks, Generate(r)
  PROVE  RowsInv'
  <1>1. /\ At(r, "generate") /\ Advance({r}) /\ UNCHANGED driverVars /\ data' = data
        /\ output' = [output EXCEPT ![r] = [i \in 1 .. Len(data[r]) |-> data[r][i].prompt]]
    BY Zenon DEF Generate
  <1>2. driver' # "idle" /\ call' = call /\ pc[r] = "generate"
    BY <1>1 DEF At, driverVars
  <1>3. call.kind = "generate"
    BY <1>2 DEF InMethod, Types, StepsOf, Methods
  <1>4. /\ pc'[r] = "broadcast"
        /\ \A q \in Ranks : q # r => pc'[q] = pc[q]
    BY <1>1, <1>2, <1>3, PathOfGenerate DEF Advance, After
  <1>5. /\ output'[r] = [i \in 1 .. Len(data[r]) |-> data[r][i].prompt]
        /\ \A q \in Ranks : q # r => output'[q] = output[q]
        /\ Held'
    BY <1>1 DEF RowsInv, Held
  <1>6. data[r] = Shared(call, r, Asked(call))
    BY <1>2, <1>3 DEF RowsInv, RowsInPlace, RowsAt, Syncing, Fetching
  <1>7. data'[r] = RowsAt(call, pc'[r], r)
    BY <1>1, <1>4, <1>6 DEF RowsAt, Syncing
  <1>8. output'[r] = Shared(call, r, RowsOf(call))
    <2> DEFINE n == Group(call) * PerRank(call)
               s == Shared(call, r, RowsOf(call))
    <2>1. call.kind \in Fetching /\ Valid(call)
      BY <1>3 DEF Fetching, RowsInv
    <2>2. n \in Nat /\ s = [i \in 1 .. n |-> s[i]] /\ data[r] = [i \in 1 .. n |-> Unanswered(s[i])]
      BY <1>6, <2>1, SharedRows
    <2> HIDE DEF n, s
    <2>3. Len(data[r]) = n /\ \A i \in 1 .. n : data[r][i].prompt = s[i]
      BY <2>2 DEF Unanswered
    <2>4. output'[r] = s
      BY <1>5, <2>2, <2>3
    <2> QED
      BY <2>4 DEF s
  <1> QED
    BY <1>1, <1>2, <1>4, <1>5, <1>7, <1>8, MoveKept

\* Sharing gives each rank of a group the rows of all of them.
LEMMA ShareKept ==
  ASSUME Types, InMethod, RowsInv, NEW r \in Ranks, Share(r)
  PROVE  RowsInv'
  <1> DEFINE size == GroupSize("share")
             R == Peers(r, size)
             rows == FlattenSeq([i \in 1 .. size |-> data[(r \div size) * size + i - 1]])
  <1>1. /\ Complete(r, "share") /\ Advance(R) /\ UNCHANGED driverVars /\ output' = output
        /\ data' = [q \in Ranks |-> IF q \in R THEN rows ELSE data[q]]
    BY Zenon DEF Share
  <1>2. size = Group(call)
    BY DEF GroupSize, Group, Agreements
  <1> HIDE DEF rows, size
  <1>3. \A q \in R : At(q, "share") /\ q \in Ranks /\ q \div size = r \div size
    BY <1>1 DEF Complete, Peers, size
  <1>4. r \in R
    BY DEF Peers
  <1>5. driver' # "idle" /\ call' = call /\ \A q \in R : pc[q] = "share"
    BY <1>1, <1>3, <1>4 DEF At, driverVars
  <1> HIDE DEF R
  <1>6. /\ \A q \in R : pc'[q] = After(q, "share") /\ data'[q] = rows
        /\ \A q \in Ranks : q \notin R => pc'[q] = pc[q] /\ data'[q] = data[q]
        /\ Held'
    BY <1>1, <1>3, <1>5 DEF Advance, RowsInv, Held
  <1>7. ASSUME call.kind \in Fetching PROVE rows = Shared(call, r, Asked(call))
    <2> DEFINE g == Group(call)
               d == r \div g
    <2>1. Valid(call)
      BY DEF RowsInv
    <2>2. PerRank(call) \in Nat \ {0}
      BY <1>7, <2>1, RowsSized
    <2>3. \A i \in 1 .. g : d * g + i - 1 \in Ranks /\ (d * g + i - 1) \div g = d
      BY <2>2, GroupRows
    <2>4. ASSUME NEW i \in 1 .. g
          PROVE  data[d * g + i - 1] = Own(call, d * g + i - 1, Asked(call))
      <3> DEFINE q == d * g + i - 1
      <3>1. q \in Ranks /\ q \div g = d
        BY <2>3
      <3> HIDE DEF q
      <3>2. q \in R
        BY <1>2, <3>1 DEF R, Peers
      <3>3. pc[q] = "share"
        BY <1>5, <3>2
      <3>4. data[q] = Own(call, q, Asked(call))
        BY <1>7, <3>1, <3>3 DEF RowsInv, RowsInPlace, RowsAt, Syncing
      <3> QED
        BY <3>4 DEF q
    <2>5. [i \in 1 .. g |-> data[d * g + i - 1]] = [i \in 1 .. g |-> Own(call, d * g + i - 1, Asked(call))]
      BY <2>4
    <2>6. FlattenSeq([i \in 1 .. g |-> Own(call, d * g + i - 1, Asked(call))]) = Shared(call, r, Asked(call))
      BY <1>7, <2>1, SharedOfOwn
    <2>7. rows = FlattenSeq([i \in 1 .. g |-> data[d * g + i - 1]])
      BY <1>2 DEF rows
    <2> QED
      BY <2>5, <2>6, <2>7
  <1>8. ASSUME call.kind \in Fetching, NEW q \in R
        PROVE  /\ data'[q] = RowsAt(call, pc'[q], q)
               /\ ~ (pc'[q] = "broadcast" /\ Leader(q))
    <2>1. data'[q] = Shared(call, q, Asked(call))
      BY <1>2, <1>3, <1>6, <1>7, <1>8 DEF Shared
    <2>2. CASE call.kind = "generate"
      <3>1. pc'[q] = IF Leader(q) THEN "generate" ELSE "broadcast"
        BY <1>6, <2>2, PathOfGenerate DEF After
      <3> QED
        BY <2>1, <3>1 DEF RowsAt, Syncing
    <2>3. CASE call.kind = "compute_log_prob"
      <3>1. pc'[q] = "forward"
        BY <1>6, <2>3 DEF After, AfterInActor
      <3> QED
        BY <2>1, <3>1 DEF RowsAt, Syncing
    <2> QED
      BY <1>8, <2>2, <2>3 DEF Fetching
  <1>9. call.kind \in Fetching => \A q \in Ranks :
           \/ pc'[q] = pc[q] /\ data'[q] = data[q] /\ output'[q] = output[q]
           \/ /\ data'[q] = RowsAt(call, pc'[q], q)
              /\ pc'[q] = "broadcast" /\ Leader(q) => output'[q] = Shared(call, q, RowsOf(call))
    BY <1>1, <1>6, <1>8
  <1> QED
    BY <1>5, <1>6, <1>9, MoveKept

\* The answers of the leader join the prompts of its group.
LEMMA BroadcastKept ==
  ASSUME Types, InMethod, RowsInv, NEW r \in Ranks, Broadcast(r)
  PROVE  RowsInv'
  <1> DEFINE R == Peers(r, TPSize)
             leader == (r \div TPSize) * TPSize
             answers == output[leader]
  <1>1. /\ Complete(r, "broadcast") /\ Advance(R) /\ UNCHANGED driverVars /\ output' = output
        /\ data' = [q \in Ranks |->
                      IF q \in R
                      THEN [i \in 1 .. Len(data[q]) |-> [data[q][i] EXCEPT !.answer = answers[i]]]
                      ELSE data[q]]
    BY Zenon DEF Broadcast
  <1>2. GroupSize("broadcast") = TPSize
    BY DEF GroupSize, Agreements
  <1>3. /\ \A q \in R : At(q, "broadcast") /\ q \in Ranks /\ q \div TPSize = r \div TPSize
        /\ r \in R
    BY <1>1, <1>2 DEF Complete, Peers
  <1> HIDE DEF answers
  <1>4. driver' # "idle" /\ call' = call /\ \A q \in R : pc[q] = "broadcast"
    BY <1>1, <1>3 DEF At, driverVars
  <1>5. call.kind = "generate" /\ call.kind \in Fetching /\ Valid(call) /\ Group(call) = TPSize
    <2>1. pc[r] = "broadcast"
      BY <1>3, <1>4
    <2>2. call.kind = "generate"
      BY <2>1 DEF InMethod, Types, StepsOf, Methods
    <2> QED
      BY <2>2 DEF Fetching, Group, RowsInv
  <1>6. leader \in R /\ Leader(leader)
    <2> DEFINE d == r \div TPSize
    <2>1. PerRank(call) \in Nat \ {0}
      BY <1>5, RowsSized
    <2>2. /\ TPSize \in Nat \ {0} /\ d \in Nat /\ d * TPSize \in Nat
          /\ \A i \in 1 .. TPSize : d * TPSize + i - 1 \in Ranks /\ (d * TPSize + i - 1) \div TPSize = d
      <3>1. /\ TPSize \in Nat \ {0} /\ d \in Nat
            /\ \A i \in 1 .. TPSize : d * TPSize + i - 1 \in Ranks /\ (d * TPSize + i - 1) \div TPSize = d
        BY <1>5, <2>1, GroupRows
      <3> HIDE DEF d
      <3>2. d * TPSize \in Nat
        BY <3>1, Products
      <3> QED
        BY <3>1, <3>2
    <2> HIDE DEF d
    <2>3. 1 \in 1 .. TPSize /\ d * TPSize + 1 - 1 = d * TPSize
      BY <2>2
    <2>4. d * TPSize \in Ranks /\ (d * TPSize) \div TPSize = d
      BY <2>2, <2>3
    <2>5. (d * TPSize) % TPSize = 0
      <3>1. 0 \in 0 .. TPSize - 1 /\ TPSize * d + 0 = d * TPSize
        BY <2>2
      <3>2. (TPSize * d + 0) % TPSize = 0
        BY <2>2, <3>1, Cell
      <3> QED
        BY <3>1, <3>2
    <2> QED
      BY <2>4, <2>5 DEF Peers, Leader, d
  <1> HIDE DEF R, leader
  <1>7. answers = Shared(call, r, RowsOf(call))
    <2>1. output[leader] = Shared(call, leader, RowsOf(call))
      BY <1>3, <1>4, <1>5, <1>6 DEF RowsInv, RowsInPlace
    <2>2. leader \div TPSize = r \div TPSize
      BY <1>3, <1>6
    <2> QED
      BY <1>5, <2>1, <2>2 DEF Shared, answers
  <1>8. /\ \A q \in R : pc'[q] = "split"
        /\ \A q \in Ranks : q \notin R => pc'[q] = pc[q] /\ data'[q] = data[q]
        /\ Held'
    BY <1>1, <1>3, <1>4, <1>5, PathOfGenerate DEF Advance, After, RowsInv, Held
  <1>9. ASSUME NEW q \in R PROVE data'[q] = RowsAt(call, pc'[q], q)
    <2> DEFINE n == Group(call) * PerRank(call)
               s == Shared(call, q, RowsOf(call))
    <2>1. data[q] = Shared(call, q, Asked(call))
      BY <1>3, <1>4, <1>5 DEF RowsInv, RowsInPlace, RowsAt, Syncing
    <2>2. /\ n \in Nat /\ s = [i \in 1 .. n |-> s[i]]
          /\ data[q] = [i \in 1 .. n |-> Unanswered(s[i])]
          /\ Shared(call, q, Answered(call)) = [i \in 1 .. n |-> [prompt |-> s[i], answer |-> s[i]]]
      BY <1>3, <1>5, <2>1, SharedRows
    <2>3. answers = s
      BY <1>3, <1>5, <1>7 DEF Shared
    <2>4. data'[q] = [i \in 1 .. Len(data[q]) |-> [data[q][i] EXCEPT !.answer = answers[i]]]
      BY <1>1, <1>3
    <2> HIDE DEF n, s
    <2>5. Len(data[q]) = n
      BY <2>2
    <2>6. ASSUME NEW i \in 1 .. n
          PROVE  [data[q][i] EXCEPT !.answer = answers[i]] = [prompt |-> s[i], answer |-> s[i]]
      <3>1. data[q][i] = [prompt |-> s[i], answer |-> NoAnswer]
        BY <2>2 DEF Unanswered
      <3> QED
        BY <2>3, <3>1
    <2>7. data'[q] = Shared(call, q, Answered(call))
      BY <2>2, <2>4, <2>5, <2>6
    <2> QED
      BY <1>8, <2>7 DEF RowsAt, Syncing
  <1>10. \A q \in Ranks :
           \/ pc'[q] = pc[q] /\ data'[q] = data[q] /\ output'[q] = output[q]
           \/ /\ data'[q] = RowsAt(call, pc'[q], q)
              /\ pc'[q] = "broadcast" /\ Leader(q) => output'[q] = Shared(call, q, RowsOf(call))
    BY <1>1, <1>8, <1>9
  <1> QED
    BY <1>4, <1>8, <1>10, MoveKept

\* Every rank scores the rows it has.
LEMMA ForwardKept ==
  ASSUME Types, InMethod, RowsInv, NEW r \in Ranks, Forward(r)
  PROVE  RowsInv'
  <1>1. /\ Complete(r, "forward") /\ Advance(Ranks) /\ UNCHANGED driverVars /\ output' = output
        /\ data' = [q \in Ranks |->
                      [i \in 1 .. Len(data[q]) |-> [data[q][i] EXCEPT !.answer = data[q][i].prompt]]]
    BY Zenon DEF Forward
  <1>2. GroupSize("forward") = World
    BY DEF GroupSize, Agreements
  <1>3. \A q \in Ranks : At(q, "forward")
    BY <1>1, <1>2, WholeGroup DEF Complete
  <1>4. driver' # "idle" /\ call' = call /\ \A q \in Ranks : pc[q] = "forward"
    BY <1>1, <1>3 DEF At, driverVars
  <1>5. call.kind = "compute_log_prob" /\ call.kind \in Fetching /\ Valid(call)
    <2>1. pc[r] = "forward"
      BY <1>4
    <2>2. call.kind = "compute_log_prob"
      BY <2>1 DEF InMethod, Types, StepsOf, Methods, Syncing, Past
    <2> QED
      BY <2>2 DEF Fetching, RowsInv
  <1>6. Held' /\ \A q \in Ranks : pc'[q] = "split"
    BY <1>1, <1>4, <1>5 DEF Advance, After, AfterInActor, RowsInv, Held
  <1>7. ASSUME NEW q \in Ranks PROVE data'[q] = RowsAt(call, pc'[q], q)
    <2> DEFINE n == Group(call) * PerRank(call)
               s == Shared(call, q, RowsOf(call))
    <2>1. data[q] = Shared(call, q, Asked(call))
      BY <1>4, <1>5 DEF RowsInv, RowsInPlace, RowsAt, Syncing
    <2>2. /\ n \in Nat /\ data[q] = [i \in 1 .. n |-> Unanswered(s[i])]
          /\ Shared(call, q, Answered(call)) = [i \in 1 .. n |-> [prompt |-> s[i], answer |-> s[i]]]
      BY <1>5, <2>1, SharedRows
    <2>4. data'[q] = [i \in 1 .. Len(data[q]) |-> [data[q][i] EXCEPT !.answer = data[q][i].prompt]]
      BY <1>1
    <2> HIDE DEF n, s
    <2>5. Len(data[q]) = n
      BY <2>2
    <2>6. ASSUME NEW i \in 1 .. n
          PROVE  [data[q][i] EXCEPT !.answer = data[q][i].prompt] = [prompt |-> s[i], answer |-> s[i]]
      <3>1. data[q][i] = [prompt |-> s[i], answer |-> NoAnswer]
        BY <2>2 DEF Unanswered
      <3> QED
        BY <3>1
    <2>7. data'[q] = Shared(call, q, Answered(call))
      BY <2>2, <2>4, <2>5, <2>6
    <2> QED
      BY <1>6, <2>7 DEF RowsAt, Syncing
  <1> QED
    BY <1>4, <1>6, <1>7, MoveKept

\* The driver gets all rows in their order,
LEMMA Collected ==
  ASSUME RowsInv, Collect, call.kind \in Fetching
  PROVE  FlattenSeq([i \in 1 .. World |-> data[i - 1]]) = Answered(call)
  <1>1. \A r \in Ranks : pc[r] = "returned"
    BY Zenon DEF Collect, Returned
  <1>2. \A r \in Ranks : data[r] = Own(call, r, Answered(call))
    BY <1>1 DEF RowsInv, RowsInPlace, RowsAt, Syncing
  <1>3. ASSUME NEW i \in 1 .. World PROVE data[i - 1] = Own(call, i - 1, Answered(call))
    <2>1. i - 1 \in Ranks
      BY MeshAssumption DEF Ranks
    <2> QED
      BY <1>2, <2>1
  <1>4. [i \in 1 .. World |-> data[i - 1]] = [i \in 1 .. World |-> Own(call, i - 1, Answered(call))]
    BY <1>3
  <1> QED
    BY <1>4, AllOfOwn DEF RowsInv

\* and puts those of a rollout back where they were asked for.
LEMMA RestoredRows ==
  ASSUME NEW c, c.kind = "generate", Valid(c)
  PROVE  LET whole == Restored(SubSeq(Answered(c), 1, Len(Extracted(c.mask))), c.mask)
         IN  /\ Len(whole) = Batch
             /\ \A i \in c.mask : whole[i] = [prompt |-> i, answer |-> i]
  <1> DEFINE mask == c.mask
             n == Len(Extracted(mask))
             out == SubSeq(Answered(c), 1, n)
             back == Restored(out, mask)
  <1>1. mask \in Masks /\ mask \in SUBSET (1 .. Batch) /\ Batch \in Nat /\ c.kind \in Fetching
    BY MeshAssumption DEF Valid, Fetching
  <1>2. /\ Extracted(mask) \in Seq(Nat) /\ Extracted(mask) # <<>> /\ n \in Nat
        /\ mask # {} => /\ n = Cardinality(mask)
                        /\ \A i \in mask : Place(mask, i) \in 1 .. n
                        /\ \A i \in mask : Extracted(mask)[Place(mask, i)] = i
    BY <1>1, ExtractedRows
  <1>3. /\ Answered(c) \in Seq(RowSet) /\ Len(Answered(c)) = Len(RowsOf(c))
        /\ RowsOf(c) = Padded(Extracted(mask))
    BY <1>1, RecordsSized, RowsSized DEF RowsOf
  <1>4. /\ n <= Len(RowsOf(c))
        /\ \A i \in 1 .. n : RowsOf(c)[i] = Extracted(mask)[i]
    BY <1>2, <1>3, PaddedRows
  <1> HIDE DEF mask, n
  <1>5. Len(out) = n /\ \A i \in 1 .. n : out[i] = Answered(c)[i]
    BY <1>2, <1>3, <1>4
  <1>6. \A i \in 1 .. n : out[i] = [prompt |-> Extracted(mask)[i], answer |-> Extracted(mask)[i]]
    <2>1. \A i \in 1 .. n : i \in 1 .. Len(RowsOf(c))
      BY <1>2, <1>3, <1>4
    <2>2. \A i \in 1 .. n : Answered(c)[i] = [prompt |-> RowsOf(c)[i], answer |-> RowsOf(c)[i]]
      BY <2>1 DEF Answered
    <2> QED
      BY <1>4, <1>5, <2>2
  <1> HIDE DEF out
  <1>7. Len(back) = Batch
    BY <1>1 DEF Restored
  <1>8. ASSUME NEW i \in mask PROVE back[i] = [prompt |-> i, answer |-> i]
    <2>1. Len(out) = Cardinality(mask) /\ Place(mask, i) \in 1 .. n /\ Extracted(mask)[Place(mask, i)] = i
      BY <1>2, <1>5
    <2>2. i \in 1 .. Batch
      BY <1>1
    <2>3. back[i] = out[Place(mask, i)]
      BY <2>1, <2>2 DEF Restored, Place, UpTo
    <2>4. out[Place(mask, i)] = [prompt |-> i, answer |-> i]
      BY <1>6, <2>1
    <2> QED
      BY <2>3, <2>4
  <1> QED
    BY <1>7, <1>8 DEF out, n, mask

\* What the driver collects is what was asked for.
LEMMA CollectKept ==
  ASSUME RowsInv, Collect
  PROVE  RowsInv'
  <1> DEFINE out == FlattenSeq([i \in 1 .. World |-> data[i - 1]])
             n == Len(Extracted(call.mask))
  <1>1. /\ result' = CASE call.kind = "generate" -> Restored(SubSeq(out, 1, n), call.mask)
                       [] call.kind = "compute_log_prob" -> out
                       [] OTHER -> <<>>
        /\ UNCHANGED <<call, pc, data, output>>
    BY Zenon DEF Collect, rankVars
  <1> HIDE DEF out, n
  <1>2. Valid(call)' /\ Held'
    BY <1>1 DEF RowsInv, Valid, Held
  <1>3. RowsInPlace'
    BY <1>1 DEF RowsInv, RowsInPlace
  <1>4. ASSUME call.kind \in Fetching PROVE out = Answered(call)
    BY <1>4, Collected DEF out
  <1>5. ASSUME call.kind = "generate"
        PROVE  Len(result') = Batch /\ \A i \in call.mask : result'[i] = [prompt |-> i, answer |-> i]
    <2>1. result' = Restored(SubSeq(Answered(call), 1, n), call.mask)
      BY <1>1, <1>4, <1>5 DEF Fetching
    <2> QED
      BY <1>5, <2>1, RestoredRows DEF RowsInv, n
  <1>6. ASSUME call.kind = "compute_log_prob"
        PROVE  result' = [i \in 1 .. TrainRows |-> [prompt |-> i, answer |-> i]]
    <2>1. result' = Answered(call)
      BY <1>1, <1>4, <1>6 DEF Fetching
    <2>2. RowsOf(call) = [i \in 1 .. TrainRows |-> i]
      BY <1>6 DEF RowsOf
    <2>3. TrainRows \in Nat
      BY MeshAssumption DEF TrainRows
    <2>4. Len(RowsOf(call)) = TrainRows /\ \A i \in 1 .. TrainRows : RowsOf(call)[i] = i
      BY <2>2, <2>3
    <2> QED
      BY <2>1, <2>4 DEF Answered
  <1>7. RowsComeBack'
    BY <1>1, <1>5, <1>6 DEF RowsComeBack
  <1> QED
    BY <1>2, <1>3, <1>7 DEF RowsInv

\* At first nothing has been asked for;
LEMMA InitRowsInv == Init => RowsInv
  BY DEF Init, RowsInv, Valid, Held, RowsInPlace, RowsComeBack, Fetching

\* each step keeps the rows in place.
LEMMA NextRowsInv == IInv /\ RowsInv /\ [Next]_vars => RowsInv'
  <1> SUFFICES ASSUME IInv, RowsInv, [Next]_vars PROVE RowsInv'
    OBVIOUS
  <1>1. Types /\ InMethod
    BY DEF IInv
  <1>2. CASE CallGenerate
    <2>1. PICK mask \in Masks : Dispatch("generate", mask, Padded(Extracted(mask)))
      BY <1>2 DEF CallGenerate
    <2> DEFINE c == [kind |-> "generate", mask |-> mask]
    <2>2. c.kind = "generate" /\ c.mask = mask
      OBVIOUS
    <2> HIDE DEF c
    <2>3. Valid(c) /\ Padded(Extracted(mask)) = RowsOf(c)
      BY <2>2 DEF Valid, RowsOf
    <2> QED
      BY <2>1, <2>3, DispatchKept DEF c
  <1>3. CASE CallTraining
    <2>1. PICK kind \in {"compute_log_prob", "update_actor"} :
            Dispatch(kind, 1 .. TrainRows, [i \in 1 .. TrainRows |-> i])
      BY <1>3 DEF CallTraining
    <2> DEFINE c == [kind |-> kind, mask |-> 1 .. TrainRows]
    <2>2. c.kind = kind /\ kind # "generate"
      OBVIOUS
    <2> HIDE DEF c
    <2>3. Valid(c) /\ RowsOf(c) = [i \in 1 .. TrainRows |-> i]
      BY <2>2 DEF Valid, RowsOf
    <2> QED
      BY <2>1, <2>3, DispatchKept DEF c
  <1>4. CASE CallLoad
    <2>1. Dispatch("load_checkpoint", {}, <<>>)
      BY <1>4 DEF CallLoad
    <2> DEFINE c == [kind |-> "load_checkpoint", mask |-> {}]
    <2>2. c.kind = "load_checkpoint"
      OBVIOUS
    <2> HIDE DEF c
    <2>3. Valid(c) /\ "load_checkpoint" \notin Fetching
      BY <2>2 DEF Valid, Fetching
    <2> QED
      BY <2>1, <2>3, DispatchKept DEF c
  <1>5. CASE Collect
    BY <1>5, CollectKept
  <1>6. CASE Fail
    <2>1. driver' = "failed" /\ call' = call /\ pc' = pc /\ data' = data /\ output' = output
      BY <1>6, Zenon DEF Fail, rankVars
    <2> QED
      BY <2>1, QuietKept
  <1>7. CASE UNCHANGED vars
    <2>1. UNCHANGED <<driver, call, result, pc, data, output>>
      BY <1>7, Zenon DEF vars, driverVars, rankVars
    <2> QED
      BY <2>1 DEF RowsInv, Valid, Held, RowsInPlace, RowsComeBack
  <1>8. ASSUME NEW r \in Ranks, Changes(r) PROVE RowsInv'
    BY <1>1, <1>8, ChangesKeepRows
  <1>9. ASSUME NEW r \in Ranks, Split(r) \/ Generate(r) \/ Share(r) \/ Broadcast(r) \/ Forward(r)
        PROVE  RowsInv'
    BY <1>1, <1>9, SplitKept, GenerateKept, ShareKept, BroadcastKept, ForwardKept
  <1>10. CASE Work
    <2>1. Collect \/ Fail \/ \E r \in Ranks :
            Changes(r) \/ Split(r) \/ Generate(r) \/ Share(r) \/ Broadcast(r) \/ Forward(r)
      BY <1>10, Zenon DEF Work, Changes
    <2> QED
      BY <1>5, <1>6, <1>8, <1>9, <2>1
  <1> QED
    BY <1>2, <1>3, <1>4, <1>7, <1>10 DEF Next

\* Masking, padding, splitting over the ranks, sharing in groups, generating on
\* the leaders only, joining and restoring give every row that was asked for
\* its own answer at its own place, for any mask, batch and division of the
\* ranks, and however the ranks interleave.
THEOREM RowsReturnInPlace == Spec => []RowsComeBack
  <1>1. RowsInv => RowsComeBack
    BY DEF RowsInv
  <1> QED
    BY <1>1, InitRowsInv, NextRowsInv, Invariant, PTL DEF Spec

=============================================================================
