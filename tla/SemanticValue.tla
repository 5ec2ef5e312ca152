---------------------------- MODULE SemanticValue ----------------------------
(***************************************************************************)
(* The semantic value scorer (PrefixValueScorer) and the driver that calls *)
(* it.  A batch of trajectories is scored with the deployed head only; the *)
(* batch's labels reach the candidate head after the actors' updates, and  *)
(* the candidate is deployed, for the roles it qualifies for, only when    *)
(* held-out questions say so and no qualified role loses.  A deployed head *)
(* that keeps failing on new held-out data loses its roles one by one.     *)
(*                                                                         *)
(* A head is what it has been trained on; how well it scores is open, so   *)
(* that every evaluation may come out either way.  Permissions (0. or 1.   *)
(* per role) are the set of roles that hold one.                           *)
(***************************************************************************)
EXTENDS Integers, Sequences, FiniteSets, SequencesExt

CONSTANTS
  Roles,          \* ROLES
  Questions,
  HeldOut,        \* the questions _is_validation selects
  PretrainedOn,   \* the questions a pretrained candidate head has seen
  Batches,        \* bound: the batches a rollout may bring, sets of records
  MaxBatch,       \* bound: rollouts
  Warmup,         \* trainer.critic_warmup: no actor or scorer update before it
  ReplayMax,      \* replay_max_trajectories
  MinTrain,       \* min_train_trajectories
  MinVal,         \* min_val_trajectories
  MinPerClass,    \* min_val_per_class
  Patience,       \* miscalibration_patience
  DisableMiscalibrated, DisableWhenInsufficient

\* A record: its question, its outcome, and what prepare() makes of it:
\* "ok", "ineligible" (scored, not trained on), or "skipped" (not encoded).
Records == [question : Questions, label : {0, 1}, fate : {"ok", "ineligible", "skipped"}]

ASSUME BatchesAssumption ==
  Batches \subseteq SUBSET Records /\ \A records \in Batches : IsFiniteSet(records)
\* Pretraining used the same split: a warm start does not compare the salts.
ASSUME HeldOutAssumption ==
  HeldOut \subseteq Questions /\ PretrainedOn \subseteq Questions \ HeldOut
ASSUME BoundsAssumption  ==
  /\ {ReplayMax, MinTrain, MinVal, MinPerClass, Patience} \subseteq Nat \ {0}
  /\ MaxBatch \in Nat /\ Warmup \in Nat

VARIABLES
  scorer,    \* the scorer object
  batch,     \* trainer.global_steps: number of the current batch
  phase,     \* "off", "ready", "prepared" (actors are updating)
  disk,      \* semantic_value.pt and the step of its folder, or NoCheckpoint
  served,    \* history: batch scored last and the newest label its head knew
  evidence   \* history: per role, held-out sets counted against it

vars == <<scorer, batch, phase, disk, served, evidence>>

NoCheckpoint == [batch |-> -1]
NoFingerprint == {"none"}

\* A head: the newest batch and the questions it has been trained on.
Untrained == [newest |-> -1, questions |-> {}]

\* _reset_training_state around the two heads.
Fresh(candidate, deployed) ==
  [candidate |-> candidate, deployed |-> deployed, step |-> 0, version |-> 0,
   pending |-> <<>>, replay |-> <<>>, ready |-> FALSE, allowed |-> {},
   bad |-> [role \in Roles |-> 0], fingerprint |-> NoFingerprint, pretrained |-> FALSE]

-----------------------------------------------------------------------------
\* Mutant: a checkpoint is resumed without the strikes of its roles.
ResumedForgetsWindows(s) == [s EXCEPT !.bad = [role \in Roles |-> 0]]

\* load(resume=True), field by field.
Resumed(s) ==
  [Fresh(s.candidate, s.deployed) EXCEPT
     !.ready = s.ready, !.pretrained = s.pretrained,
     !.version = s.version, !.allowed = s.allowed, !.replay = s.replay,
     !.pending = s.pending, !.step = s.step, !.bad = s.bad,
     !.fingerprint = s.fingerprint]

\* What load() demands of a checkpoint that is not a warm start.
Loadable(s, resume) ==
  /\ s.ready <=> s.allowed # {}
  /\ resume \/ (s.ready /\ s.pretrained)

\* load(): a qualified initialisation starts from the deployed head alone.
Qualified(s) ==
  [Fresh(s.deployed, s.deployed) EXCEPT
     !.ready = s.ready, !.pretrained = s.pretrained, !.version = s.version,
     !.allowed = s.allowed]

\* load(warm_start=True): candidate weights, and nothing else.
WarmStarted(s) == Fresh(s.candidate, Untrained)

-----------------------------------------------------------------------------
\* Keeping the newest entries of an OrderedDict.
Newest(s) == SubSeq(s, (IF Len(s) > ReplayMax THEN Len(s) - ReplayMax ELSE 0) + 1, Len(s))

\* The records of a batch that wait for update(), in batch order.
Eligible(records) ==
  SetToSeq({[id |-> <<batch, r>>, question |-> r.question, label |-> r.label] :
              r \in {q \in records : q.fate = "ok"}})

Encoded(records) == {r \in records : r.fate # "skipped"}

Ids(rows)      == {row.id : row \in rows}
Labels(rows)   == {row.label : row \in rows}
Asked(rows)    == {row.question : row \in rows}

\* Mutant: the trajectory, not its question, decides the split.
ValRowsByTrajectory(replay) ==
  {replay[i] : i \in {j \in 1 .. Len(replay) : j % 2 = 0}}

\* The held-out and the training trajectories of a replay.
ValRows(replay)   == {row \in ToSet(replay) : row.question \in HeldOut}
TrainRows(replay) == ToSet(replay) \ ValRows(replay)

Enough(train, val) ==
  /\ Cardinality(train) >= MinTrain
  /\ Cardinality(val) >= MinVal
  /\ \A label \in {0, 1} : Cardinality({row \in val : row.label = label}) >= MinPerClass
  /\ Labels(train) = {0, 1}

\* The candidate head after _train on the given rows.
Trained(head, train) ==
  [newest    |-> IF train = {} THEN head.newest
                 ELSE CHOOSE n \in {head.newest} \cup {row.id[1] : row \in train} :
                        \A k \in {head.newest} \cup {row.id[1] : row \in train} : k <= n,
   questions |-> head.questions \cup Asked(train)]

\* Mutant: any qualified candidate replaces the deployed head.
PreserveAlways(s, good, worse) == TRUE

\* Roles that hold a permission must keep it, without a worse Brier score.
Preserve(s, good, worse) ==
  ~ s.ready \/ \A role \in s.allowed : role \in good /\ role \notin worse

Deploy(s, good) ==
  [s EXCEPT !.deployed = s.candidate, !.allowed = good, !.ready = TRUE,
            !.version = s.version + 1, !.bad = [role \in Roles |-> 0]]

\* Mutant: the same held-out set counts again.
IsNewsAlways(s, val) == TRUE

\* Re-evaluating unchanged held-out data is no new evidence.
IsNews(s, val) == Ids(val) # s.fingerprint

\* The deployed head is judged; fit is the roles it still qualifies for.
Judge(s, val, fit) ==
  LET bad == [role \in Roles |->
                IF ~ IsNews(s, val) \/ role \notin s.allowed THEN s.bad[role]
                ELSE IF role \in fit THEN 0 ELSE s.bad[role] + 1]
      left == s.allowed \ {role \in s.allowed : IsNews(s, val) /\ bad[role] >= Patience}
  IN [s EXCEPT !.bad = bad, !.allowed = left, !.fingerprint = Ids(val), !.ready = left # {}]

\* _validate_deploy: good are the roles the candidate qualifies for, worse
\* those it scores worse on than the deployed head, fit those the deployed
\* head still qualifies for.
ValidateDeploy(s, val, good, worse, fit) ==
  IF good # {} /\ Preserve(s, good, worse) THEN Deploy(s, good)
  ELSE IF s.ready /\ DisableMiscalibrated THEN Judge(s, val, fit)
  ELSE s

\* disable_ready_when_insufficient.
Withdraw(s) == [s EXCEPT !.ready = FALSE, !.allowed = {}]

\* update() up to the evaluation: ingest what waits, train the candidate.
Ingested ==
  LET replay == Newest(scorer.replay \o scorer.pending) IN
  [scorer EXCEPT !.step = @ + 1, !.pending = <<>>, !.replay = replay,
                 !.candidate = Trained(@, TrainRows(replay))]

-----------------------------------------------------------------------------
PretrainedHead == [newest |-> 0, questions |-> PretrainedOn]

\* What a pretraining run may have left: batch 0 holds the historical data.
Pretrained ==
  {[Fresh(PretrainedHead, IF good = {} THEN Untrained ELSE PretrainedHead) EXCEPT
      !.step = 1, !.ready = good # {}, !.allowed = good,
      !.version = IF good = {} THEN 0 ELSE 1, !.pretrained = good # {}] : good \in SUBSET Roles}

Init ==
  /\ scorer = Fresh(Untrained, Untrained)
  /\ batch = 0
  /\ phase = "off"
  /\ disk = NoCheckpoint
  /\ served = [batch |-> 0, newest |-> -1]
  /\ evidence = [role \in Roles |-> {}]

\* A run without a checkpoint of its own: cold, from a qualified head, or from
\* candidate weights.
StartFresh ==
  /\ phase = "off" /\ disk = NoCheckpoint
  /\ \/ scorer' = Fresh(Untrained, Untrained)
     \/ \E s \in Pretrained : Loadable(s, FALSE) /\ scorer' = Qualified(s)
     \/ \E s \in Pretrained : scorer' = WarmStarted(s)
  /\ batch' = 1
  /\ phase' = "ready"
  /\ evidence' = [role \in Roles |-> {}]
  /\ UNCHANGED <<disk, served>>

\* A run that finds a checkpoint continues after its step.
Resume ==
  /\ phase = "off" /\ disk # NoCheckpoint
  /\ Loadable(disk.scorer, TRUE)
  /\ scorer' = Resumed(disk.scorer)
  /\ batch' = disk.batch + 1
  /\ phase' = "ready"
  /\ evidence' = disk.evidence
  /\ UNCHANGED <<disk, served>>

\* Mutant: the scorer is asked again once the batch has been learnt.
PrepareLate(records) ==
  /\ phase \in {"ready", "updated"} /\ batch <= MaxBatch
  /\ phase' = "prepared"
  /\ scorer' = [scorer EXCEPT !.pending = Newest(@ \o Eligible(records))]
  /\ served' = IF scorer.ready THEN [batch |-> batch, newest |-> scorer.deployed.newest]
               ELSE served
  /\ UNCHANGED <<batch, disk, evidence>>

\* prepare(): the whole batch is scored, then waits for update().
Prepare(records) ==
  /\ phase = "ready" /\ batch <= MaxBatch
  /\ phase' = "prepared"
  /\ scorer' = [scorer EXCEPT !.pending = Newest(@ \o Eligible(records))]
  /\ served' = IF scorer.ready /\ Encoded(records) # {}
               THEN [batch |-> batch, newest |-> scorer.deployed.newest]
               ELSE served
  /\ UNCHANGED <<batch, disk, evidence>>

\* The held-out sets counted against the roles, given the scorer afterwards.
EvidenceAfter(s, val) ==
  [role \in Roles |->
     IF scorer'.version # s.version \/ scorer'.bad[role] = 0 THEN {}
     ELSE IF scorer'.bad[role] # s.bad[role] THEN evidence[role] \cup {Ids(val)}
     ELSE evidence[role]]

\* update(), after every actor's; the step may be saved right after it.
Update(good, worse, fit) ==
  LET s   == Ingested
      val == ValRows(s.replay) IN
  /\ phase = "prepared" /\ batch >= Warmup
  /\ scorer' = IF Enough(TrainRows(s.replay), val) THEN ValidateDeploy(s, val, good, worse, fit)
               ELSE IF DisableWhenInsufficient THEN Withdraw(s)
               ELSE s
  /\ evidence' = EvidenceAfter(s, val)
  /\ phase' = "updated"
  /\ UNCHANGED <<batch, disk, served>>

\* Before the critic is warm the batch's labels stay pending.
SkipUpdate ==
  /\ phase = "prepared" /\ batch < Warmup
  /\ phase' = "updated"
  /\ UNCHANGED <<scorer, batch, disk, served, evidence>>

Save ==
  /\ phase = "updated"
  /\ disk' = [batch |-> batch, scorer |-> scorer, evidence |-> evidence]
  /\ UNCHANGED <<scorer, batch, phase, served, evidence>>

NextBatch ==
  /\ phase = "updated"
  /\ phase' = "ready"
  /\ batch' = batch + 1
  /\ UNCHANGED <<scorer, disk, served, evidence>>

\* The job dies; everything in memory is gone.
Crash ==
  /\ phase # "off"
  /\ phase' = "off"
  /\ scorer' = Fresh(Untrained, Untrained)
  /\ batch' = 0
  /\ evidence' = [role \in Roles |-> {}]
  /\ served' = [batch |-> 0, newest |-> -1]
  /\ UNCHANGED disk

Next ==
  \/ StartFresh \/ Resume
  \/ \E records \in Batches : Prepare(records)
  \/ \E good, worse, fit \in SUBSET Roles : Update(good, worse, fit)
  \/ SkipUpdate \/ Save \/ NextBatch \/ Crash

Spec == Init /\ [][Next]_vars

-----------------------------------------------------------------------------
(* The predictions a batch is trained with come from a head that has seen  *)
(* no label of that batch or of a later one, across restarts too.          *)
ServedBeforeLearnt == served.batch > 0 => served.newest < served.batch

(* A head in use was never trained on a question its qualification is      *)
(* measured on, however it came to be deployed.                            *)
DeployedIsHeldOut == scorer.ready => scorer.deployed.questions \cap HeldOut = {}
(* A role is struck at most once for each held-out set: its strikes are    *)
(* as many as the different sets the deployed head failed on.              *)
StrikesAreEvidence ==
  \A role \in Roles : scorer.bad[role] = Cardinality(evidence[role])

Deployed == phase = "prepared" /\ phase' = "updated" /\ scorer'.version # scorer.version

QualifiedKept == Deployed /\ scorer.ready => scorer.allowed \subseteq scorer'.allowed

(* Deploying a new head never takes a permission away: the shared weights  *)
(* change only if every role that was qualified still is.                  *)
DeployKeepsQualified == [][QualifiedKept]_vars

ResumeSame == phase = "off" /\ phase' = "ready" /\ disk # NoCheckpoint => scorer' = disk.scorer

SavesLoadable == disk' # disk => Loadable(disk'.scorer, TRUE)

(* What is saved can be resumed, its readiness agreeing with its           *)
(* permissions, and a resumed scorer is the one that was saved: strikes,   *)
(* replay, waiting labels and the last evidence included.                  *)
ResumeIsExact == [][SavesLoadable /\ ResumeSame]_vars

=============================================================================
