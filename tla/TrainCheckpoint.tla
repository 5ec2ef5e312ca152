---------------------------- MODULE TrainCheckpoint ----------------------------
(***************************************************************************)
(* The training loop of RayPPOTrainer.fit with its checkpoints, crashes    *)
(* and restarts.  A step draws a batch, prepares scorer and controller,    *)
(* updates every worker group's actor, and then the scorer.  A save writes *)
(* one file after another into global_step_N, and the tracker file last; a *)
(* crash may fall between any two writes or inside one.  Actors rotate     *)
(* their old directories while they save.  The events of every batch go to *)
(* a part file of their own, which later runs of the job share.            *)
(*                                                                         *)
(* What a part of the system has learnt is the sequence of the runs in     *)
(* which it took its steps, so that states of the same step that come from *)
(* different runs are told apart.                                          *)
(***************************************************************************)
EXTENDS Integers, Sequences, FiniteSets, SequencesExt

CONSTANTS
  WGs,          \* the worker groups that train an actor
  Configs,      \* what the job may be configured with
  TotalSteps,   \* total_training_steps
  EpochLen,     \* batches of the dataloader
  Epochs,       \* trainer.total_epochs
  MaxRuns       \* bound: starts of the job

\* The names of the files are different.
ASSUME WGsAssumption ==
  /\ IsFiniteSet(WGs)
  /\ WGs \cap {"data", "manifest", "semantic", "controller", "hybrid", "tracker"} = {}

\* max_actor_ckpt_to_keep is 0 for null.
ASSUME ConfigsAssumption ==
  Configs \subseteq [resume_mode            : {"auto", "resume_path"},
                     save_freq              : Nat \ {0},
                     max_actor_ckpt_to_keep : Nat,
                     critic_warmup          : Nat,
                     every_n_steps          : Nat \ {0}]
ASSUME BoundsAssumption == {TotalSteps, EpochLen, Epochs, MaxRuns} \subseteq Nat \ {0}
\* The epochs hold enough batches for the steps that are asked for.
ASSUME EpochsAssumption == TotalSteps <= EpochLen * Epochs

VARIABLES
  trainer,   \* the configuration of the job and of its restarts
  phase,     \* "down", "draw", "prepare", "update", "save", "done", "ended"
  step,      \* global_steps
  epochs,    \* epochs the loop has begun
  left,      \* batches left in the current epoch's iterator
  mem,       \* what every part has learnt
  kept,      \* previous_saved_paths of every actor's checkpoint manager
  file,      \* the file of the save that comes next, and whether it is open
  folder,    \* global_step_N
  trace,     \* the runs whose events of a step are on disk, part by part
  tracker,   \* latest_checkpointed_iteration.txt
  run,       \* starts of the job so far
  reached    \* history: the last step any run has trained

vars == <<trainer, phase, step, epochs, left, mem, kept, file, folder, trace, tracker, run, reached>>

Automatic == trainer.resume_mode = "auto"
Warmup    == trainer.critic_warmup

\* A job that is started again after its last step trains one step more.
Steps   == 1 .. TotalSteps + MaxRuns - 1
\* No history holds a run 0 or -1.
Missing == <<0>>
Torn    == <<-1>>
NoStep  == 0
TornStep == -1

\* data.pt, the Team Event manifest, and the three hybrid files.
Parts == WGs \cup {"data", "manifest", "semantic", "controller", "hybrid"}

\* Mutant: the tracker is written before the folder is complete.
FilesTrackerFirst ==
  <<"tracker">> \o SetToSeq(WGs) \o <<"data", "manifest", "semantic", "controller", "hybrid">>

\* The files of a save in the order they are written.
Files ==
  SetToSeq(WGs) \o <<"data", "manifest", "semantic", "controller", "hybrid", "tracker">>

Nothing == [part \in Parts |-> <<>>]
Empty   == [part \in Parts |-> Missing]
Closed  == [next |-> 1, open |-> FALSE]

Readable(s) == \A part \in Parts : folder[s][part] \notin {Missing, Torn}

\* Mutant: only the last step is saved.
SaveDueLast == step >= TotalSteps

IsLast == step >= TotalSteps

SaveDue == IsLast \/ step % trainer.save_freq = 0

-----------------------------------------------------------------------------
Init ==
  /\ trainer \in Configs
  /\ phase = "down" /\ step = 0 /\ epochs = 0 /\ left = 0
  /\ mem = Nothing
  /\ kept = [wg \in WGs |-> <<>>]
  /\ file = Closed
  /\ folder = [s \in Steps |-> Empty]
  /\ trace = [s \in Steps |-> <<>>]
  /\ tracker = NoStep
  /\ run = 0 /\ reached = 0

Started(s, learnt) ==
  /\ phase' = "draw"
  /\ step' = s + 1
  /\ mem' = learnt
  /\ epochs' = 1
  /\ run' = run + 1
  /\ UNCHANGED <<kept, file, folder, trace, tracker, reached>>

\* Training from scratch: nothing to resume, or a new directory.
StartFresh ==
  /\ phase = "down" /\ run < MaxRuns
  /\ IF Automatic THEN tracker = NoStep ELSE run = 0
  /\ Started(0, Nothing)
  /\ left' = EpochLen

\* Mutant: the first epoch of a resumed run is skipped.
LeftAfterNone(s) == 0

\* The batches the restored dataloader still yields in its first epoch.
LeftAfter(s) == IF s % EpochLen = 0 THEN 0 ELSE EpochLen - (s % EpochLen)

\* global_steps as read from the folder's name.
FirstStep(s) == s

\* Mutant: the dataloader starts from scratch.
LoadedWithoutData(s) == [folder[s] EXCEPT !["data"] = <<>>]

\* What is read back from global_step_s.
Loaded(s) == folder[s]

\* _load_checkpoint: with "auto" the folder the tracker names, else the one
\* the operator names.  A file that is missing or torn ends the job.
Resume(s) ==
  /\ phase = "down" /\ run < MaxRuns
  /\ Automatic => s = tracker
  /\ Readable(s)
  /\ Started(FirstStep(s), Loaded(s))
  /\ left' = LeftAfter(s)

\* The iterator is exhausted: the next epoch begins, or the loop ends.
NextEpoch ==
  /\ phase = "draw" /\ left = 0
  /\ IF epochs < Epochs
     THEN epochs' = epochs + 1 /\ left' = EpochLen /\ UNCHANGED phase
     ELSE phase' = "ended" /\ UNCHANGED <<epochs, left>>
  /\ UNCHANGED <<step, mem, kept, file, folder, trace, tracker, run, reached>>

\* Mutant: a part's number is this process's count alone, 0 at every step.
DumpedOver(parts) == <<run>> \o SubSeq(parts, 2, Len(parts))

\* dump_event_trace_jsonl: the first number no part of the step has yet.
Dumped(parts) == Append(parts, run)

\* A batch is drawn and rolled out, and its events are dumped: a file written
\* to the side and renamed.
Draw ==
  /\ phase = "draw" /\ left > 0
  /\ left' = left - 1
  /\ mem' = [mem EXCEPT !["data"] = Append(@, run)]
  /\ trace' = IF step % trainer.every_n_steps = 0 THEN [trace EXCEPT ![step] = Dumped(@)] ELSE trace
  /\ phase' = "prepare"
  /\ UNCHANGED <<step, epochs, kept, file, folder, tracker, run, reached>>

\* Scorer and controller see the batch.  The controller raises unless the step
\* is a new one.
Prepare ==
  /\ phase = "prepare"
  /\ Len(mem["controller"]) < step
  /\ mem' = [mem EXCEPT !["controller"] = Append(@, run)]
  /\ phase' = "update"
  /\ UNCHANGED <<step, epochs, left, kept, file, folder, trace, tracker, run, reached>>

\* Where the loop goes after a step.
AfterStep ==
  IF IsLast THEN phase' = "done" /\ UNCHANGED step
  ELSE phase' = "draw" /\ step' = step + 1

\* The parts a training step changes once the critic is warm.
Learning == IF step >= Warmup THEN WGs \cup {"semantic", "hybrid"} ELSE {}

\* Every actor is updated, _actor_update_count goes up, the scorer learns.
Train ==
  /\ phase = "update"
  /\ mem' = [part \in Parts |->
               IF part \in Learning THEN Append(mem[part], run) ELSE mem[part]]
  /\ reached' = IF step > reached THEN step ELSE reached
  /\ IF SaveDue THEN phase' = "save" /\ UNCHANGED step ELSE AfterStep
  /\ UNCHANGED <<epochs, left, kept, file, folder, trace, tracker, run>>

\* The directories an actor removes before it saves once more.
Rotated(wg) ==
  LET keep == trainer.max_actor_ckpt_to_keep IN
  IF keep > 0 /\ Len(kept[wg]) >= keep
  THEN SubSeq(kept[wg], 1, Len(kept[wg]) - keep + 1)
  ELSE <<>>

\* A file is opened, and an actor's old directories are removed.  Only
\* semantic_value.pt is written to the side and renamed.
Open ==
  LET name == Files[file.next] IN
  /\ phase = "save" /\ ~ file.open
  /\ file' = [file EXCEPT !.open = TRUE]
  /\ tracker' = IF name = "tracker" THEN TornStep ELSE tracker
  /\ folder' =
       [s \in Steps |->
          IF name \in WGs /\ s \in ToSet(Rotated(name)) THEN [folder[s] EXCEPT ![name] = Missing]
          ELSE IF s = step /\ name \in Parts \ {"semantic"} THEN [folder[s] EXCEPT ![name] = Torn]
          ELSE folder[s]]
  /\ kept' = IF name \in WGs
             THEN [kept EXCEPT ![name] = SubSeq(@, Len(Rotated(name)) + 1, Len(@))]
             ELSE kept
  /\ UNCHANGED <<phase, step, epochs, left, mem, trace, run, reached>>

\* The file is complete; after the last one the step is over.
Close ==
  LET name == Files[file.next] IN
  /\ phase = "save" /\ file.open
  /\ IF name = "tracker" THEN tracker' = step /\ UNCHANGED folder
     ELSE folder' = [folder EXCEPT ![step][name] = mem[name]] /\ UNCHANGED tracker
  /\ kept' = IF name \in WGs THEN [kept EXCEPT ![name] = Append(@, step)] ELSE kept
  /\ IF file.next = Len(Files)
     THEN file' = Closed /\ AfterStep
     ELSE file' = [next |-> file.next + 1, open |-> FALSE] /\ UNCHANGED <<phase, step>>
  /\ UNCHANGED <<epochs, left, mem, trace, run, reached>>

\* The job dies; the disk is what remains.
Crash ==
  /\ phase \notin {"down", "done", "ended"}
  /\ phase' = "down" /\ step' = 0 /\ epochs' = 0 /\ left' = 0
  /\ mem' = Nothing
  /\ kept' = [wg \in WGs |-> <<>>]
  /\ file' = Closed
  /\ UNCHANGED <<folder, trace, tracker, run, reached>>

Next ==
  /\ \/ StartFresh
     \/ \E s \in Steps : Resume(s)
     \/ NextEpoch \/ Draw \/ Prepare \/ Train \/ Open \/ Close \/ Crash
  /\ UNCHANGED trainer

Spec == Init /\ [][Next]_vars

-----------------------------------------------------------------------------
\* The steps in which actors and scorer learn, out of a history h.
Warm(h) == SubSeq(h, IF Warmup > 1 THEN Warmup ELSE 1, Len(h))

(* Whenever a step begins, every part has taken the same earlier steps: no *)
(* actor, scorer, controller or update counter is a step ahead or behind.  *)
StepsAgree ==
  phase = "draw" =>
    /\ Len(mem["data"]) = step - 1 /\ Len(mem["controller"]) = step - 1
    /\ \A part \in WGs \cup {"semantic", "hybrid"} :
         Len(mem[part]) = Len(Warm(mem["data"]))

Lineage ==
  phase = "draw" =>
    /\ mem["controller"] = mem["data"]
    /\ \A part \in WGs \cup {"semantic", "hybrid"} : mem[part] = Warm(mem["data"])

(* Whatever is trained on can be looked up: of every step in the history   *)
(* the events of the run that took it are on disk, once, though runs that  *)
(* died later took the step too.                                           *)
TraceIsKept ==
  \A s \in 1 .. Len(mem["data"]) :
    s % trainer.every_n_steps = 0 =>
      Cardinality({i \in 1 .. Len(trace[s]) : trace[s][i] = mem["data"][s]}) = 1

(* All parts resume together; and with automatic resume a resumed state is *)
(* one that existed, never put together from two different saves; and the  *)
(* event traces of that state's history are complete.                      *)
LineageAgrees == StepsAgree /\ (Automatic => Lineage) /\ TraceIsKept

(* The same of every way to resume, an older folder named by the operator  *)
(* included: a folder that loads is one complete save.                     *)
FoldersAreWhole == Lineage

(* With automatic resume the folder the tracker names can be loaded, at    *)
(* every instant, a save or a rotation in progress included.  Not so with  *)
(* a single directory to keep, which goes before its successor is written. *)
TrackedIsReadable ==
  Automatic /\ trainer.max_actor_ckpt_to_keep # 1 /\ tracker \in Steps => Readable(tracker)

(* An automatic restart loses at most the steps since the last save that   *)
(* was due.                                                                *)
BoundedLoss ==
  Automatic /\ phase = "draw" => step > reached - trainer.save_freq

(* The epoch loop, which starts over after a resume, never runs out of     *)
(* batches before the last step has been trained and saved.                *)
EndsAtLastStep == phase = "ended" => step > TotalSteps
=============================================================================
