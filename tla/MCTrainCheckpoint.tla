--------------------------- MODULE MCTrainCheckpoint ---------------------------
(* Small instances of TrainCheckpoint for TLC.                             *)
EXTENDS TrainCheckpoint

Config(mode, freq, keep, warmup, every) ==
  [resume_mode |-> mode, save_freq |-> freq, max_actor_ckpt_to_keep |-> keep,
   critic_warmup |-> warmup, every_n_steps |-> every]

\* Automatic resume with and without rotation and warm-up, and the operator's.
MCConfigs ==
  {Config("auto", 2, 2, 0, 1), Config("auto", 1, 2, 2, 2), Config("auto", 3, 0, 0, 1),
   Config("auto", 1, 1, 0, 3), Config("resume_path", 1, 0, 2, 1)}

ByOperator == {Config("resume_path", 1, 0, 0, 1)}

=============================================================================
