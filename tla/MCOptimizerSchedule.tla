------------------------ MODULE MCOptimizerSchedule ------------------------
EXTENDS OptimizerSchedule

\* Two mini-batches of one-row micro-batches, and a single mini-batch learnt
\* from for two epochs in micro-batches of two rows.
MCConfigs ==
  {[num_minis |-> 2, epochs |-> 1, micro |-> 1, log_prob_micro |-> 2],
   [num_minis |-> 1, epochs |-> 2, micro |-> 2, log_prob_micro |-> 1]}
=============================================================================
