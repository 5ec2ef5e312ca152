--------------------------- MODULE DynamicSampling ---------------------------
(***************************************************************************)
(* TrajectoryCollector.multi_turn_loop on top of MathRollout.  Without     *)
(* filter_groups a batch is one rollout.  With it, whole rollouts of the   *)
(* same questions are tried until enough trajectories are left once the    *)
(* groups that teach nothing (all members got the same reward) have been   *)
(* dropped; the last try is kept as it is.                                 *)
(*                                                                         *)
(* A rollout never raises (RolloutNeverRaises) and gives every trajectory  *)
(* one of the rewards of its environment, so that here a try is one step.  *)
(***************************************************************************)
EXTENDS MathRollout

CONSTANTS
  Groups,    \* the questions of a batch
  GroupOf,   \* per row: the question it is a sample of
  MaxTries   \* filter_groups.max_num_gen_batches

ASSUME GroupsAssumption == GroupOf \in [Rows -> Groups] /\ MaxTries \in Nat \ {0}

VARIABLES
  filter_groups,  \* algorithm.filter_groups.enable
  sampling,       \* "trying", or "sampled" when the loop has returned
  try_count,      \* rollouts made
  kept            \* total_batch_list: trajectories by row, try and reward

dynVars == <<filter_groups, sampling, try_count, kept>>

\* train_batch_size * rollout.n: a full batch of trajectories
Target == Cardinality(Rows)

Members(g) == {r \in Rows : GroupOf[r] = g}

Informative(g, reward) == \E r, q \in Members(g) : reward[r] # reward[q]

\* Mutant: the last try is filtered like the others.
KeptRowsAlwaysFiltered(reward, last_try) ==
  {r \in Rows : Informative(GroupOf[r], reward)}

\* filter_group_data: the rows whose trajectories stay.
KeptRows(reward, last_try) ==
  IF last_try THEN Rows ELSE {r \in Rows : Informative(GroupOf[r], reward)}

InitD ==
  /\ InitR
  /\ filter_groups \in BOOLEAN
  /\ sampling = "trying" /\ try_count = 0 /\ kept = {}

MoreNeeded == Cardinality(kept) < Target /\ try_count < MaxTries

\* One rollout and the filter over it; its groups get uids of their own.
Try(reward) ==
  /\ filter_groups /\ sampling = "trying" /\ MoreNeeded
  /\ try_count' = try_count + 1
  /\ kept' = kept \cup
       {[row |-> r, try |-> try_count, reward |-> reward[r]] :
          r \in KeptRows(reward, try_count + 1 = MaxTries)}
  /\ UNCHANGED <<filter_groups, sampling>>

ReturnSampled ==
  /\ filter_groups /\ sampling = "trying" /\ ~ MoreNeeded
  /\ sampling' = "sampled"
  /\ UNCHANGED <<filter_groups, try_count, kept>>

\* The next call starts with empty lists.
NextSampled ==
  /\ filter_groups /\ sampling = "sampled"
  /\ sampling' = "trying" /\ try_count' = 0 /\ kept' = {}
  /\ UNCHANGED filter_groups

NextD ==
  \/ ~ filter_groups /\ NextR /\ UNCHANGED dynVars
  \/ /\ \/ \E reward \in [Rows -> {0, 1}] : Try(reward)
        \/ ReturnSampled \/ NextSampled
     /\ UNCHANGED vars

SpecD == InitD /\ [][NextD]_<<vars, dynVars>>

-----------------------------------------------------------------------------
\* The cohort of a trajectory: the samples of its question in its try.
Cohort(t) == {u \in kept : GroupOf[u.row] = GroupOf[t.row] /\ u.try = t.try}

(* What dynamic sampling hands to the estimator is a full batch at least,  *)
(* however the rewards fall; it is made of whole cohorts, the samples of   *)
(* one question in one try, never of a part of one; and a cohort without   *)
(* any contrast is there only from the last try.                           *)
SampledBatchIsUsable ==
  sampling = "sampled" =>
    /\ Cardinality(kept) >= Target
    /\ \A t \in kept :
         /\ {u.row : u \in Cohort(t)} = Members(GroupOf[t.row])
         /\ (\E u \in Cohort(t) : u.reward # t.reward) \/ t.try = MaxTries - 1

=============================================================================
