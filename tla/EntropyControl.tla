---------------------------- MODULE EntropyControl ----------------------------
(***************************************************************************)
(* SemanticEntropyController: one call of prepare() per training step,     *)
(* with saves and restarts between the calls.  Each (role, turn) group     *)
(* calibrates an entropy cap on the first steps and freezes it; each role  *)
(* earns its weight over qualified batches in which the value head had     *)
(* something to say about it, and starts over when it loses qualification. *)
(*                                                                         *)
(* A row of a batch is an executed action or a padding copy of one.  Its   *)
(* fields are what the gates read: whether it may calibrate and control    *)
(* (good, eligible), whether the value head scored it (scored), and        *)
(* whether the score fell beyond the dead zone (dropped).  Risk compares   *)
(* running averages with the cap and may come out either way.  Weights are *)
(* in units of 1 / ramp_steps.                                             *)
(***************************************************************************)
EXTENDS Integers, Sequences, FiniteSets, SequencesExt, FiniteSetsExt

CONSTANTS
  Roles, Turns,
  Batches,            \* bound: the batches a rollout may bring, sets of rows
  MaxStep,            \* bound: training steps
  CalibrationSteps,   \* calibration_steps
  MinCalibration,     \* min_calibration_actions
  MinGroup,           \* min_group_actions
  RampSteps           \* ramp_steps

Groups == Roles \X Turns

Rows == [traj : Nat, role : Roles, turn : Turns, copy : Nat,
         good : BOOLEAN, eligible : BOOLEAN, scored : BOOLEAN, dropped : BOOLEAN]

Identity(row) == <<row.traj, row.role, row.turn>>

ASSUME BoundsAssumption ==
  /\ {CalibrationSteps, MinCalibration, MinGroup, RampSteps} \subseteq Nat \ {0}
  /\ MaxStep \in Nat

\* Copies of an action agree on everything prepare() compares.
ASSUME BatchesAssumption ==
  \A batch \in Batches :
    /\ batch \subseteq Rows /\ IsFiniteSet(batch)
    /\ \A r, q \in batch : Identity(r) = Identity(q) => [r EXCEPT !.copy = q.copy] = q

VARIABLES
  control,  \* the controller: start, last, groups, ramps
  step,     \* trainer.global_steps
  out,      \* entropy_control_weight of the last batch, and its rows
  disk,     \* the controller saved with a step, or NoCheckpoint
  log       \* history: what every step of this run brought

vars == <<control, step, out, disk, log>>

NoStep       == 0
NoCheckpoint == [step |-> NoStep]
NoOutput     == [rows |-> {}, weight |-> <<>>]

Fresh == [start |-> NoStep, last |-> NoStep,
          groups |-> [g \in Groups |-> [count |-> 0, cap |-> FALSE]],
          known  |-> {},
          ramps  |-> [role \in Roles |-> [updates |-> 0, qualified |-> FALSE]]]

-----------------------------------------------------------------------------
\* One row for every executed action.
Unique(batch) == {row \in batch : \A q \in batch : Identity(q) = Identity(row) => row.copy <= q.copy}

\* The unique valid rows of a group.
Members(batch, g) ==
  {row \in Unique(batch) : <<row.role, row.turn>> = g /\ row.good /\ row.eligible}

Usable(row) == row.scored /\ row.eligible

\* Mutant: a group without enough data keeps collecting.
CalibrationOpenAlways(start, now) == TRUE

CalibrationOpen(start, now) == now - start < CalibrationSteps

\* A group after the calibration part of prepare().
Calibrated(group, n, open) ==
  IF n = 0 \/ ~ open \/ group.cap THEN group
  ELSE [count |-> group.count + n, cap |-> group.count + n >= MinCalibration]

\* Groups whose rows may get a weight: calibrated, and not too few rows.
Controlled(groups, batch) ==
  {g \in Groups : groups[g].cap /\ Cardinality(Members(batch, g)) >= MinGroup}

\* Rows of a role that carry a prediction in a controlled group.
EligibleRows(controlled, batch, role) ==
  {row \in UNION {Members(batch, g) : g \in controlled} : row.role = role /\ Usable(row)}

\* Mutant: every controlled turn of the role counts.
RampedPerTurn(ramp, qualified, n) ==
  [qualified |-> qualified,
   updates   |-> IF ~ qualified THEN 0 ELSE Min({RampSteps, ramp.updates + n})]

\* One role's ramp: restarted, advanced, or paused.
Ramped(ramp, qualified, n) ==
  [qualified |-> qualified,
   updates   |-> IF ~ qualified THEN 0
                 ELSE IF n > 0 THEN Min({RampSteps, ramp.updates + 1})
                 ELSE ramp.updates]

\* A role that is neither in the batch nor in a group keeps what it had.
Qualified(known, batch, permitted, role, before) ==
  permitted # {} /\
  IF role \in known \cup {row.role : row \in batch} THEN role \in permitted ELSE before
\* Mutant: a weight is given without asking who is permitted now.
WeightsUnpermitted(batch, controlled, risky, permitted, ramps) ==
  [row \in batch |->
     IF /\ row.good /\ Usable(row) /\ row.dropped
        /\ <<row.role, row.turn>> \in controlled \cap risky
     THEN ramps[row.role].updates + 1 ELSE 0]

\* confidence * ramp * risk * bad, copied to the copies.
Weights(batch, controlled, risky, permitted, ramps) ==
  [row \in batch |->
     IF /\ row.good /\ Usable(row) /\ row.dropped
        /\ <<row.role, row.turn>> \in controlled \cap risky
        /\ row.role \in permitted
     THEN ramps[row.role].updates ELSE 0]

-----------------------------------------------------------------------------
Init ==
  /\ control = Fresh
  /\ step = 1
  /\ out = NoOutput
  /\ disk = NoCheckpoint
  /\ log = <<>>

\* prepare(): permitted are the roles the deployed head is qualified for, and
\* the head is ready when there is one.
Prepare(batch, permitted, risky) ==
  LET start      == IF control.start = NoStep THEN step ELSE control.start
      open       == CalibrationOpen(start, step)
      present    == {g \in Groups : Members(batch, g) # {}}
      groups     == [g \in Groups |->
                       Calibrated(control.groups[g], Cardinality(Members(batch, g)), open)]
      known      == control.known \cup {g[1] : g \in present}
      controlled == Controlled(groups, batch)
      ramps      == [role \in Roles |->
                       Ramped(control.ramps[role],
                              Qualified(known, batch, permitted, role, control.ramps[role].qualified),
                              Cardinality(EligibleRows(controlled, batch, role)))]
  IN
  /\ step <= MaxStep
  /\ control.last < step
  /\ control' = [start |-> start, last |-> step, groups |-> groups,
                 known |-> known, ramps |-> ramps]
  /\ out' = [rows   |-> batch,
             weight |-> Weights(batch, controlled, risky, permitted, ramps)]
  /\ log' = Append(log, [batch |-> batch, permitted |-> permitted])
  /\ UNCHANGED <<step, disk>>

\* The trainer's step ends; it may be saved first.
Save ==
  /\ control.last = step
  /\ disk' = [step |-> step, control |-> control, log |-> log]
  /\ UNCHANGED <<control, step, out, log>>

NextStep ==
  /\ control.last = step
  /\ step' = step + 1
  /\ out' = NoOutput
  /\ UNCHANGED <<control, disk, log>>

\* load_state_dict of what state_dict wrote.
Loaded(c) == c

\* The job dies and is started again, from its checkpoint if it has one.
Restart ==
  /\ step > 1
  /\ IF disk = NoCheckpoint
     THEN control' = Fresh /\ step' = 1 /\ log' = <<>>
     ELSE control' = Loaded(disk.control) /\ step' = disk.step + 1 /\ log' = disk.log
  /\ out' = NoOutput
  /\ UNCHANGED disk

Next ==
  \/ \E batch \in Batches, permitted \in SUBSET Roles, risky \in SUBSET Groups :
       Prepare(batch, permitted, risky)
  \/ Save \/ NextStep \/ Restart

Spec == Init /\ [][Next]_vars

-----------------------------------------------------------------------------
\* The executed actions of group g in a batch that may calibrate it.
Evidence(batch, g) ==
  {Identity(row) : row \in {q \in batch : <<q.role, q.turn>> = g /\ q.good /\ q.eligible}}

\* Those of the first n entries of a log.
EvidenceUpTo(l, n, g) == UNION {{i} \X Evidence(l[i].batch, g) : i \in 1 .. n}

\* The first n entries of a log calibrate the group.
Calibrates(l, n, g) ==
  \E m \in 1 .. n :
    m <= CalibrationSteps /\ Cardinality(EvidenceUpTo(l, m, g)) >= MinCalibration

(* A cap stands on enough different executed actions of the first steps,   *)
(* and on nothing else: neither copies nor later, inflated entropies ever  *)
(* calibrate a group, whatever was saved and restarted in between.         *)
CapsFromInitialPolicy ==
  \A g \in Groups : control.groups[g].cap <=> Calibrates(log, Len(log), g)

\* Entry i gave the role a prediction in a calibrated group with enough rows.
Advances(l, i, role) ==
  \E row \in l[i].batch :
    /\ row.role = role /\ row.good /\ Usable(row)
    /\ Cardinality(Evidence(l[i].batch, <<row.role, row.turn>>)) >= MinGroup
    /\ Calibrates(l, i, <<row.role, row.turn>>)

\* The entries since which the role was never disqualified.
Since(l, role) == {i \in 1 .. Len(l) : \A j \in i .. Len(l) : role \in l[j].permitted}

(* A role's ramp is the number of batches that had a prediction for it     *)
(* since it was last disqualified: once per batch and never once per turn, *)
(* not advanced by time alone, and lost with the qualification.            *)
RampIsEarned ==
  \A role \in Roles :
    control.ramps[role].updates =
      Min({RampSteps, Cardinality({i \in Since(log, role) : Advances(log, i, role)})})

(* A weight above zero needs a role that is permitted for this batch, a    *)
(* frozen cap, a prediction, and a ramp; no weight exceeds the ramp.  An   *)
(* action and its padding copies weigh the same, so that inverse           *)
(* multiplicities can remove the copies from the loss.                     *)
WeightIsGated ==
  /\ \A row \in out.rows : out.weight[row] > 0 =>
       /\ row.role \in Last(log).permitted
       /\ control.groups[<<row.role, row.turn>>].cap
       /\ Usable(row) /\ row.good
       /\ out.weight[row] <= control.ramps[row.role].updates
  /\ \A r, q \in out.rows : Identity(r) = Identity(q) => out.weight[r] = out.weight[q]

=============================================================================
