------------------------- MODULE EntropyControlProofs -------------------------
(***************************************************************************)
(* Proofs about EntropyControl for every set of finite batches, every      *)
(* number of steps and every calibration and ramp limit.                   *)
(***************************************************************************)
EXTENDS EntropyControl, FiniteSetTheorems, SequenceTheorems, WellFoundedInduction, TLAPS

Ramp == [updates : Nat, qualified : BOOLEAN]

Controller ==
  [start : Nat, last : Nat, groups : [Groups -> [count : Nat, cap : BOOLEAN]],
   known : SUBSET Roles, ramps : [Roles -> Ramp]]

Entry == [batch : Batches, permitted : SUBSET Roles]

Saved == [step : Nat \ {0}, control : Controller, log : Seq(Entry)]

TypeOK ==
  /\ control \in Controller
  /\ step \in Nat \ {0}
  /\ out = NoOutput \/ (out.rows \in Batches /\ out.weight \in [out.rows -> Nat])
  /\ disk = NoCheckpoint \/ disk \in Saved
  /\ log \in Seq(Entry)

-----------------------------------------------------------------------------
(* The inductive invariant speaks of a controller and the log that led to  *)
(* it, so that it can be said of the running and of the saved one.         *)

\* One entry of the log for every step; calibration began with the first.
Clocked(c, l) == c.last = Len(l) /\ c.start = IF Len(l) = 0 THEN NoStep ELSE 1

\* The entries of the calibration window.
Window(l) == IF Len(l) <= CalibrationSteps THEN Len(l) ELSE CalibrationSteps

\* A group has counted the evidence of the window, until it froze its cap.
Counted(c, l) ==
  \A g \in Groups :
    /\ c.groups[g].cap <=> Calibrates(l, Len(l), g)
    /\ ~ c.groups[g].cap => c.groups[g].count = Cardinality(EvidenceUpTo(l, Window(l), g))

\* The roles of all evidence are known.
Acquainted(c, l) ==
  \A i \in 1 .. Len(l) : \A g \in Groups : Evidence(l[i].batch, g) # {} => g[1] \in c.known

Earned(l, role) == {i \in Since(l, role) : Advances(l, i, role)}

Ramping(c, l) ==
  \A role \in Roles : c.ramps[role].updates = Min({RampSteps, Cardinality(Earned(l, role))})

Justified(c, l) == Clocked(c, l) /\ Counted(c, l) /\ Acquainted(c, l) /\ Ramping(c, l)

\* A step is prepared once.
StepsAgree ==
  /\ step \in {control.last, control.last + 1}
  /\ out # NoOutput => control.last = step /\ Len(log) > 0
  /\ disk # NoCheckpoint => disk.control.last = disk.step

IInv ==
  /\ TypeOK
  /\ StepsAgree
  /\ Justified(control, log)
  /\ disk # NoCheckpoint => Justified(disk.control, disk.log)
  /\ WeightIsGated

-----------------------------------------------------------------------------
(* Numbers.                                                                *)
LEMMA LeastNatural ==
  ASSUME NEW S \in SUBSET Nat, S # {}
  PROVE  \E m \in S : \A n \in S : m <= n
  <1> DEFINE T == {0 .. n : n \in S}
  <1>1. ASSUME NEW n \in S PROVE IsFiniteSet(0 .. n) /\ 0 .. n \in SUBSET Nat
    BY FS_Interval
  <1>2. T \subseteq FiniteSubsetsOf(Nat) /\ T # {}
    BY <1>1 DEF FiniteSubsetsOf
  <1>3. PICK x \in T : \A y \in T : ~ (<<y, x>> \in StrictSubsetOrdering(Nat))
    BY <1>2, WFMin, FS_StrictSubsetOrderingWellFounded
  <1>4. PICK m \in S : x = 0 .. m
    BY <1>3
  <1>5. ASSUME NEW n \in S, n < m PROVE FALSE
    <2>1. 0 .. n \subseteq 0 .. m /\ m \in 0 .. m /\ m \notin 0 .. n
      BY <1>5
    <2>2. 0 .. n \in SUBSET Nat /\ 0 .. m \in SUBSET Nat
      BY <1>1
    <2>3. <<0 .. n, 0 .. m>> \in StrictSubsetOrdering(Nat)
      BY <2>1, <2>2 DEF StrictSubsetOrdering
    <2> QED
      BY <1>3, <1>4, <2>3
  <1> QED
    BY <1>5

\* The smaller of two numbers.
LEMMA MinOfTwo ==
  ASSUME NEW a \in Nat, NEW b \in Nat
  PROVE  Min({a, b}) = IF a <= b THEN a ELSE b
  BY DEF Min

-----------------------------------------------------------------------------
(* Batches.  The unique row of an action speaks for all of its copies.     *)
LEMMA RowFields ==
  ASSUME NEW batch \in Batches, NEW row \in batch
  PROVE  /\ row \in Rows /\ <<row.role, row.turn>> \in Groups /\ row.role \in Roles
         /\ row.copy \in Nat
  BY BatchesAssumption DEF Rows, Groups

\* Copies of one action differ in nothing that prepare() reads.
LEMMA CopiesAgree ==
  ASSUME NEW batch \in Batches, NEW r \in batch, NEW q \in batch, Identity(r) = Identity(q)
  PROVE  /\ r.role = q.role /\ r.turn = q.turn /\ r.good = q.good
         /\ r.eligible = q.eligible /\ r.scored = q.scored /\ r.dropped = q.dropped
         /\ r.copy = q.copy => r = q
  <1>1. r \in Rows /\ q \in Rows /\ [r EXCEPT !.copy = q.copy] = q
    BY BatchesAssumption
  <1> QED
    BY <1>1 DEF Rows

\* The rows and the evidence a batch has for a group can be counted.
LEMMA BatchFinite ==
  ASSUME NEW batch \in Batches, NEW g
  PROVE  /\ IsFiniteSet(Members(batch, g)) /\ Cardinality(Members(batch, g)) \in Nat
         /\ IsFiniteSet(Evidence(batch, g)) /\ Cardinality(Evidence(batch, g)) \in Nat
  <1> DEFINE rows == {q \in batch : <<q.role, q.turn>> = g /\ q.good /\ q.eligible}
             name == [row \in rows |-> Identity(row)]
  <1>1. IsFiniteSet(batch)
    BY BatchesAssumption
  <1>2. Members(batch, g) \in SUBSET batch /\ rows \in SUBSET batch
    BY DEF Members, Unique
  <1>3. name \in Surjection(rows, Evidence(batch, g))
    BY DEF Surjection, Evidence
  <1> QED
    BY <1>1, <1>2, <1>3, FS_Subset, FS_Surjection, FS_CardinalityType

(* Every action has a unique row.                                          *)
LEMMA UniqueRow ==
  ASSUME NEW batch \in Batches, NEW row \in batch
  PROVE  \E q \in Unique(batch) : Identity(q) = Identity(row)
  <1> DEFINE copies == {q.copy : q \in {p \in batch : Identity(p) = Identity(row)}}
  <1>1. copies \in SUBSET Nat /\ copies # {}
    BY RowFields
  <1>2. PICK m \in copies : \A n \in copies : m <= n
    BY <1>1, LeastNatural
  <1>3. PICK q \in batch : Identity(q) = Identity(row) /\ q.copy = m
    BY <1>2
  <1>4. \A p \in batch : Identity(p) = Identity(row) => q.copy <= p.copy
    BY <1>2, <1>3
  <1> QED
    BY <1>3, <1>4 DEF Unique

(* A group has as many members as executed actions that may calibrate it.  *)
LEMMA MembersAreEvidence ==
  ASSUME NEW batch \in Batches, NEW g
  PROVE  Cardinality(Members(batch, g)) = Cardinality(Evidence(batch, g))
  <1> DEFINE name == [row \in Members(batch, g) |-> Identity(row)]
  <1>1. name \in [Members(batch, g) -> Evidence(batch, g)]
    BY DEF Members, Unique, Evidence
  <1>2. ASSUME NEW r \in Members(batch, g), NEW q \in Members(batch, g), Identity(r) = Identity(q)
        PROVE  r = q
    <2>1. r \in batch /\ q \in batch /\ r.copy <= q.copy /\ q.copy <= r.copy
      BY <1>2 DEF Members, Unique
    <2> QED
      <3>1. r.copy \in Nat /\ q.copy \in Nat
        BY <2>1, RowFields
      <3>2. r.copy = q.copy
        BY <2>1, <3>1
      <3> QED
        BY <1>2, <2>1, <3>2, CopiesAgree
  <1>3. ASSUME NEW id \in Evidence(batch, g) PROVE \E q \in Members(batch, g) : Identity(q) = id
    <2>1. PICK row \in batch : Identity(row) = id /\ <<row.role, row.turn>> = g /\ row.good /\ row.eligible
      BY <1>3 DEF Evidence
    <2>2. PICK q \in Unique(batch) : Identity(q) = Identity(row)
      BY <2>1, UniqueRow
    <2>3. q \in batch
      BY <2>2 DEF Unique
    <2>4. q.role = row.role /\ q.turn = row.turn /\ q.good = row.good /\ q.eligible = row.eligible
      BY <2>2, <2>3, CopiesAgree
    <2> QED
      BY <2>1, <2>2, <2>4 DEF Members
  <1>4. name \in Bijection(Members(batch, g), Evidence(batch, g))
    <2>1. name \in Injection(Members(batch, g), Evidence(batch, g))
      BY <1>1, <1>2 DEF Injection, IsInjective
    <2>2. name \in Surjection(Members(batch, g), Evidence(batch, g))
      BY <1>1, <1>3 DEF Surjection
    <2> QED
      BY <2>1, <2>2 DEF Bijection
  <1>5. ExistsBijection(Members(batch, g), Evidence(batch, g))
    BY <1>4 DEF ExistsBijection
  <1> QED
    BY <1>5, BatchFinite, FS_Bijection

(* The row of an action that was given a prediction has a unique row that  *)
(* was given it too.                                                       *)
LEMMA PredictionHasMember ==
  ASSUME NEW batch \in Batches, NEW row \in batch
  PROVE  row.good /\ Usable(row) =>
           \E q \in Members(batch, <<row.role, row.turn>>) : q.role = row.role /\ Usable(q)
  <1>1. PICK q \in Unique(batch) : Identity(q) = Identity(row)
    BY UniqueRow
  <1>2. q \in batch
    BY <1>1 DEF Unique
  <1>3. /\ q.role = row.role /\ q.turn = row.turn /\ q.good = row.good
        /\ q.eligible = row.eligible /\ q.scored = row.scored
    BY <1>1, <1>2, CopiesAgree
  <1> QED
    BY <1>1, <1>3 DEF Members, Usable

-----------------------------------------------------------------------------
(* Logs.  What an entry adds to the evidence and to the ramps.             *)
LEMMA EntryOf ==
  ASSUME NEW l \in Seq(Entry), NEW i \in 1 .. Len(l)
  PROVE  l[i] \in Entry /\ l[i].batch \in Batches /\ l[i].permitted \in SUBSET Roles
  <1>1. l[i] \in Entry
    BY ElementOfSeq
  <1> QED
    BY <1>1 DEF Entry

\* So can the evidence of any number of batches.
LEMMA EvidenceFinite ==
  ASSUME NEW l \in Seq(Entry), NEW n \in 0 .. Len(l), NEW g
  PROVE  /\ IsFiniteSet(EvidenceUpTo(l, n, g))
         /\ Cardinality(EvidenceUpTo(l, n, g)) \in Nat
  <1> DEFINE part == [i \in 1 .. n |-> {i} \X Evidence(l[i].batch, g)]
             parts == {{i} \X Evidence(l[i].batch, g) : i \in 1 .. n}
  <1>1. part \in Surjection(1 .. n, parts)
    BY DEF Surjection
  <1>2. IsFiniteSet(parts)
    BY <1>1, FS_Interval, FS_Surjection
  <1>3. ASSUME NEW i \in 1 .. n PROVE IsFiniteSet({i} \X Evidence(l[i].batch, g))
    <2>1. l[i].batch \in Batches
      BY EntryOf
    <2> QED
      BY <2>1, BatchFinite, FS_Singleton, FS_Product
  <1>4. IsFiniteSet(UNION parts)
    BY <1>2, <1>3, FS_UNION
  <1> QED
    BY <1>4, FS_CardinalityType DEF EvidenceUpTo

\* A further batch adds its own evidence, and counts none twice.
LEMMA EvidenceGrows ==
  ASSUME NEW l \in Seq(Entry), NEW n \in 0 .. Len(l), n < Len(l), NEW g
  PROVE  Cardinality(EvidenceUpTo(l, n + 1, g))
           = Cardinality(EvidenceUpTo(l, n, g)) + Cardinality(Evidence(l[n + 1].batch, g))
  <1> DEFINE new == {n + 1} \X Evidence(l[n + 1].batch, g)
  <1>1. l[n + 1].batch \in Batches
    BY EntryOf
  <1>2. /\ IsFiniteSet(new)
        /\ Cardinality(new) = Cardinality({n + 1}) * Cardinality(Evidence(l[n + 1].batch, g))
    BY <1>1, BatchFinite, FS_Singleton, FS_Product
  <1>3. Cardinality({n + 1}) = 1 /\ Cardinality(Evidence(l[n + 1].batch, g)) \in Nat
    BY <1>1, BatchFinite, FS_Singleton
  <1>4. EvidenceUpTo(l, n + 1, g) = EvidenceUpTo(l, n, g) \cup new
    <2>1. 1 .. (n + 1) = (1 .. n) \cup {n + 1}
      OBVIOUS
    <2> QED
      BY <2>1 DEF EvidenceUpTo
  <1>5. EvidenceUpTo(l, n, g) \cap new = {}
    <2> SUFFICES ASSUME NEW x \in EvidenceUpTo(l, n, g), x \in new PROVE FALSE
      OBVIOUS
    <2>1. PICK i \in 1 .. n : x \in {i} \X Evidence(l[i].batch, g)
      BY DEF EvidenceUpTo
    <2>2. x[1] = i /\ x[1] = n + 1
      BY <2>1
    <2> QED
      BY <2>1, <2>2
  <1>6. Cardinality(new) = Cardinality(Evidence(l[n + 1].batch, g))
    BY <1>2, <1>3
  <1>7. IsFiniteSet(EvidenceUpTo(l, n, g)) /\ Cardinality(EvidenceUpTo(l, n, g)) \in Nat
    BY EvidenceFinite
  <1> HIDE DEF new
  <1>8. Cardinality(EvidenceUpTo(l, n, g) \cup new)
          = Cardinality(EvidenceUpTo(l, n, g)) + Cardinality(new)
              - Cardinality(EvidenceUpTo(l, n, g) \cap new)
    BY <1>2, <1>7, FS_Union
  <1>9. Cardinality(EvidenceUpTo(l, n, g) \cap new) = 0
    BY <1>5, FS_EmptySet
  <1>10. Cardinality(EvidenceUpTo(l, n + 1, g))
           = Cardinality(EvidenceUpTo(l, n, g)) + Cardinality(Evidence(l[n + 1].batch, g)) - 0
    BY <1>4, <1>6, <1>8, <1>9, Zenon
  <1> QED
    BY <1>3, <1>7, <1>10

\* What an appended log entry changes.
LEMMA Appended ==
  ASSUME NEW l \in Seq(Entry), NEW e \in Entry
  PROVE  /\ Append(l, e) \in Seq(Entry) /\ Len(l) \in Nat
         /\ Len(Append(l, e)) = Len(l) + 1
         /\ Append(l, e)[Len(l) + 1] = e
         /\ \A i \in 1 .. Len(l) : Append(l, e)[i] = l[i]
  OBVIOUS

\* It leaves what was calibrated before it alone.
LEMMA PrefixKept ==
  ASSUME NEW l \in Seq(Entry), NEW e \in Entry, NEW n \in 0 .. Len(l), NEW g
  PROVE  /\ EvidenceUpTo(Append(l, e), n, g) = EvidenceUpTo(l, n, g)
         /\ Calibrates(Append(l, e), n, g) = Calibrates(l, n, g)
  <1>1. ASSUME NEW m \in 0 .. Len(l) PROVE EvidenceUpTo(Append(l, e), m, g) = EvidenceUpTo(l, m, g)
    BY Appended DEF EvidenceUpTo
  <1>2. Calibrates(Append(l, e), n, g) <=> Calibrates(l, n, g)
    BY <1>1 DEF Calibrates
  <1> QED
    BY <1>1, <1>2 DEF Calibrates

(* A group after one more entry.                                           *)
LEMMA CalibratedStep ==
  ASSUME NEW c \in Controller, NEW l \in Seq(Entry), NEW e \in Entry, NEW g \in Groups, NEW open,
         Counted(c, l), open <=> Len(l) < CalibrationSteps
  PROVE  LET k     == Append(l, e)
             group == Calibrated(c.groups[g], Cardinality(Members(e.batch, g)), open)
         IN  /\ group \in [count : Nat, cap : BOOLEAN]
             /\ group.cap <=> Calibrates(k, Len(k), g)
             /\ ~ group.cap => group.count = Cardinality(EvidenceUpTo(k, Window(k), g))
  <1> DEFINE k     == Append(l, e)
             n     == Cardinality(Members(e.batch, g))
             old   == Cardinality(EvidenceUpTo(l, Len(l), g))
             group == Calibrated(c.groups[g], n, open)
  <1>1. /\ k \in Seq(Entry) /\ Len(l) \in Nat /\ Len(k) = Len(l) + 1 /\ e.batch \in Batches
        /\ c.groups[g] \in [count : Nat, cap : BOOLEAN]
        /\ CalibrationSteps \in Nat \ {0} /\ MinCalibration \in Nat \ {0}
    BY Appended, BoundsAssumption DEF Entry, Controller
  <1>2. n \in Nat /\ n = Cardinality(Evidence(e.batch, g))
    BY <1>1, BatchFinite, MembersAreEvidence
  <1>3. old \in Nat
    BY <1>1, EvidenceFinite
  <1>4. Cardinality(EvidenceUpTo(k, Len(l) + 1, g)) = old + n
    <2>1. k[Len(l) + 1].batch = e.batch
      BY Appended
    <2>2. Cardinality(EvidenceUpTo(k, Len(l) + 1, g))
            = Cardinality(EvidenceUpTo(k, Len(l), g)) + Cardinality(Evidence(k[Len(l) + 1].batch, g))
      <3>1. Len(l) \in 0 .. Len(k) /\ Len(l) < Len(k)
        BY <1>1
      <3> HIDE DEF k
      <3> QED
        BY <1>1, <3>1, EvidenceGrows
    <2>3. EvidenceUpTo(k, Len(l), g) = EvidenceUpTo(l, Len(l), g)
      BY <1>1, PrefixKept
    <2> QED
      BY <1>2, <2>1, <2>2, <2>3
  <1>5. Calibrates(k, Len(k), g) <=>
          Calibrates(l, Len(l), g) \/ (Len(l) + 1 <= CalibrationSteps /\ old + n >= MinCalibration)
    <2>1. Calibrates(k, Len(l), g) <=> Calibrates(l, Len(l), g)
      BY <1>1, PrefixKept
    <2>2. 1 .. Len(k) = (1 .. Len(l)) \cup {Len(l) + 1}
      BY <1>1
    <2>3. Calibrates(k, Len(k), g) <=>
            Calibrates(k, Len(l), g)
            \/ (Len(l) + 1 <= CalibrationSteps /\ Cardinality(EvidenceUpTo(k, Len(l) + 1, g)) >= MinCalibration)
      BY <2>2 DEF Calibrates
    <2> QED
      BY <1>4, <2>1, <2>3
  <1>6. /\ c.groups[g].cap <=> Calibrates(l, Len(l), g)
        /\ ~ c.groups[g].cap => c.groups[g].count = Cardinality(EvidenceUpTo(l, Window(l), g))
    BY DEF Counted
  <1>7. CASE n = 0 \/ ~ open \/ c.groups[g].cap
    <2>1. group = c.groups[g]
      BY <1>7 DEF Calibrated
    <2>2. CASE c.groups[g].cap
      BY <1>1, <1>5, <1>6, <2>1, <2>2
    <2>3. CASE ~ c.groups[g].cap /\ ~ open
      <3>1. Window(l) = CalibrationSteps /\ Window(k) = CalibrationSteps /\ Window(l) \in 0 .. Len(l)
        BY <1>1, <2>3 DEF Window
      <3>2. EvidenceUpTo(k, Window(k), g) = EvidenceUpTo(l, Window(l), g)
        BY <3>1, PrefixKept
      <3>3. ~ (Len(l) + 1 <= CalibrationSteps)
        BY <1>1, <2>3
      <3> QED
        BY <1>1, <1>5, <1>6, <2>1, <2>3, <3>2, <3>3
    <2>4. CASE ~ c.groups[g].cap /\ open /\ n = 0
      <3>1. Window(l) = Len(l) /\ Window(k) = Len(l) + 1
        BY <1>1, <2>4 DEF Window
      <3>2. old < MinCalibration
        <4>1. CASE Len(l) = 0
          <5>1. EvidenceUpTo(l, Len(l), g) = {}
            BY <4>1 DEF EvidenceUpTo
          <5> QED
            BY <1>1, <5>1, FS_EmptySet
        <4>2. CASE Len(l) # 0
          <5>1. Len(l) \in 1 .. Len(l) /\ Len(l) <= CalibrationSteps
            BY <1>1, <2>4, <4>2
          <5> QED
            BY <1>1, <1>3, <1>6, <2>4, <5>1 DEF Calibrates
        <4> QED
          BY <4>1, <4>2
      <3>3. ~ Calibrates(k, Len(k), g)
        BY <1>1, <1>3, <1>5, <1>6, <2>4, <3>2
      <3>4. group.count = Cardinality(EvidenceUpTo(k, Window(k), g))
        BY <1>3, <1>4, <1>6, <2>1, <2>4, <3>1
      <3> QED
        BY <1>1, <2>1, <2>4, <3>3, <3>4
    <2> QED
      BY <1>7, <2>2, <2>3, <2>4
  <1>8. CASE ~ (n = 0 \/ ~ open \/ c.groups[g].cap)
    <2>1. group = [count |-> c.groups[g].count + n, cap |-> c.groups[g].count + n >= MinCalibration]
      BY <1>8 DEF Calibrated
    <2>2. Window(l) = Len(l) /\ Window(k) = Len(l) + 1 /\ Len(l) + 1 <= CalibrationSteps
      BY <1>1, <1>8 DEF Window
    <2>3. c.groups[g].count = old
      BY <1>6, <1>8, <2>2
    <2>4. group.cap <=> old + n >= MinCalibration
      <3>1. group = [count |-> old + n, cap |-> old + n >= MinCalibration]
        BY <2>1, <2>3
      <3> HIDE DEF group, old, n
      <3>2. group.cap = (old + n >= MinCalibration)
        BY <3>1, Zenon
      <3> QED
        BY <3>2, Zenon
    <2>5. group.count = Cardinality(EvidenceUpTo(k, Window(k), g))
      BY <1>4, <2>1, <2>2, <2>3
    <2>6. group \in [count : Nat, cap : BOOLEAN]
      BY <1>2, <1>3, <2>1, <2>3
    <2>7. ~ Calibrates(l, Len(l), g)
      BY <1>6, <1>8
    <2> QED
      BY <1>5, <2>2, <2>4, <2>5, <2>6, <2>7
  <1> QED
    BY <1>7, <1>8

\* It leaves what earlier batches earned a role alone.
LEMMA AdvancesKept ==
  ASSUME NEW l \in Seq(Entry), NEW e \in Entry, NEW i \in 1 .. Len(l), NEW role
  PROVE  Advances(Append(l, e), i, role) <=> Advances(l, i, role)
  <1>1. Append(l, e)[i] = l[i] /\ i \in 0 .. Len(l)
    BY Appended
  <1>2. \A g : Calibrates(Append(l, e), i, g) = Calibrates(l, i, g)
    BY <1>1, PrefixKept
  <1> QED
    BY <1>1, <1>2 DEF Advances

\* The batches that count towards a ramp are finitely many.
LEMMA EarnedFinite ==
  ASSUME NEW l \in Seq(Entry), NEW role
  PROVE  IsFiniteSet(Earned(l, role)) /\ Cardinality(Earned(l, role)) \in Nat
         /\ Earned(l, role) \subseteq 1 .. Len(l)
  <1>1. Earned(l, role) \in SUBSET (1 .. Len(l)) /\ Len(l) \in Nat
    BY DEF Earned, Since
  <1>2. IsFiniteSet(1 .. Len(l))
    BY <1>1, FS_Interval
  <1>3. IsFiniteSet(Earned(l, role))
    BY <1>1, <1>2, FS_Subset
  <1> QED
    BY <1>1, <1>3, FS_CardinalityType

(* The batches a role has earned after one more entry.                     *)
LEMMA EarnedStep ==
  ASSUME NEW l \in Seq(Entry), NEW e \in Entry, NEW role
  PROVE  LET k == Append(l, e)
             n == Len(l) + 1
         IN  /\ role \notin e.permitted => Earned(k, role) = {}
             /\ role \in e.permitted =>
                  Earned(k, role) = Earned(l, role) \cup (IF Advances(k, n, role) THEN {n} ELSE {})
  <1> DEFINE k == Append(l, e)
             n == Len(l) + 1
  <1>1. /\ Len(k) = n /\ k[n] = e /\ n \in Nat /\ n \in 1 .. n
        /\ \A i \in 1 .. Len(l) : k[i] = l[i]
    BY Appended
  <1>2. 1 .. n = (1 .. Len(l)) \cup {n} /\ n \notin 1 .. Len(l)
    BY <1>1
  <1>3. \A i \in 1 .. Len(l) : Advances(k, i, role) <=> Advances(l, i, role)
    BY AdvancesKept
  <1> HIDE DEF k
  <1>4. ASSUME role \notin e.permitted PROVE Since(k, role) = {}
    <2> SUFFICES ASSUME NEW i \in Since(k, role) PROVE FALSE
      OBVIOUS
    <2>1. i \in 1 .. n /\ \A j \in i .. n : role \in k[j].permitted
      BY <1>1 DEF Since
    <2>2. n \in i .. n
      BY <1>1, <2>1
    <2> QED
      BY <1>1, <1>4, <2>1, <2>2
  <1>5. ASSUME role \in e.permitted PROVE Since(k, role) = Since(l, role) \cup {n}
    <2>1. \A i \in 1 .. Len(l) : i .. n = (i .. Len(l)) \cup {n}
      BY <1>1
    <2>2. \A i \in 1 .. Len(l) : i \in Since(k, role) <=> i \in Since(l, role)
      <3> SUFFICES ASSUME NEW i \in 1 .. Len(l)
                   PROVE  (\A j \in i .. n : role \in k[j].permitted)
                            <=> (\A j \in i .. Len(l) : role \in l[j].permitted)
        BY <1>1, <1>2 DEF Since
      <3>1. \A j \in i .. Len(l) : k[j] = l[j]
        BY <1>1
      <3> QED
        BY <1>1, <1>5, <2>1, <3>1
    <2>3. n \in Since(k, role)
      BY <1>1, <1>5 DEF Since
    <2>4. Since(k, role) \subseteq (1 .. Len(l)) \cup {n} /\ Since(l, role) \subseteq 1 .. Len(l)
      BY <1>1, <1>2 DEF Since
    <2> QED
      BY <2>2, <2>3, <2>4
  <1>6. Since(l, role) \subseteq 1 .. Len(l)
    BY DEF Since
  <1>7. ASSUME role \in e.permitted
        PROVE  Earned(k, role) = Earned(l, role) \cup (IF Advances(k, n, role) THEN {n} ELSE {})
    BY <1>3, <1>5, <1>6, <1>7 DEF Earned
  <1> QED
    BY <1>4, <1>7 DEF Earned, k

(* The controller's own reading of a batch agrees with the log's: a role   *)
(* has eligible rows exactly if the batch advances it.                     *)
LEMMA EligibleMeansAdvance ==
  ASSUME NEW k \in Seq(Entry), NEW n \in 1 .. Len(k), NEW role \in Roles,
         NEW groups \in [Groups -> [count : Nat, cap : BOOLEAN]],
         \A g \in Groups : groups[g].cap <=> Calibrates(k, n, g)
  PROVE  LET rows == EligibleRows(Controlled(groups, k[n].batch), k[n].batch, role)
         IN  Cardinality(rows) \in Nat /\ (Cardinality(rows) > 0 <=> Advances(k, n, role))
  <1> DEFINE batch == k[n].batch
             rows  == EligibleRows(Controlled(groups, batch), batch, role)
  <1>1. batch \in Batches
    BY EntryOf
  <1>2. \A g : Members(batch, g) \subseteq batch
    BY DEF Members, Unique
  <1>3. IsFiniteSet(rows)
    <2>1. rows \in SUBSET batch /\ IsFiniteSet(batch)
      BY <1>1, <1>2, BatchesAssumption DEF EligibleRows
    <2> QED
      BY <2>1, FS_Subset
  <1>4. Cardinality(rows) \in Nat /\ (Cardinality(rows) > 0 <=> rows # {})
    BY <1>3, FS_CardinalityType, FS_EmptySet
  <1>5. ASSUME NEW row \in rows PROVE Advances(k, n, role)
    <2>1. PICK g \in Controlled(groups, batch) : row \in Members(batch, g)
      BY DEF EligibleRows
    <2>2. /\ g \in Groups /\ groups[g].cap /\ Cardinality(Members(batch, g)) >= MinGroup
      BY DEF Controlled
    <2>3. /\ row \in batch /\ row.role = role /\ Usable(row) /\ row.good
          /\ <<row.role, row.turn>> = g
      BY <1>2, <2>1 DEF EligibleRows, Members
    <2>4. Cardinality(Evidence(batch, g)) >= MinGroup /\ Calibrates(k, n, g)
      BY <1>1, <2>2, MembersAreEvidence
    <2> QED
      BY <2>3, <2>4 DEF Advances
  <1>6. ASSUME Advances(k, n, role) PROVE rows # {}
    <2>1. PICK row \in batch :
            /\ row.role = role /\ row.good /\ Usable(row)
            /\ Cardinality(Evidence(batch, <<row.role, row.turn>>)) >= MinGroup
            /\ Calibrates(k, n, <<row.role, row.turn>>)
      BY <1>6 DEF Advances
    <2> DEFINE g == <<row.role, row.turn>>
    <2>2. g \in Groups
      BY <1>1, RowFields
    <2>3. g \in Controlled(groups, batch)
      BY <1>1, <2>1, <2>2, MembersAreEvidence DEF Controlled
    <2>4. PICK q \in Members(batch, g) : q.role = row.role /\ Usable(q)
      BY <1>1, <2>1, PredictionHasMember
    <2> HIDE DEF g
    <2>5. q \in rows
      BY <2>1, <2>3, <2>4 DEF EligibleRows
    <2> QED
      BY <2>5
  <1> QED
    BY <1>4, <1>5, <1>6

(* A ramp after one more entry, for a role whose qualification the         *)
(* controller reads rightly or which never had any evidence.               *)
LEMMA RampStep ==
  ASSUME NEW c \in Controller, NEW l \in Seq(Entry), NEW e \in Entry, NEW role \in Roles,
         Ramping(c, l), NEW count \in Nat, NEW qualified \in BOOLEAN,
         count > 0 <=> Advances(Append(l, e), Len(l) + 1, role),
         \/ qualified <=> role \in e.permitted
         \/ \A i \in 1 .. Len(l) + 1 : ~ Advances(Append(l, e), i, role)
  PROVE  /\ Ramped(c.ramps[role], qualified, count) \in Ramp
         /\ Ramped(c.ramps[role], qualified, count).updates
              = Min({RampSteps, Cardinality(Earned(Append(l, e), role))})
  <1> DEFINE k      == Append(l, e)
             n      == Len(l) + 1
             earned == Cardinality(Earned(l, role))
             ramp   == c.ramps[role]
             next   == Ramped(ramp, qualified, count)
  <1>1. /\ ramp \in Ramp /\ RampSteps \in Nat \ {0} /\ Len(l) \in Nat /\ Len(k) = n
        /\ earned \in Nat
    BY BoundsAssumption, Appended, EarnedFinite DEF Controller
  <1>2. ramp.updates = IF RampSteps <= earned THEN RampSteps ELSE earned
    BY <1>1, MinOfTwo DEF Ramping
  <1>3. Min({RampSteps, ramp.updates + 1}) = IF RampSteps <= ramp.updates + 1 THEN RampSteps ELSE ramp.updates + 1
    BY <1>1, MinOfTwo DEF Ramp
  <1>4. /\ Cardinality({}) = 0
        /\ Min({RampSteps, 0}) = 0
    BY <1>1, FS_EmptySet, MinOfTwo
  <1>5. /\ role \notin e.permitted => Earned(k, role) = {}
        /\ role \in e.permitted =>
             Earned(k, role) = Earned(l, role) \cup (IF Advances(k, n, role) THEN {n} ELSE {})
    BY EarnedStep
  <1>6. next = [qualified |-> qualified,
                updates   |-> IF ~ qualified THEN 0
                              ELSE IF count > 0 THEN Min({RampSteps, ramp.updates + 1})
                              ELSE ramp.updates]
    BY DEF Ramped
  <1>7. next \in Ramp
    BY <1>1, <1>3, <1>6 DEF Ramp
  <1>8. CASE \A i \in 1 .. n : ~ Advances(k, i, role)
    <2>1. Earned(k, role) = {} /\ Earned(l, role) = {}
      <3>1. \A i \in 1 .. Len(l) : i \in 1 .. n /\ (Advances(k, i, role) <=> Advances(l, i, role))
        BY <1>1, AdvancesKept
      <3> QED
        BY <1>1, <1>8, <3>1 DEF Earned, Since
    <2>2. n \in 1 .. n
      BY <1>1
    <2>3. count = 0
      BY <1>8, <2>2
    <2>4. ramp.updates = 0
      BY <1>1, <1>2, <1>4, <2>1
    <2>5. next.updates = 0
      BY <1>6, <2>3, <2>4
    <2> QED
      BY <1>4, <1>7, <2>1, <2>5
  <1>9. CASE qualified /\ role \in e.permitted
    <2>1. CASE count > 0
      <3>1. Earned(k, role) = Earned(l, role) \cup {n}
        BY <1>5, <1>9, <2>1
      <3>2. n \notin Earned(l, role)
        BY <1>1, EarnedFinite
      <3>3. Cardinality(Earned(k, role)) = earned + 1
        BY <3>1, <3>2, EarnedFinite, FS_AddElement
      <3>4. Min({RampSteps, earned + 1}) = IF RampSteps <= earned + 1 THEN RampSteps ELSE earned + 1
        BY <1>1, MinOfTwo
      <3>5. next.updates = Min({RampSteps, ramp.updates + 1})
        BY <1>6, <1>9, <2>1
      <3> HIDE DEF k, n, earned, next
      <3>6. next.updates = Min({RampSteps, earned + 1})
        BY <1>1, <1>2, <1>3, <3>4, <3>5
      <3> QED
        BY <1>7, <3>3, <3>6 DEF k, next
    <2>2. CASE count = 0
      <3>1. ~ Advances(k, n, role)
        BY <2>2
      <3> HIDE DEF k, n
      <3>2. Earned(k, role) = Earned(l, role)
        BY <1>5, <1>9, <3>1
      <3>3. next.updates = ramp.updates
        BY <1>6, <1>9, <2>2
      <3> QED
        BY <1>7, <3>2, <3>3 DEF Ramping, k
    <2> QED
      BY <2>1, <2>2
  <1>10. CASE ~ qualified /\ role \notin e.permitted
    <2>1. next.updates = 0
      BY <1>6, <1>10
    <2> QED
      BY <1>4, <1>5, <1>7, <1>10, <2>1
  <1> QED
    BY <1>8, <1>9, <1>10

-----------------------------------------------------------------------------
(* The steps.                                                              *)
LEMMA FreshIsJustified == Fresh \in Controller /\ Justified(Fresh, <<>>)
  <1>1. Fresh \in Controller
    BY DEF Fresh, Controller, Ramp, NoStep
  <1>2. Clocked(Fresh, <<>>)
    BY DEF Clocked, Fresh, NoStep
  <1>3. Counted(Fresh, <<>>)
    <2>1. Window(<<>>) = 0
      BY BoundsAssumption DEF Window
    <2>2. \A g : EvidenceUpTo(<<>>, 0, g) = {} /\ ~ Calibrates(<<>>, Len(<<>>), g)
      BY DEF EvidenceUpTo, Calibrates
    <2>3. \A g \in Groups : Fresh.groups[g].count = 0 /\ Fresh.groups[g].cap = FALSE
      BY DEF Fresh
    <2> QED
      BY <2>1, <2>2, <2>3, FS_EmptySet DEF Counted
  <1>4. Acquainted(Fresh, <<>>)
    BY DEF Acquainted
  <1>5. Ramping(Fresh, <<>>)
    <2>1. \A role : Earned(<<>>, role) = {}
      BY DEF Earned, Since
    <2>2. \A role \in Roles : Fresh.ramps[role].updates = 0
      BY DEF Fresh
    <2>3. Min({RampSteps, 0}) = 0
      BY BoundsAssumption, MinOfTwo
    <2> QED
      BY <2>1, <2>2, <2>3, FS_EmptySet DEF Ramping
  <1> QED
    BY <1>1, <1>2, <1>3, <1>4, <1>5 DEF Justified

\* prepare() keeps the invariant.
LEMMA PrepareStep ==
  ASSUME IInv, NEW batch \in Batches, NEW permitted \in SUBSET Roles, NEW risky \in SUBSET Groups,
         Prepare(batch, permitted, risky)
  PROVE  IInv'
  <1> DEFINE e          == [batch |-> batch, permitted |-> permitted]
             k          == Append(log, e)
             n          == Len(log) + 1
             start      == IF control.start = NoStep THEN step ELSE control.start
             open       == CalibrationOpen(start, step)
             present    == {g \in Groups : Members(batch, g) # {}}
             groups     == [g \in Groups |->
                              Calibrated(control.groups[g], Cardinality(Members(batch, g)), open)]
             known      == control.known \cup {g[1] : g \in present}
             controlled == Controlled(groups, batch)
             qualified(role) ==
               Qualified(known, batch, permitted, role, control.ramps[role].qualified)
             count(role) == Cardinality(EligibleRows(controlled, batch, role))
             ramps      == [role \in Roles |->
                              Ramped(control.ramps[role], qualified(role), count(role))]
             weight     == Weights(batch, controlled, risky, permitted, ramps)
  <1>1. /\ control' = [start |-> start, last |-> step, groups |-> groups,
                       known |-> known, ramps |-> ramps]
        /\ out' = [rows |-> batch, weight |-> weight]
        /\ log' = k
        /\ step' = step /\ disk' = disk /\ control.last < step
    BY DEF Prepare
  <1>2. /\ control \in Controller /\ step \in Nat \ {0} /\ log \in Seq(Entry) /\ e \in Entry
        /\ disk = NoCheckpoint \/ disk \in Saved
        /\ Len(log) \in Nat /\ Counted(control, log) /\ Acquainted(control, log)
        /\ Ramping(control, log)
    BY DEF IInv, TypeOK, Entry, Justified
  <1>3. /\ k \in Seq(Entry) /\ Len(k) = n /\ k[n] = e /\ n \in 1 .. Len(k) /\ n = Len(k)
        /\ \A i \in 1 .. Len(log) : k[i] = log[i]
    BY <1>2, Appended
  <1>4. step = n /\ start = 1 /\ (open <=> Len(log) < CalibrationSteps)
    <2>1. control.last = Len(log) /\ control.start = IF Len(log) = 0 THEN NoStep ELSE 1
      BY DEF IInv, Justified, Clocked
    <2>2. step = n
      BY <1>1, <1>2, <2>1 DEF IInv, StepsAgree
    <2>3. start = 1
      BY <1>2, <2>1, <2>2 DEF NoStep
    <2> HIDE DEF start
    <2>4. open <=> Len(log) < CalibrationSteps
      BY <1>2, <2>2, <2>3, BoundsAssumption DEF CalibrationOpen
    <2> QED
      BY <2>2, <2>3, <2>4
  <1>5. ASSUME NEW g \in Groups
        PROVE  /\ groups[g] \in [count : Nat, cap : BOOLEAN]
               /\ groups[g].cap <=> Calibrates(k, n, g)
               /\ ~ groups[g].cap => groups[g].count = Cardinality(EvidenceUpTo(k, Window(k), g))
    <2>1. groups[g] = Calibrated(control.groups[g], Cardinality(Members(e.batch, g)), open)
      OBVIOUS
    <2> HIDE DEF groups, open, e
    <2> QED
      BY <1>2, <1>3, <1>4, <2>1, CalibratedStep
  <1>6. groups \in [Groups -> [count : Nat, cap : BOOLEAN]]
    BY <1>5
  <1>7. ASSUME NEW i \in 1 .. n, NEW g \in Groups, Evidence(k[i].batch, g) # {}
        PROVE  g[1] \in known
    <2>1. CASE i \in 1 .. Len(log)
      BY <1>2, <1>3, <1>7, <2>1 DEF Acquainted
    <2>2. CASE i = n
      <3>1. Evidence(batch, g) # {}
        BY <1>3, <1>7, <2>2
      <3>2. Members(batch, g) # {}
        BY <3>1, MembersAreEvidence, BatchFinite, FS_EmptySet
      <3> QED
        BY <3>2
    <2> QED
      BY <1>2, <2>1, <2>2
  <1>8. known \in SUBSET Roles
    BY <1>2 DEF Controller, Groups
  <1>9. ASSUME NEW role \in Roles
        PROVE  /\ qualified(role) \in BOOLEAN
               /\ \/ qualified(role) <=> role \in e.permitted
                  \/ \A i \in 1 .. n : ~ Advances(k, i, role)
    <2>1. control.ramps[role].qualified \in BOOLEAN
      BY <1>2 DEF Controller, Ramp
    <2>2. CASE role \in known \cup {row.role : row \in batch}
      BY <2>2 DEF Qualified
    <2>3. CASE role \notin known \cup {row.role : row \in batch}
      <3>1. ASSUME NEW i \in 1 .. n, Advances(k, i, role) PROVE FALSE
        <4>1. PICK row \in k[i].batch :
                row.role = role /\ Cardinality(Evidence(k[i].batch, <<row.role, row.turn>>)) >= MinGroup
          BY <3>1 DEF Advances
        <4>2. k[i].batch \in Batches
          BY <1>3, EntryOf
        <4>3. <<row.role, row.turn>> \in Groups
          BY <4>1, <4>2, RowFields
        <4>4. Evidence(k[i].batch, <<row.role, row.turn>>) # {}
          <5>1. MinGroup \in Nat \ {0} /\ Cardinality({}) = 0
            BY BoundsAssumption, FS_EmptySet
          <5>2. ~ (0 >= MinGroup)
            BY <5>1
          <5> QED
            BY <4>1, <5>1, <5>2
        <4>5. <<row.role, row.turn>>[1] \in known
          BY <1>7, <4>3, <4>4
        <4> QED
          BY <2>3, <4>1, <4>5
      <3>2. qualified(role) \in BOOLEAN
        BY <2>1 DEF Qualified
      <3> QED
        BY <3>1, <3>2
    <2> QED
      BY <2>2, <2>3
  <1>10. ASSUME NEW role \in Roles
         PROVE  count(role) \in Nat /\ (count(role) > 0 <=> Advances(k, n, role))
    <2>1. k[n].batch = batch
      BY <1>3
    <2> HIDE DEF k, n, groups
    <2> QED
      BY <1>3, <1>5, <1>6, <2>1, EligibleMeansAdvance
  <1>11. ASSUME NEW role \in Roles
         PROVE  /\ ramps[role] \in Ramp
                /\ ramps[role].updates = Min({RampSteps, Cardinality(Earned(k, role))})
    <2>1. ramps[role] = Ramped(control.ramps[role], qualified(role), count(role))
      OBVIOUS
    <2>2. /\ count(role) \in Nat /\ qualified(role) \in BOOLEAN
          /\ count(role) > 0 <=> Advances(Append(log, e), Len(log) + 1, role)
          /\ \/ qualified(role) <=> role \in e.permitted
             \/ \A i \in 1 .. Len(log) + 1 : ~ Advances(Append(log, e), i, role)
      BY <1>9, <1>10
    <2> HIDE DEF ramps, count, qualified, e
    <2>3. /\ Ramped(control.ramps[role], qualified(role), count(role)) \in Ramp
          /\ Ramped(control.ramps[role], qualified(role), count(role)).updates
               = Min({RampSteps, Cardinality(Earned(Append(log, e), role))})
      <3>1. control \in Controller /\ log \in Seq(Entry) /\ e \in Entry /\ Ramping(control, log)
        BY <1>2
      <3>2. \A m \in Nat : \A q \in BOOLEAN :
              /\ m > 0 <=> Advances(Append(log, e), Len(log) + 1, role)
              /\ \/ q <=> role \in e.permitted
                 \/ \A i \in 1 .. Len(log) + 1 : ~ Advances(Append(log, e), i, role)
              => /\ Ramped(control.ramps[role], q, m) \in Ramp
                 /\ Ramped(control.ramps[role], q, m).updates
                      = Min({RampSteps, Cardinality(Earned(Append(log, e), role))})
        BY <3>1, RampStep
      <3> QED
        BY <2>2, <3>2, Zenon
    <2> QED
      BY <2>1, <2>3
  <1>12. ramps \in [Roles -> Ramp]
    BY <1>11
  <1>13. control' \in Controller
    <2> HIDE DEF groups, known, ramps, start
    <2> QED
      BY <1>1, <1>2, <1>4, <1>6, <1>8, <1>12 DEF Controller
  <1>14. weight \in [batch -> Nat]
    <2>1. \A row \in batch : ramps[row.role].updates \in Nat
      BY <1>11, RowFields DEF Ramp
    <2> HIDE DEF ramps, controlled
    <2> QED
      BY <2>1 DEF Weights
  <1>15. TypeOK'
    <2> HIDE DEF k, weight
    <2> QED
      BY <1>1, <1>2, <1>3, <1>13, <1>14 DEF TypeOK
  <1>16. StepsAgree'
    BY <1>1, <1>2, <1>3 DEF IInv, StepsAgree
  <1>17. Justified(control', log')
    <2>1. /\ control'.last = step /\ control'.start = start /\ control'.groups = groups
          /\ control'.known = known /\ control'.ramps = ramps
      BY <1>1
    <2> HIDE DEF k, groups, known, ramps, start
    <2>2. Clocked(control', log')
      BY <1>1, <1>2, <1>3, <1>4, <2>1 DEF Clocked
    <2>3. Counted(control', log')
      BY <1>1, <1>3, <1>5, <2>1 DEF Counted
    <2>4. Acquainted(control', log')
      BY <1>1, <1>3, <1>7, <2>1 DEF Acquainted
    <2>5. Ramping(control', log')
      BY <1>1, <1>11, <2>1 DEF Ramping
    <2> QED
      BY <2>2, <2>3, <2>4, <2>5 DEF Justified
  <1>18. WeightIsGated'
    <2>1. Last(log') = e
      BY <1>1, <1>3 DEF Last
    <2>2. control'.groups = groups /\ control'.ramps = ramps
      BY <1>1
    <2>3. \A g \in controlled : groups[g].cap
      BY DEF Controlled
    <2>4. \A row \in batch :
            weight[row] = IF /\ row.good /\ Usable(row) /\ row.dropped
                             /\ <<row.role, row.turn>> \in controlled \cap risky
                             /\ row.role \in permitted
                          THEN ramps[row.role].updates ELSE 0
      BY DEF Weights
    <2>5. \A row \in batch : ramps[row.role].updates \in Nat
      BY <1>11, RowFields DEF Ramp
    <2> HIDE DEF weight, ramps, groups, controlled
    <2>6. ASSUME NEW row \in batch, weight[row] > 0
          PROVE  /\ row.role \in permitted /\ groups[<<row.role, row.turn>>].cap
                 /\ Usable(row) /\ row.good
                 /\ weight[row] <= ramps[row.role].updates
      BY <2>3, <2>4, <2>5, <2>6
    <2>7. ASSUME NEW r \in batch, NEW q \in batch, Identity(r) = Identity(q)
          PROVE  weight[r] = weight[q]
      <3>1. /\ r.role = q.role /\ r.turn = q.turn /\ r.good = q.good
            /\ r.eligible = q.eligible /\ r.scored = q.scored /\ r.dropped = q.dropped
        BY <2>7, CopiesAgree
      <3> QED
        BY <2>4, <3>1 DEF Usable
    <2> QED
      BY <1>1, <2>1, <2>2, <2>6, <2>7 DEF WeightIsGated
  <1>19. disk' # NoCheckpoint => Justified(disk'.control, disk'.log)
    BY <1>1 DEF IInv
  <1> QED
    BY <1>15, <1>16, <1>17, <1>18, <1>19 DEF IInv

\* The other steps move the controller as a whole or leave it alone.
LEMMA SaveStep == IInv /\ Save => IInv'
  <1> SUFFICES ASSUME IInv, Save PROVE IInv'
    OBVIOUS
  <1>1. /\ control.last = step /\ disk' = [step |-> step, control |-> control, log |-> log]
        /\ control' = control /\ step' = step /\ out' = out /\ log' = log
    BY DEF Save
  <1>2. TypeOK'
    BY <1>1 DEF IInv, TypeOK, Saved
  <1>3. StepsAgree'
    BY <1>1 DEF IInv, StepsAgree
  <1> QED
    BY <1>1, <1>2, <1>3 DEF IInv, WeightIsGated

\* The next training step changes nothing the invariant speaks of.
LEMMA NextStepStep == IInv /\ NextStep => IInv'
  <1> SUFFICES ASSUME IInv, NextStep PROVE IInv'
    OBVIOUS
  <1>1. /\ control.last = step /\ step' = step + 1 /\ out' = NoOutput
        /\ control' = control /\ disk' = disk /\ log' = log
    BY DEF NextStep
  <1>2. TypeOK'
    BY <1>1 DEF IInv, TypeOK
  <1>3. StepsAgree'
    BY <1>1 DEF IInv, StepsAgree
  <1>4. WeightIsGated'
    BY <1>1 DEF WeightIsGated, NoOutput
  <1> QED
    BY <1>1, <1>2, <1>3, <1>4 DEF IInv

\* A restart brings back a controller for which the invariant was shown.
LEMMA RestartStep == IInv /\ Restart => IInv'
  <1> SUFFICES ASSUME IInv, Restart PROVE IInv'
    OBVIOUS
  <1>1. out' = NoOutput /\ disk' = disk
    BY DEF Restart
  <1>2. WeightIsGated'
    BY <1>1 DEF WeightIsGated, NoOutput
  <1>3. CASE disk = NoCheckpoint
    <2>1. control' = Fresh /\ step' = 1 /\ log' = <<>>
      BY <1>3 DEF Restart
    <2>2. TypeOK'
      BY <1>1, <1>3, <2>1, FreshIsJustified DEF TypeOK
    <2>3. StepsAgree'
      BY <1>1, <1>3, <2>1 DEF StepsAgree, Fresh, NoStep
    <2> QED
      BY <1>1, <1>2, <1>3, <2>1, <2>2, <2>3, FreshIsJustified DEF IInv
  <1>4. CASE disk # NoCheckpoint
    <2>1. control' = disk.control /\ step' = disk.step + 1 /\ log' = disk.log /\ disk \in Saved
      BY <1>4 DEF Restart, Loaded, IInv, TypeOK
    <2>2. TypeOK'
      BY <1>1, <2>1 DEF TypeOK, Saved
    <2>3. StepsAgree'
      BY <1>1, <1>4, <2>1 DEF IInv, StepsAgree, Saved
    <2> QED
      BY <1>1, <1>2, <1>4, <2>1, <2>2, <2>3 DEF IInv
  <1> QED
    BY <1>3, <1>4

\* It holds before the first step.
LEMMA Initially == Init => IInv
  <1> SUFFICES ASSUME Init PROVE IInv
    OBVIOUS
  <1>1. TypeOK
    BY FreshIsJustified DEF Init, TypeOK
  <1>2. StepsAgree
    BY DEF Init, StepsAgree, Fresh, NoStep
  <1>3. WeightIsGated
    BY DEF Init, WeightIsGated, NoOutput
  <1> QED
    BY <1>1, <1>2, <1>3, FreshIsJustified DEF Init, IInv

\* The invariant is inductive.
LEMMA Inductive == IInv /\ [Next]_vars => IInv'
  <1> SUFFICES ASSUME IInv, [Next]_vars PROVE IInv'
    OBVIOUS
  <1>1. ASSUME NEW batch \in Batches, NEW permitted \in SUBSET Roles, NEW risky \in SUBSET Groups,
               Prepare(batch, permitted, risky)
        PROVE  IInv'
    BY <1>1, PrepareStep
  <1>2. CASE Save
    BY <1>2, SaveStep
  <1>3. CASE NextStep
    BY <1>3, NextStepStep
  <1>4. CASE Restart
    BY <1>4, RestartStep
  <1>5. CASE UNCHANGED vars
    BY <1>5 DEF vars, IInv, TypeOK, StepsAgree, WeightIsGated
  <1> QED
    BY <1>1, <1>2, <1>3, <1>4, <1>5 DEF Next

(* Each state the controller can reach is accounted for by the batches it  *)
(* has really prepared (prepare, state_dict, load_state_dict).             *)
THEOREM Invariance == Spec => []IInv
  BY Initially, Inductive, PTL DEF Spec

(* The controller, its saved copy and the log keep their shapes: counts    *)
(* never go below zero and every step restores a whole controller.         *)
THEOREM TypeCorrect == Spec => []TypeOK
  <1>1. IInv => TypeOK
    BY DEF IInv
  <1> QED
    BY <1>1, Invariance, PTL

(* A group's cap is frozen exactly if enough different executed actions    *)
(* of the first calibration steps stand behind it, across every save and   *)
(* restart and whatever copies a batch holds.                              *)
THEOREM CapsJustified == Spec => []CapsFromInitialPolicy
  <1>1. IInv => CapsFromInitialPolicy
    BY DEF IInv, Justified, Counted, CapsFromInitialPolicy
  <1> QED
    BY <1>1, Invariance, PTL

(* A role's ramp counts the batches that had a prediction for it since it  *)
(* was last disqualified, and a restart neither adds nor loses one.        *)
THEOREM RampsEarned == Spec => []RampIsEarned
  <1>1. IInv => RampIsEarned
    BY DEF IInv, Justified, Ramping, Earned, RampIsEarned
  <1> QED
    BY <1>1, Invariance, PTL

(* A weight above zero has passed every gate, stays below its role's ramp, *)
(* and is the same for all copies of an action.                            *)
THEOREM WeightsGated == Spec => []WeightIsGated
  <1>1. IInv => WeightIsGated
    BY DEF IInv
  <1> QED
    BY <1>1, Invariance, PTL

=============================================================================
