------------------------- MODULE SemanticValueProofs -------------------------
(***************************************************************************)
(* Proofs about SemanticValue for any roles, questions and split, any      *)
(* finite batches and any of the thresholds.                               *)
(***************************************************************************)
EXTENDS SemanticValue, FiniteSetTheorems, SequenceTheorems, WellFoundedInduction, TLAPS

RowIds == Nat \X Records
Row    == [id : RowIds, question : Questions, label : {0, 1}]
Heads  == [newest : Int, questions : SUBSET Questions]

Scorer ==
  [candidate : Heads, deployed : Heads, step : Nat, version : Nat,
   pending : Seq(Row), replay : Seq(Row), ready : BOOLEAN, allowed : SUBSET Roles,
   bad : [Roles -> Nat], fingerprint : SUBSET (RowIds \cup {"none"}), pretrained : BOOLEAN]

Evidence == [Roles -> SUBSET SUBSET RowIds]

Saved == [batch : Nat, scorer : Scorer, evidence : Evidence]

TypeOK ==
  /\ scorer \in Scorer
  /\ batch \in Nat
  /\ phase \in {"off", "ready", "prepared", "updated"}
  /\ disk = NoCheckpoint \/ disk \in Saved
  /\ served \in [batch : Nat, newest : Int]
  /\ evidence \in Evidence

-----------------------------------------------------------------------------
(* The inductive invariant speaks of a scorer, the evidence against it and *)
(* the batches it may know, so that it can be said of the running and of   *)
(* the saved one.                                                          *)

\* The newest batch whose labels update() has taken in, and the newest one
\* that prepare() has queued.
Learnt == IF phase = "updated" THEN batch ELSE batch - 1
Queued == IF phase \in {"prepared", "updated"} THEN batch ELSE batch - 1

\* Everything that waits or is kept, oldest first.
Queue(s) == s.replay \o s.pending

\* Heads and replay know the learnt batches only, the queue the queued ones.
InOrder(s, learnt, queued) ==
  /\ s.candidate.newest <= learnt /\ s.deployed.newest <= learnt
  /\ \A i \in 1 .. Len(s.replay) : s.replay[i].id[1] <= learnt
  /\ \A i \in 1 .. Len(Queue(s)) : Queue(s)[i].id[1] <= queued

\* A trajectory is queued once.
QueuedOnce(s) ==
  \A i, j \in 1 .. Len(Queue(s)) : Queue(s)[i].id = Queue(s)[j].id => i = j

HeadsHeldOut(s) ==
  s.candidate.questions \cap HeldOut = {} /\ s.deployed.questions \cap HeldOut = {}

ReadyIsAllowed(s) == s.ready <=> s.allowed # {}

\* The held-out trajectories among the first k of the replay.
ValIds(s, k) == {s.replay[i].id : i \in {j \in 1 .. k : s.replay[j].question \in HeldOut}}

\* A held-out set that the replay can never come back to: a trajectory of it
\* has left the queue, or is followed by one that came later.
Passed(s, set, queued) ==
  \E e \in set :
    /\ e[1] <= queued
    /\ \/ \A i \in 1 .. Len(Queue(s)) : Queue(s)[i].id # e
       \/ \E i, j \in 1 .. Len(s.replay) :
            /\ i < j /\ s.replay[i].id = e
            /\ s.replay[j].question \in HeldOut /\ s.replay[j].id \notin set

\* Of the sets counted against a role only the one judged last can be met
\* again: until a trajectory is added to it or evicted from it.
Tracked(s, ev, queued) ==
  \A role \in Roles : \A set \in ev[role] :
    /\ set # {}
    /\ \/ Passed(s, set, queued)
       \/ set = s.fingerprint /\ \E k \in 0 .. Len(s.replay) : set = ValIds(s, k)

Counted(s, ev) ==
  \A role \in Roles : IsFiniteSet(ev[role]) /\ s.bad[role] = Cardinality(ev[role])

Sound(s, ev, learnt, queued) ==
  /\ InOrder(s, learnt, queued)
  /\ QueuedOnce(s)
  /\ HeadsHeldOut(s)
  /\ ReadyIsAllowed(s)
  /\ Tracked(s, ev, queued)
  /\ Counted(s, ev)

IInv ==
  /\ TypeOK
  /\ Sound(scorer, evidence, Learnt, Queued)
  /\ disk # NoCheckpoint => Sound(disk.scorer, disk.evidence, disk.batch, disk.batch)
  /\ ServedBeforeLearnt

-----------------------------------------------------------------------------
(* Numbers and sequences.                                                  *)

\* The naturals are well-founded.
LEMMA Smaller == IsWellFoundedOn({ss \in Nat \X Nat : ss[1] < ss[2]}, Nat)
  BY NatLessThanWellFounded DEF OpToRel

\* A bounded set of integers has a greatest element.
LEMMA Greatest ==
  ASSUME NEW S \in SUBSET Int, S # {}, NEW b \in Int, \A n \in S : n <= b
  PROVE  \E m \in S : \A n \in S : n <= m
  <1> DEFINE T == {b - n : n \in S}
             less == {ss \in Nat \X Nat : ss[1] < ss[2]}
  <1>1. T \in SUBSET Nat /\ T # {}
    <2>1. \A n \in S : b - n \in Nat
      OBVIOUS
    <2>2. PICK n \in S : TRUE
      OBVIOUS
    <2> QED
      BY <2>1, <2>2
  <1>2. PICK x \in T : \A y \in T : ~ (<<y, x>> \in less)
    <2> HIDE DEF T
    <2> QED
      BY <1>1, Smaller, WFMin
  <1>3. \A y \in T : x <= y
    <2> TAKE y \in T
    <2>1. x \in Nat /\ y \in Nat
      BY <1>1
    <2>2. <<y, x>> \in Nat \X Nat /\ <<y, x>>[1] = y /\ <<y, x>>[2] = x
      BY <2>1
    <2>3. ~ (y < x)
      BY <1>2, <2>2
    <2> QED
      BY <2>1, <2>3
  <1>4. PICK m \in S : x = b - m
    BY <1>2
  <1>5. \A n \in S : b - m <= b - n
    BY <1>3, <1>4
  <1> QED
    BY <1>5

\* Keeping the newest entries drops the first d.
LEMMA NewestOf ==
  ASSUME NEW S, NEW q \in Seq(S)
  PROVE  \E d \in 0 .. Len(q) :
           /\ Newest(q) \in Seq(S) /\ Len(Newest(q)) = Len(q) - d
           /\ \A i \in 1 .. Len(q) - d : Newest(q)[i] = q[i + d]
  <1> DEFINE d == IF Len(q) > ReplayMax THEN Len(q) - ReplayMax ELSE 0
  <1>1. ReplayMax \in Nat \ {0} /\ Len(q) \in Nat
    BY BoundsAssumption
  <1>2. d \in 0 .. Len(q)
    BY <1>1
  <1>3. Newest(q) = SubSeq(q, d + 1, Len(q))
    BY DEF Newest
  <1> HIDE DEF d
  <1>4. \A i \in d + 1 .. Len(q) : q[i] \in S
    BY <1>1, <1>2, ElementOfSeq
  <1>5. /\ SubSeq(q, d + 1, Len(q)) \in Seq(S)
        /\ Len(SubSeq(q, d + 1, Len(q))) = IF d + 1 <= Len(q) THEN Len(q) - (d + 1) + 1 ELSE 0
        /\ \A i \in 1 .. Len(q) - (d + 1) + 1 : SubSeq(q, d + 1, Len(q))[i] = q[d + 1 + i - 1]
    <2>1. d + 1 \in Int /\ Len(q) \in Int
      BY <1>1, <1>2
    <2> QED
      BY <1>4, <2>1, SubSeqProperties
  <1>6. /\ (IF d + 1 <= Len(q) THEN Len(q) - (d + 1) + 1 ELSE 0) = Len(q) - d
        /\ Len(q) - (d + 1) + 1 = Len(q) - d /\ \A i \in Nat : d + 1 + i - 1 = i + d
    BY <1>1, <1>2
  <1>7. ASSUME NEW i \in 1 .. Len(q) - d PROVE SubSeq(q, d + 1, Len(q))[i] = q[i + d]
    <2>1. i \in Nat /\ i \in 1 .. Len(q) - (d + 1) + 1
      BY <1>1, <1>2
    <2>2. SubSeq(q, d + 1, Len(q))[i] = q[d + 1 + i - 1]
      BY <1>5, <2>1
    <2> QED
      BY <1>6, <2>1, <2>2
  <1> QED
    BY <1>2, <1>3, <1>5, <1>6, <1>7

\* A sequence read twice: the second part follows the first.
LEMMA Joined ==
  ASSUME NEW S, NEW a \in Seq(S), NEW b \in Seq(S)
  PROVE  /\ a \o b \in Seq(S) /\ Len(a \o b) = Len(a) + Len(b)
         /\ \A i \in 1 .. Len(a) : (a \o b)[i] = a[i]
         /\ \A i \in 1 .. Len(b) : (a \o b)[Len(a) + i] = b[i]
  <1>1. /\ a \o b \in Seq(S) /\ Len(a \o b) = Len(a) + Len(b)
        /\ \A i \in 1 .. Len(a) + Len(b) : (a \o b)[i] = IF i <= Len(a) THEN a[i] ELSE b[i - Len(a)]
    BY ConcatProperties
  <1>2. Len(a) \in Nat /\ Len(b) \in Nat
    OBVIOUS
  <1>3. \A i \in 1 .. Len(a) : (a \o b)[i] = a[i]
    BY <1>1, <1>2
  <1>4. ASSUME NEW i \in 1 .. Len(b) PROVE (a \o b)[Len(a) + i] = b[i]
    <2>1. Len(a) + i \in 1 .. Len(a) + Len(b) /\ ~ (Len(a) + i <= Len(a)) /\ Len(a) + i - Len(a) = i
      BY <1>2
    <2> QED
      BY <1>1, <2>1
  <1> QED
    BY <1>1, <1>3, <1>4

-----------------------------------------------------------------------------
(* Heads and batches.                                                      *)

\* Training adds the rows' questions and gets no newer than its rows.
LEMMA TrainedHead ==
  ASSUME NEW head \in Heads, NEW train \in SUBSET Row, NEW b \in Int,
         head.newest <= b, \A row \in train : row.id[1] <= b
  PROVE  /\ Trained(head, train) \in Heads
         /\ Trained(head, train).newest <= b
         /\ Trained(head, train).questions = head.questions \cup Asked(train)
  <1> DEFINE known == {head.newest} \cup {row.id[1] : row \in train}
             new   == CHOOSE n \in known : \A k \in known : k <= n
  <1>1. known \in SUBSET Int /\ known # {} /\ \A n \in known : n <= b
    BY DEF Heads, Row, RowIds
  <1>2. new \in known
    <2> HIDE DEF known
    <2>1. \E m \in known : \A n \in known : n <= m
      BY <1>1, Greatest
    <2> QED
      BY <2>1
  <1>3. Asked(train) \in SUBSET Questions
    BY DEF Asked, Row
  <1>4. Trained(head, train) =
          [newest |-> IF train = {} THEN head.newest ELSE new,
           questions |-> head.questions \cup Asked(train)]
    BY DEF Trained
  <1>5. new \in Int /\ new <= b
    <2> HIDE DEF known, new
    <2> QED
      BY <1>1, <1>2
  <1> HIDE DEF new, known
  <1> QED
    BY <1>3, <1>4, <1>5 DEF Heads

\* The trajectories of a batch carry its number, each another identity.
LEMMA EligibleRows ==
  ASSUME NEW records \in Batches, batch \in Nat
  PROVE  LET q == Eligible(records)
         IN  /\ q \in Seq(Row)
             /\ \A i \in 1 .. Len(q) : q[i].id[1] = batch
             /\ \A i, j \in 1 .. Len(q) : q[i].id = q[j].id => i = j
  <1> DEFINE good  == {q \in records : q.fate = "ok"}
             row(r) == [id |-> <<batch, r>>, question |-> r.question, label |-> r.label]
             rows  == {row(r) : r \in good}
             n     == Cardinality(rows)
             q     == Eligible(records)
  <1>1. q = SetToSeq(rows)
    BY DEF Eligible
  <1>2. records \in SUBSET Records /\ IsFiniteSet(records)
    BY BatchesAssumption
  <1>3. IsFiniteSet(good)
    <2>1. good \in SUBSET records
      OBVIOUS
    <2> QED
      BY <1>2, <2>1, FS_Subset
  <1>4. IsFiniteSet(rows)
    <2> DEFINE f == [r \in good |-> row(r)]
    <2>1. f \in Surjection(good, rows)
      BY DEF Surjection
    <2> HIDE DEF f, good, rows
    <2> QED
      BY <1>3, <2>1, FS_Surjection
  <1>5. \A x \in rows : x \in Row /\ x.id[1] = batch
    BY <1>2 DEF Row, RowIds, Records
  <1>6. \A x, y \in rows : x.id = y.id => x = y
    <2> TAKE x, y \in rows
    <2>1. PICK r \in good : x = row(r)
      OBVIOUS
    <2>2. PICK t \in good : y = row(t)
      OBVIOUS
    <2>3. x.id = <<batch, r>> /\ y.id = <<batch, t>>
      BY <2>1, <2>2
    <2>4. x.id = y.id => r = t
      BY <2>3
    <2> QED
      BY <2>1, <2>2, <2>4
  <1> HIDE DEF rows
  <1>7. n \in Nat /\ ExistsBijection(1 .. n, rows)
    BY <1>4, FS_CardinalityType
  <1> HIDE DEF n
  <1>8. \E f \in [1 .. n -> rows] : IsInjective(f)
    BY <1>7 DEF ExistsBijection, Bijection, Injection
  <1>9. q \in [1 .. n -> rows] /\ IsInjective(q)
    BY <1>1, <1>8 DEF SetToSeq, n
  <1> HIDE DEF q
  <1>10. q \in Seq(rows) /\ Len(q) = n
    BY <1>7, <1>9
  <1>11. \A i \in 1 .. Len(q) : q[i] \in rows
    BY <1>9, <1>10
  <1>12. q \in Seq(Row)
    BY <1>5, <1>10, <1>11, <1>7
  <1>13. \A i, j \in 1 .. Len(q) : q[i] = q[j] => i = j
    BY <1>9, <1>10 DEF IsInjective
  <1> QED
    BY <1>5, <1>6, <1>11, <1>12, <1>13 DEF q

-----------------------------------------------------------------------------
(* The replay window.                                                      *)

\* The queue of a scorer, position by position.
LEMMA QueueParts ==
  ASSUME NEW s \in Scorer
  PROVE  /\ s.replay \in Seq(Row) /\ s.pending \in Seq(Row) /\ Queue(s) \in Seq(Row)
         /\ Len(s.replay) \in Nat /\ Len(s.pending) \in Nat /\ Len(Queue(s)) \in Nat
         /\ Len(Queue(s)) = Len(s.replay) + Len(s.pending)
         /\ \A i \in 1 .. Len(s.replay) :
              i \in 1 .. Len(Queue(s)) /\ Queue(s)[i] = s.replay[i] /\ s.replay[i] \in Row
         /\ \A i \in 1 .. Len(s.pending) :
              /\ Len(s.replay) + i \in 1 .. Len(Queue(s))
              /\ Queue(s)[Len(s.replay) + i] = s.pending[i] /\ s.pending[i] \in Row
  <1> DEFINE a == s.replay
             b == s.pending
  <1>1. a \in Seq(Row) /\ b \in Seq(Row) /\ Queue(s) = a \o b
    BY DEF Scorer, Queue
  <1> HIDE DEF a, b
  <1>2. /\ a \o b \in Seq(Row) /\ Len(a \o b) = Len(a) + Len(b)
        /\ \A i \in 1 .. Len(a) : (a \o b)[i] = a[i]
        /\ \A i \in 1 .. Len(b) : (a \o b)[Len(a) + i] = b[i]
    BY <1>1, Joined
  <1>3. Len(a) \in Nat /\ Len(b) \in Nat
    BY <1>1
  <1>4. \A i \in 1 .. Len(a) : a[i] \in Row
    BY <1>1, ElementOfSeq
  <1>5. \A i \in 1 .. Len(b) : b[i] \in Row
    BY <1>1, ElementOfSeq
  <1>6. /\ Len(a) + Len(b) \in Nat /\ \A i \in 1 .. Len(a) : i \in 1 .. Len(a) + Len(b)
        /\ \A i \in 1 .. Len(b) : Len(a) + i \in 1 .. Len(a) + Len(b)
    BY <1>3
  <1>7. /\ Queue(s) \in Seq(Row) /\ Len(Queue(s)) \in Nat /\ Len(Queue(s)) = Len(a) + Len(b)
    BY <1>1, <1>2, <1>6
  <1>8. \A i \in 1 .. Len(a) : i \in 1 .. Len(Queue(s)) /\ Queue(s)[i] = a[i]
    BY <1>1, <1>2, <1>6, <1>7
  <1>9. \A i \in 1 .. Len(b) : Len(a) + i \in 1 .. Len(Queue(s)) /\ Queue(s)[Len(a) + i] = b[i]
    BY <1>1, <1>2, <1>6, <1>7
  <1> QED
    BY <1>1, <1>3, <1>4, <1>5, <1>7, <1>8, <1>9 DEF a, b

\* A set the replay has passed is not the held-out set of the replay.
LEMMA PassedDiffers ==
  ASSUME NEW s \in Scorer, QueuedOnce(s), NEW set, NEW n, Passed(s, set, n)
  PROVE  set # ValIds(s, Len(s.replay))
  <1> DEFINE held == {j \in 1 .. Len(s.replay) : s.replay[j].question \in HeldOut}
  <1>1. ValIds(s, Len(s.replay)) = {s.replay[i].id : i \in held}
    BY DEF ValIds
  <1>2. PICK e \in set :
          \/ \A i \in 1 .. Len(Queue(s)) : Queue(s)[i].id # e
          \/ \E i, j \in 1 .. Len(s.replay) :
               /\ i < j /\ s.replay[i].id = e
               /\ s.replay[j].question \in HeldOut /\ s.replay[j].id \notin set
    BY DEF Passed
  <1>3. CASE \A i \in 1 .. Len(Queue(s)) : Queue(s)[i].id # e
    <2>1. \A i \in held : i \in 1 .. Len(Queue(s)) /\ Queue(s)[i] = s.replay[i]
      BY QueueParts
    <2>2. \A i \in held : s.replay[i].id # e
      BY <1>3, <2>1
    <2> QED
      BY <1>1, <1>2, <2>2
  <1>4. CASE \E j \in 1 .. Len(s.replay) :
               s.replay[j].question \in HeldOut /\ s.replay[j].id \notin set
    BY <1>1, <1>4
  <1> QED
    BY <1>2, <1>3, <1>4

\* A held-out set of a prefix is passed when the whole replay holds more.
LEMMA PrefixPasses ==
  ASSUME NEW s \in Scorer, NEW learnt, NEW n, InOrder(s, learnt, n), NEW k \in 0 .. Len(s.replay),
         NEW set, set = ValIds(s, k), set # {}, set # ValIds(s, Len(s.replay))
  PROVE  Passed(s, set, n)
  <1> DEFINE held(m) == {j \in 1 .. m : s.replay[j].question \in HeldOut}
             all     == Len(s.replay)
  <1>1. set = {s.replay[i].id : i \in held(k)}
    BY DEF ValIds
  <1>2. ValIds(s, all) = {s.replay[i].id : i \in held(all)}
    BY DEF ValIds
  <1>3. all \in Nat /\ k \in Nat /\ k <= all
    BY QueueParts
  <1>4. \A i \in held(k) : i \in held(all)
    BY <1>3
  <1>5. PICK j \in held(all) : s.replay[j].id \notin set
    BY <1>1, <1>2, <1>4
  <1>6. PICK i \in held(k) : s.replay[i].id \in set
    BY <1>1
  <1>7. j > k
    BY <1>1, <1>3, <1>5
  <1>8. i < j /\ i \in 1 .. all /\ j \in 1 .. all
    BY <1>3, <1>7
  <1>9. s.replay[i].id[1] <= n
    <2>1. i \in 1 .. Len(Queue(s)) /\ Queue(s)[i] = s.replay[i]
      BY <1>8, QueueParts
    <2> QED
      BY <2>1 DEF InOrder
  <1> QED
    BY <1>5, <1>6, <1>8, <1>9 DEF Passed

\* Judging, deploying and withdrawing leave the window as it is.
LEMMA SameWindow ==
  ASSUME NEW s, NEW t, t.replay = s.replay, t.pending = s.pending
  PROVE  /\ Queue(t) = Queue(s)
         /\ QueuedOnce(s) => QueuedOnce(t)
         /\ \A k : ValIds(t, k) = ValIds(s, k)
         /\ \A set, n : Passed(s, set, n) => Passed(t, set, n)
  BY DEF Queue, QueuedOnce, ValIds, Passed

\* A passed set stays passed, a prefix stays one or is passed, when the first
\* d entries of the queue are dropped and the others become the replay.
LEMMA WindowMoves ==
  ASSUME NEW s \in Scorer, QueuedOnce(s), NEW learnt, NEW n, InOrder(s, learnt, n),
         NEW t \in Scorer, t.pending = <<>>, NEW d \in 0 .. Len(Queue(s)),
         Len(t.replay) = Len(Queue(s)) - d,
         \A i \in 1 .. Len(t.replay) : t.replay[i] = Queue(s)[i + d]
  PROVE  /\ Queue(t) = t.replay
         /\ QueuedOnce(t)
         /\ \A set : Passed(s, set, n) => Passed(t, set, n)
         /\ \A k \in 0 .. Len(s.replay) : ValIds(s, k) # {} =>
              \/ Passed(t, ValIds(s, k), n)
              \/ \E m \in 0 .. Len(t.replay) : ValIds(s, k) = ValIds(t, m)
  <1>1. Queue(t) = t.replay
    BY ConcatEmptySeq, QueueParts DEF Queue
  <1> DEFINE size == Len(Queue(s))
             kept == Len(t.replay)
             old  == Len(s.replay)
  <1>2. size \in Nat /\ kept \in Nat /\ d \in Nat /\ old \in Nat /\ kept = size - d /\ old <= size
    <2>1. size \in Nat /\ kept \in Nat /\ old \in Nat
      BY QueueParts
    <2>2. kept = size - d /\ d \in 0 .. size
      OBVIOUS
    <2>3. size = old + Len(s.pending) /\ Len(s.pending) \in Nat
      BY QueueParts
    <2> HIDE DEF size, kept, old
    <2> QED
      BY <2>1, <2>2, <2>3
  <1>3. \A i \in 1 .. kept : i + d \in 1 .. size /\ t.replay[i] = Queue(s)[i + d]
    BY <1>2
  <1>4. \A i \in 1 .. old : i \in 1 .. size /\ Queue(s)[i] = s.replay[i]
    BY QueueParts
  <1>5. \A i, j \in 1 .. size : Queue(s)[i].id = Queue(s)[j].id => i = j
    BY DEF QueuedOnce
  <1>6. \A i \in 1 .. size : Queue(s)[i].id[1] <= n
    BY DEF InOrder
  <1> HIDE DEF size, kept, old
  <1>7. QueuedOnce(t)
    <2> SUFFICES ASSUME NEW i \in 1 .. kept, NEW j \in 1 .. kept, t.replay[i].id = t.replay[j].id
                 PROVE  i = j
      BY <1>1 DEF QueuedOnce, kept
    <2>1. i + d \in 1 .. size /\ j + d \in 1 .. size /\ Queue(s)[i + d].id = Queue(s)[j + d].id
      BY <1>3
    <2>2. i + d = j + d
      BY <1>5, <2>1
    <2> QED
      BY <1>2, <2>2
  <1>8. ASSUME NEW e, NEW i \in 1 .. size, i <= d, Queue(s)[i].id = e
        PROVE  \A k \in 1 .. kept : t.replay[k].id # e
    <2> SUFFICES ASSUME NEW k \in 1 .. kept, t.replay[k].id = e PROVE FALSE
      OBVIOUS
    <2>1. k + d \in 1 .. size /\ Queue(s)[k + d].id = Queue(s)[i].id
      BY <1>3, <1>8
    <2>2. k + d = i
      BY <1>5, <2>1
    <2> QED
      BY <1>2, <1>8, <2>2
  <1>9. ASSUME NEW i \in 1 .. size, ~ (i <= d)
        PROVE  i - d \in 1 .. kept /\ t.replay[i - d] = Queue(s)[i]
    <2>1. i - d \in 1 .. kept /\ i - d + d = i
      BY <1>2, <1>9
    <2> QED
      BY <1>3, <2>1
  <1>10. ASSUME NEW set, Passed(s, set, n) PROVE Passed(t, set, n)
    <2>1. PICK e \in set :
            /\ e[1] <= n
            /\ \/ \A i \in 1 .. size : Queue(s)[i].id # e
               \/ \E i, j \in 1 .. old :
                    /\ i < j /\ s.replay[i].id = e
                    /\ s.replay[j].question \in HeldOut /\ s.replay[j].id \notin set
      BY <1>10 DEF Passed, size, old
    <2>2. SUFFICES \/ \A i \in 1 .. kept : t.replay[i].id # e
                   \/ \E i, j \in 1 .. kept :
                        /\ i < j /\ t.replay[i].id = e
                        /\ t.replay[j].question \in HeldOut /\ t.replay[j].id \notin set
      BY <1>1, <2>1 DEF Passed, kept
    <2>3. CASE \A i \in 1 .. size : Queue(s)[i].id # e
      BY <1>3, <2>3
    <2>4. ASSUME NEW i \in 1 .. old, NEW j \in 1 .. old,
                 i < j, s.replay[i].id = e, s.replay[j].question \in HeldOut, s.replay[j].id \notin set
          PROVE  \/ \A k \in 1 .. kept : t.replay[k].id # e
                 \/ \E k, m \in 1 .. kept :
                      /\ k < m /\ t.replay[k].id = e
                      /\ t.replay[m].question \in HeldOut /\ t.replay[m].id \notin set
      <3>1. /\ i \in 1 .. size /\ Queue(s)[i] = s.replay[i]
            /\ j \in 1 .. size /\ Queue(s)[j] = s.replay[j]
        BY <1>4
      <3>2. CASE i <= d
        BY <1>8, <2>4, <3>1, <3>2
      <3>3. CASE ~ (i <= d)
        <4>1. ~ (j <= d) /\ i - d < j - d
          BY <1>2, <2>4, <3>1, <3>3
        <4>2. i - d \in 1 .. kept /\ t.replay[i - d] = s.replay[i]
          BY <1>9, <3>1, <3>3
        <4>3. j - d \in 1 .. kept /\ t.replay[j - d] = s.replay[j]
          BY <1>9, <3>1, <4>1
        <4> QED
          BY <2>4, <4>1, <4>2, <4>3
      <3> QED
        BY <3>2, <3>3
    <2> QED
      BY <2>1, <2>3, <2>4
  <1>11. ASSUME NEW k \in 0 .. old, ValIds(s, k) # {}
         PROVE  \/ Passed(t, ValIds(s, k), n)
                \/ \E m \in 0 .. kept : ValIds(s, k) = ValIds(t, m)
    <2> DEFINE set     == ValIds(s, k)
               held    == {j \in 1 .. k : s.replay[j].question \in HeldOut}
    <2>1. set = {s.replay[i].id : i \in held}
      BY DEF ValIds
    <2>2. \A i \in held : i \in 1 .. size /\ Queue(s)[i] = s.replay[i]
      BY <1>2, <1>4
    <2> HIDE DEF set
    <2>3. CASE \E i \in held : i <= d
      <3>1. PICK i \in held : i <= d
        BY <2>3
      <3>2. \A q \in 1 .. kept : t.replay[q].id # s.replay[i].id
        BY <1>8, <2>2, <3>1
      <3>3. s.replay[i].id \in set /\ s.replay[i].id[1] <= n
        BY <1>6, <2>1, <2>2
      <3>4. Passed(t, set, n)
        BY <1>1, <3>2, <3>3 DEF Passed, kept
      <3> QED
        BY <3>4 DEF set
    <2>4. CASE \A i \in held : ~ (i <= d)
      <3>1. PICK i \in held : TRUE
        BY <1>11, <2>1 DEF set
      <3>2. k - d \in 0 .. kept /\ k \in Nat
        BY <1>2, <2>4, <3>1
      <3> DEFINE mine == {j \in 1 .. k - d : t.replay[j].question \in HeldOut}
      <3>3. ValIds(t, k - d) = {t.replay[j].id : j \in mine}
        BY DEF ValIds
      <3>4. ASSUME NEW j \in mine PROVE j + d \in held /\ t.replay[j] = s.replay[j + d]
        <4>1. j \in 1 .. kept /\ j + d \in 1 .. k /\ j + d \in 1 .. old
          <5>1. j \in 1 .. k - d
            OBVIOUS
          <5>2. k <= old /\ k \in Nat /\ k - d <= kept
            BY <1>2, <3>2
          <5> HIDE DEF mine
          <5> QED
            BY <1>2, <5>1, <5>2
        <4>2. t.replay[j] = Queue(s)[j + d] /\ Queue(s)[j + d] = s.replay[j + d]
          BY <1>3, <1>4, <4>1
        <4> QED
          <5>1. t.replay[j].question \in HeldOut
            OBVIOUS
          <5> QED
            BY <4>1, <4>2, <5>1
      <3>5. ASSUME NEW j \in held PROVE j - d \in mine /\ t.replay[j - d] = s.replay[j]
        <4>1. j \in 1 .. k /\ s.replay[j].question \in HeldOut /\ j \in 1 .. size /\ ~ (j <= d)
          BY <2>2, <2>4
        <4>2. j - d \in 1 .. k - d
          BY <1>2, <3>2, <4>1
        <4>3. t.replay[j - d] = s.replay[j]
          BY <1>9, <2>2, <4>1
        <4> QED
          BY <4>1, <4>2, <4>3
      <3> HIDE DEF held, mine
      <3>6. set = ValIds(t, k - d)
        <4>1. \A j \in mine : t.replay[j].id = s.replay[j + d].id /\ j + d \in held
          BY <3>4
        <4>2. \A j \in held : s.replay[j].id = t.replay[j - d].id /\ j - d \in mine
          BY <3>5
        <4>3. {t.replay[j].id : j \in mine} \subseteq {s.replay[j].id : j \in held}
          BY <4>1
        <4>4. {s.replay[j].id : j \in held} \subseteq {t.replay[j].id : j \in mine}
          BY <4>2
        <4> QED
          BY <2>1, <3>3, <4>3, <4>4
      <3> QED
        BY <3>2, <3>6 DEF set
    <2> QED
      BY <2>3, <2>4
  <1> QED
    BY <1>1, <1>7, <1>10, <1>11 DEF kept, old

-----------------------------------------------------------------------------
(* What update() makes of the queue, before the evaluation.                *)

\* Ingestion changes the window and the candidate, and nothing else.
LEMMA IngestedFields ==
  ASSUME TypeOK, InOrder(scorer, batch - 1, batch)
  PROVE  LET t == Ingested
             q == Newest(Queue(scorer))
         IN  /\ t \in Scorer /\ t.candidate.newest <= batch
             /\ t.candidate.questions = scorer.candidate.questions \cup Asked(TrainRows(q))
             /\ t.replay = q /\ t.pending = <<>>
             /\ t.candidate = Trained(scorer.candidate, TrainRows(q))
             /\ t.deployed = scorer.deployed /\ t.version = scorer.version
             /\ t.ready = scorer.ready /\ t.allowed = scorer.allowed
             /\ t.bad = scorer.bad /\ t.fingerprint = scorer.fingerprint
             /\ TrainRows(q) \in SUBSET Row /\ ValRows(q) \in SUBSET Row
             /\ \A row \in TrainRows(q) :
                  row.question \notin HeldOut /\ \E i \in 1 .. Len(q) : q[i] = row
             /\ Ids(ValRows(q)) = ValIds(t, Len(q))
  <1> DEFINE t == Ingested
             q == Newest(Queue(scorer))
  <1>1. scorer \in Scorer
    BY DEF TypeOK
  <1>2. q \in Seq(Row) /\ \A i \in 1 .. Len(q) : q[i].id[1] <= batch
    <2> DEFINE old == Queue(scorer)
    <2>1. old \in Seq(Row) /\ Len(old) \in Nat /\ \A i \in 1 .. Len(old) : old[i].id[1] <= batch
      BY <1>1, QueueParts DEF InOrder
    <2> HIDE DEF old
    <2>2. PICK d \in 0 .. Len(old) :
            /\ Newest(old) \in Seq(Row) /\ Len(Newest(old)) = Len(old) - d
            /\ \A i \in 1 .. Len(old) - d : Newest(old)[i] = old[i + d]
      BY <2>1, NewestOf
    <2>3. \A i \in 1 .. Len(old) - d : i + d \in 1 .. Len(old)
      BY <2>1
    <2>4. \A i \in 1 .. Len(Newest(old)) : Newest(old)[i].id[1] <= batch
      BY <2>1, <2>2, <2>3
    <2> QED
      BY <2>2, <2>4 DEF old
  <1>3. t = [scorer EXCEPT !.step = @ + 1, !.pending = <<>>, !.replay = q,
                           !.candidate = Trained(@, TrainRows(q))]
    BY DEF Ingested, Queue
  <1> HIDE DEF q, t
  <1>4. \A i \in 1 .. Len(q) : q[i] \in Row
    BY <1>2, ElementOfSeq
  <1>5. DOMAIN q = 1 .. Len(q) /\ Len(q) \in Nat
    BY <1>2
  <1>6. TrainRows(q) \in SUBSET Row /\ ValRows(q) \in SUBSET Row
    BY <1>4, <1>5 DEF TrainRows, ValRows, ToSet
  <1>7. ASSUME NEW row \in TrainRows(q)
        PROVE  row.question \notin HeldOut /\ \E i \in 1 .. Len(q) : q[i] = row
    BY <1>5 DEF TrainRows, ValRows, ToSet
  <1>8. /\ t.replay = q /\ t.pending = <<>> /\ t.step = scorer.step + 1
        /\ t.candidate = Trained(scorer.candidate, TrainRows(q))
        /\ t.deployed = scorer.deployed /\ t.version = scorer.version
        /\ t.ready = scorer.ready /\ t.allowed = scorer.allowed
        /\ t.bad = scorer.bad /\ t.fingerprint = scorer.fingerprint
    BY <1>1, <1>3 DEF Scorer
  <1>9. /\ Trained(scorer.candidate, TrainRows(q)) \in Heads
        /\ Trained(scorer.candidate, TrainRows(q)).newest <= batch
        /\ Trained(scorer.candidate, TrainRows(q)).questions
             = scorer.candidate.questions \cup Asked(TrainRows(q))
    <2>1. scorer.candidate \in Heads /\ batch \in Int
      BY <1>1 DEF Scorer, TypeOK
    <2>2. scorer.candidate.newest <= batch
      <3>1. scorer.candidate.newest \in Int /\ scorer.candidate.newest <= batch - 1
        BY <2>1 DEF Heads, InOrder
      <3> QED
        BY <2>1, <3>1
    <2>3. \A row \in TrainRows(q) : row.id[1] <= batch
      BY <1>2, <1>7
    <2> QED
      BY <1>6, <2>1, <2>2, <2>3, TrainedHead
  <1>10. t \in Scorer
    <2>1. scorer.step + 1 \in Nat /\ <<>> \in Seq(Row)
      BY <1>1 DEF Scorer
    <2> QED
      BY <1>1, <1>2, <1>3, <1>9, <2>1 DEF Scorer
  <1>11. Ids(ValRows(q)) = ValIds(t, Len(q))
    <2> DEFINE held == {j \in 1 .. Len(q) : q[j].question \in HeldOut}
    <2>1. ValIds(t, Len(q)) = {q[i].id : i \in held}
      BY <1>8 DEF ValIds
    <2>2. ValRows(q) = {row \in {q[i] : i \in 1 .. Len(q)} : row.question \in HeldOut}
      BY <1>5 DEF ValRows, ToSet
    <2>3. \A row \in ValRows(q) : \E i \in held : q[i] = row
      BY <2>2
    <2>4. \A i \in held : q[i] \in ValRows(q)
      BY <2>2
    <2> HIDE DEF held
    <2> QED
      BY <2>1, <2>3, <2>4 DEF Ids
  <1> QED
    BY <1>6, <1>7, <1>8, <1>9, <1>10, <1>11 DEF t, q

\* Ingestion keeps all that is claimed, the batch being learnt now.
LEMMA IngestedSound ==
  ASSUME TypeOK, Sound(scorer, evidence, batch - 1, batch)
  PROVE  Sound(Ingested, evidence, batch, batch)
  <1> DEFINE t == Ingested
             q == Newest(Queue(scorer))
             Q == Queue(scorer)
  <1>1. /\ scorer \in Scorer /\ batch \in Nat
        /\ InOrder(scorer, batch - 1, batch) /\ QueuedOnce(scorer)
    BY DEF TypeOK, Sound
  <1>2. /\ t \in Scorer /\ t.candidate.newest <= batch
        /\ t.candidate.questions = scorer.candidate.questions \cup Asked(TrainRows(q))
        /\ t.replay = q /\ t.pending = <<>> /\ t.deployed = scorer.deployed
        /\ t.ready = scorer.ready /\ t.allowed = scorer.allowed
        /\ t.bad = scorer.bad /\ t.fingerprint = scorer.fingerprint
        /\ \A row \in TrainRows(q) : row.question \notin HeldOut
    BY <1>1, IngestedFields
  <1>3. Q \in Seq(Row) /\ Len(Q) \in Nat
    BY <1>1, QueueParts
  <1>4. PICK d \in 0 .. Len(Q) :
          /\ q \in Seq(Row) /\ Len(q) = Len(Q) - d
          /\ \A i \in 1 .. Len(Q) - d : q[i] = Q[i + d]
    BY <1>3, NewestOf
  <1> HIDE DEF t, q
  <1>5. Len(t.replay) = Len(Queue(scorer)) - d
    BY <1>2, <1>4
  <1>6. \A i \in 1 .. Len(t.replay) : t.replay[i] = Queue(scorer)[i + d]
    BY <1>2, <1>4
  <1>7. /\ Queue(t) = t.replay
        /\ QueuedOnce(t)
        /\ \A set : Passed(scorer, set, batch) => Passed(t, set, batch)
        /\ \A k \in 0 .. Len(scorer.replay) : ValIds(scorer, k) # {} =>
             \/ Passed(t, ValIds(scorer, k), batch)
             \/ \E m \in 0 .. Len(t.replay) : ValIds(scorer, k) = ValIds(t, m)
    BY <1>1, <1>2, <1>4, <1>5, <1>6, WindowMoves
  <1>8. InOrder(t, batch, batch)
    <2>1. \A i \in 1 .. Len(Q) : Q[i].id[1] <= batch
      BY <1>1 DEF InOrder
    <2>2. \A i \in 1 .. Len(t.replay) : t.replay[i].id[1] <= batch
      <3>1. \A i \in 1 .. Len(Q) - d : i + d \in 1 .. Len(Q)
        BY <1>3
      <3> HIDE DEF Q
      <3> QED
        BY <1>2, <1>4, <2>1, <3>1
    <2>3. t.deployed.newest <= batch
      <3>1. scorer.deployed.newest \in Int /\ scorer.deployed.newest <= batch - 1
        BY <1>1 DEF InOrder, Scorer, Heads
      <3> QED
        BY <1>1, <1>2, <3>1
    <2> QED
      BY <1>2, <1>7, <2>2, <2>3 DEF InOrder
  <1>9. HeadsHeldOut(t)
    <2>1. Asked(TrainRows(q)) \cap HeldOut = {}
      BY <1>2 DEF Asked
    <2>2. HeadsHeldOut(scorer)
      BY DEF Sound
    <2> QED
      BY <1>2, <2>1, <2>2 DEF HeadsHeldOut
  <1>10. ReadyIsAllowed(t)
    BY <1>2 DEF Sound, ReadyIsAllowed
  <1>11. Counted(t, evidence)
    BY <1>2 DEF Sound, Counted
  <1>12. Tracked(t, evidence, batch)
    <2> SUFFICES ASSUME NEW role \in Roles, NEW set \in evidence[role]
                 PROVE  /\ set # {}
                        /\ \/ Passed(t, set, batch)
                           \/ set = t.fingerprint /\ \E k \in 0 .. Len(t.replay) : set = ValIds(t, k)
      BY DEF Tracked
    <2>1. /\ set # {}
          /\ \/ Passed(scorer, set, batch)
             \/ set = scorer.fingerprint
                /\ \E k \in 0 .. Len(scorer.replay) : set = ValIds(scorer, k)
      BY DEF Sound, Tracked
    <2>2. CASE Passed(scorer, set, batch)
      BY <1>7, <2>1, <2>2
    <2>3. CASE set = scorer.fingerprint /\ \E k \in 0 .. Len(scorer.replay) : set = ValIds(scorer, k)
      BY <1>2, <1>7, <2>1, <2>3
    <2> QED
      BY <2>1, <2>2, <2>3
  <1> QED
    BY <1>7, <1>8, <1>9, <1>10, <1>11, <1>12 DEF Sound, t

-----------------------------------------------------------------------------
(* The evaluation.                                                         *)

\* Whatever keeps the window keeps what is claimed of the queue and heads.
LEMMA WindowKept ==
  ASSUME NEW s, NEW t, NEW n, InOrder(s, n, n), QueuedOnce(s), HeadsHeldOut(s),
         t.replay = s.replay, t.pending = s.pending, t.candidate = s.candidate,
         t.deployed = s.deployed \/ t.deployed = s.candidate
  PROVE  InOrder(t, n, n) /\ QueuedOnce(t) /\ HeadsHeldOut(t)
  BY SameWindow DEF InOrder, HeadsHeldOut

\* A new head is deployed: the evidence was about the old one.
LEMMA Deploying ==
  ASSUME NEW s \in Scorer, NEW n, NEW good \in SUBSET Roles, good # {},
         NEW ev, Sound(s, ev, n, n), NEW new, new = [role \in Roles |-> {}]
  PROVE  Deploy(s, good) \in Scorer /\ Sound(Deploy(s, good), new, n, n)
  <1> DEFINE t == Deploy(s, good)
  <1>1. /\ t.replay = s.replay /\ t.pending = s.pending /\ t.candidate = s.candidate
        /\ t.deployed = s.candidate /\ t.allowed = good /\ t.ready = TRUE
        /\ t.bad = [role \in Roles |-> 0]
    BY DEF Deploy, Scorer
  <1>2. t \in Scorer
    <2>1. s.version + 1 \in Nat
      BY DEF Scorer
    <2> QED
      BY <2>1 DEF Deploy, Scorer
  <1> HIDE DEF t
  <1>3. InOrder(t, n, n) /\ QueuedOnce(t) /\ HeadsHeldOut(t)
    BY <1>1, WindowKept DEF Sound
  <1>4. ReadyIsAllowed(t)
    BY <1>1 DEF ReadyIsAllowed
  <1>5. Tracked(t, new, n)
    BY DEF Tracked
  <1>6. Counted(t, new)
    BY <1>1, FS_EmptySet DEF Counted
  <1> QED
    BY <1>2, <1>3, <1>4, <1>5, <1>6 DEF Sound, t

\* Roles with strikes keep their evidence when nothing is judged.
LEMMA Withdrawing ==
  ASSUME NEW s \in Scorer, NEW n, NEW ev \in Evidence, Sound(s, ev, n, n),
         NEW t \in Scorer, t.replay = s.replay, t.pending = s.pending,
         t.candidate = s.candidate, t.deployed = s.deployed, t.bad = s.bad,
         t.fingerprint = s.fingerprint, ReadyIsAllowed(t),
         NEW new, \A role \in Roles : new[role] = IF t.bad[role] = 0 THEN {} ELSE ev[role]
  PROVE  Sound(t, new, n, n)
  <1>1. InOrder(t, n, n) /\ QueuedOnce(t) /\ HeadsHeldOut(t)
    BY WindowKept DEF Sound
  <1>2. Tracked(t, new, n)
    <2> SUFFICES ASSUME NEW role \in Roles, NEW set \in new[role]
                 PROVE  /\ set # {}
                        /\ \/ Passed(t, set, n)
                           \/ set = t.fingerprint /\ \E k \in 0 .. Len(t.replay) : set = ValIds(t, k)
      BY DEF Tracked
    <2>1. set \in ev[role]
      OBVIOUS
    <2>2. /\ set # {}
          /\ \/ Passed(s, set, n)
             \/ set = s.fingerprint /\ \E k \in 0 .. Len(s.replay) : set = ValIds(s, k)
      BY <2>1 DEF Sound, Tracked
    <2> QED
      BY <2>2, SameWindow
  <1>3. Counted(t, new)
    BY FS_EmptySet DEF Sound, Counted
  <1> QED
    BY <1>1, <1>2, <1>3 DEF Sound

\* A role's strikes are cleared, kept, or one more, and its evidence with them.
Struck(s, t, ev, new, set) ==
  \A role \in Roles :
    /\ t.bad[role] \in {0, s.bad[role], s.bad[role] + 1}
    /\ new[role] = IF t.bad[role] = 0 THEN {}
                   ELSE IF t.bad[role] # s.bad[role] THEN ev[role] \cup {set}
                   ELSE ev[role]

\* Judging on a set never met: every evidence is passed by then, and the set
\* is one more for the roles that fail on it.
LEMMA Judging ==
  ASSUME NEW s \in Scorer, NEW n, NEW ev \in Evidence, Sound(s, ev, n, n),
         NEW val, Ids(val) = ValIds(s, Len(s.replay)), Ids(val) # {}, Ids(val) # s.fingerprint,
         NEW t \in Scorer, t.replay = s.replay, t.pending = s.pending,
         t.candidate = s.candidate, t.deployed = s.deployed,
         t.fingerprint = Ids(val), ReadyIsAllowed(t),
         NEW new, Struck(s, t, ev, new, Ids(val))
  PROVE  Sound(t, new, n, n)
  <1>1. InOrder(t, n, n) /\ QueuedOnce(t) /\ HeadsHeldOut(t)
    BY WindowKept DEF Sound
  <1>2. ASSUME NEW role \in Roles, NEW set \in ev[role]
        PROVE  set # {} /\ Passed(t, set, n) /\ set # Ids(val)
    <2>1. /\ set # {}
          /\ \/ Passed(s, set, n)
             \/ set = s.fingerprint /\ \E k \in 0 .. Len(s.replay) : set = ValIds(s, k)
      BY DEF Sound, Tracked
    <2>2. CASE Passed(s, set, n)
      BY <2>1, <2>2, PassedDiffers, SameWindow DEF Sound
    <2>3. CASE set = s.fingerprint /\ \E k \in 0 .. Len(s.replay) : set = ValIds(s, k)
      <3>1. PICK k \in 0 .. Len(s.replay) : set = ValIds(s, k)
        BY <2>3
      <3>2. set # ValIds(s, Len(s.replay)) /\ set # Ids(val)
        BY <2>3
      <3>3. InOrder(s, n, n)
        BY DEF Sound
      <3>4. Passed(s, set, n)
        BY <2>1, <3>1, <3>2, <3>3, PrefixPasses
      <3> QED
        BY <2>1, <3>2, <3>4, SameWindow
    <2> QED
      BY <2>1, <2>2, <2>3
  <1>3. Len(s.replay) \in 0 .. Len(s.replay)
    BY QueueParts
  <1>4. Tracked(t, new, n)
    <2> SUFFICES ASSUME NEW role \in Roles, NEW set \in new[role]
                 PROVE  /\ set # {}
                        /\ \/ Passed(t, set, n)
                           \/ set = t.fingerprint /\ \E k \in 0 .. Len(t.replay) : set = ValIds(t, k)
      BY DEF Tracked
    <2>1. set \in ev[role] \/ set = Ids(val)
      <3>1. new[role] \in {{}, ev[role] \cup {Ids(val)}, ev[role]}
        BY DEF Struck
      <3> QED
        BY <3>1
    <2>2. CASE set \in ev[role]
      BY <1>2, <2>2
    <2>3. CASE set = Ids(val)
      BY <1>3, <2>3, SameWindow
    <2> QED
      BY <2>1, <2>2, <2>3
  <1>5. ASSUME NEW role \in Roles
        PROVE  IsFiniteSet(new[role]) /\ t.bad[role] = Cardinality(new[role])
    <2>1. IsFiniteSet(ev[role]) /\ s.bad[role] = Cardinality(ev[role]) /\ s.bad[role] \in Nat
      BY DEF Sound, Counted, Scorer
    <2>2. Ids(val) \notin ev[role]
      BY <1>2
    <2>3. /\ IsFiniteSet(ev[role] \cup {Ids(val)})
          /\ Cardinality(ev[role] \cup {Ids(val)}) = Cardinality(ev[role]) + 1
      BY <2>1, <2>2, FS_AddElement
    <2>4. IsFiniteSet({}) /\ Cardinality({}) = 0
      BY FS_EmptySet
    <2>5. /\ t.bad[role] \in {0, s.bad[role], s.bad[role] + 1}
          /\ new[role] = IF t.bad[role] = 0 THEN {}
                         ELSE IF t.bad[role] # s.bad[role] THEN ev[role] \cup {Ids(val)}
                         ELSE ev[role]
      BY DEF Struck
    <2> QED
      BY <2>1, <2>3, <2>4, <2>5
  <1> QED
    BY <1>1, <1>4, <1>5 DEF Sound, Counted

-----------------------------------------------------------------------------
(* One step.                                                               *)

\* What is queued behind the replay is new, and the replay stays.
LEMMA PrepareStep ==
  ASSUME IInv, NEW records \in Batches, Prepare(records)
  PROVE  IInv'
  <1> DEFINE el == Eligible(records)
             p  == scorer.pending \o el
             t  == scorer'
             a  == Len(scorer.replay)
  <1>1. /\ TypeOK /\ phase = "ready" /\ phase' = "prepared" /\ batch' = batch
        /\ disk' = disk /\ evidence' = evidence /\ batch \in Nat /\ scorer \in Scorer
        /\ Sound(scorer, evidence, batch - 1, batch - 1)
    BY DEF IInv, Prepare, TypeOK, Learnt, Queued
  <1>2. /\ t.replay = scorer.replay /\ t.pending = Newest(p)
        /\ t.candidate = scorer.candidate /\ t.deployed = scorer.deployed
        /\ t.ready = scorer.ready /\ t.allowed = scorer.allowed /\ t.bad = scorer.bad
        /\ t.fingerprint = scorer.fingerprint
        /\ t = [scorer EXCEPT !.pending = Newest(p)]
    BY <1>1 DEF Prepare, Scorer
  <1>3. /\ el \in Seq(Row) /\ \A i \in 1 .. Len(el) : el[i].id[1] = batch
        /\ \A i, j \in 1 .. Len(el) : el[i].id = el[j].id => i = j
    BY <1>1, EligibleRows
  <1> HIDE DEF el
  <1>4. /\ p \in Seq(Row) /\ Len(p) = Len(scorer.pending) + Len(el)
        /\ \A i \in 1 .. Len(scorer.pending) : p[i] = scorer.pending[i]
        /\ \A i \in 1 .. Len(el) : p[Len(scorer.pending) + i] = el[i]
    <2>1. scorer.pending \in Seq(Row)
      BY <1>1, QueueParts
    <2> QED
      BY <1>3, <2>1, Joined
  <1> HIDE DEF p
  <1>5. PICK d \in 0 .. Len(p) :
          /\ Newest(p) \in Seq(Row) /\ Len(Newest(p)) = Len(p) - d
          /\ \A i \in 1 .. Len(p) - d : Newest(p)[i] = p[i + d]
    <2>1. p \in Seq(Row)
      BY <1>4
    <2> QED
      BY <2>1, NewestOf
  <1>6. t \in Scorer
    BY <1>1, <1>2, <1>5 DEF Scorer
  <1> DEFINE old == Queue(scorer)
             new == Queue(t)
             b   == Len(scorer.pending)
             c   == Len(el)
             \* where an entry was: in the old queue, or behind it
             At(i) == IF i <= a THEN i ELSE i + d
  <1>7. /\ a \in Nat /\ b \in Nat /\ c \in Nat /\ d \in Nat /\ d <= b + c
        /\ Len(old) = a + b /\ Len(new) = a + (b + c - d)
    <2>1. a \in Nat /\ b \in Nat /\ Len(old) = a + b
      BY <1>1, QueueParts
    <2>2. c \in Nat /\ Len(p) = b + c
      BY <1>3, <1>4
    <2>3. Len(new) = Len(t.replay) + Len(t.pending)
      BY <1>6, QueueParts
    <2>4. Len(t.replay) = a /\ Len(t.pending) = b + c - d
      BY <1>2, <1>5, <2>2
    <2> HIDE DEF a, b, c, old, new, t
    <2> QED
      BY <2>1, <2>2, <2>3, <2>4
  <1>8. ASSUME NEW i \in 1 .. Len(new)
        PROVE  /\ At(i) \in 1 .. a + b => new[i] = old[At(i)]
               /\ At(i) \notin 1 .. a + b => At(i) - (a + b) \in 1 .. c /\ new[i] = el[At(i) - (a + b)]
    <2>1. CASE i <= a
      <3>1. i \in 1 .. Len(scorer.replay) /\ i \in 1 .. Len(t.replay)
        BY <1>2, <1>7, <2>1
      <3>2. new[i] = t.replay[i] /\ old[i] = scorer.replay[i]
        BY <1>1, <1>6, <3>1, QueueParts
      <3>3. At(i) = i /\ i \in 1 .. a + b
        <4>1. i \in Nat /\ 1 <= i
          BY <1>7
        <4> HIDE DEF a, b, c
        <4> QED
          BY <1>7, <2>1, <4>1
      <3> QED
        BY <1>2, <3>2, <3>3
    <2>2. CASE ~ (i <= a)
      <3> DEFINE k == i - a
      <3>1. /\ k \in 1 .. Len(t.pending) /\ k \in 1 .. Len(p) - d /\ At(i) = a + (k + d)
            /\ Len(t.replay) + k = i /\ k + d \in Nat
        <4>1. i \in 1 .. a + (b + c - d) /\ Len(t.pending) = Len(p) - d /\ Len(p) = b + c /\ Len(t.replay) = a
          BY <1>2, <1>4, <1>5, <1>7
        <4> HIDE DEF a, b, c, t
        <4> QED
          BY <1>7, <2>2, <4>1
      <3>2. new[i] = t.pending[k]
        <4>1. new[Len(t.replay) + k] = t.pending[k]
          BY <1>6, <3>1, QueueParts
        <4> QED
          BY <3>1, <4>1
      <3>3. new[i] = p[k + d]
        BY <1>2, <1>5, <3>1, <3>2
      <3>4. CASE k + d \in 1 .. b
        <4>1. old[a + (k + d)] = scorer.pending[k + d] /\ a + (k + d) \in 1 .. a + b
          BY <1>1, <1>7, <3>4, QueueParts
        <4>2. new[i] = scorer.pending[k + d]
          BY <1>4, <3>3, <3>4
        <4> HIDE DEF a, b, c, k, old, new, At
        <4> QED
          BY <3>1, <4>1, <4>2
      <3>5. CASE k + d \notin 1 .. b
        <4>1. k + d - b \in 1 .. c /\ b + (k + d - b) = k + d
              /\ a + (k + d) \notin 1 .. a + b /\ a + (k + d) - (a + b) = k + d - b
          <5>1. k \in 1 .. Len(p) - d /\ Len(p) = b + c
            BY <1>4, <3>1
          <5> HIDE DEF a, b, c, k
          <5> QED
            BY <1>7, <3>1, <3>5, <5>1
        <4>2. p[b + (k + d - b)] = el[k + d - b]
          BY <1>4, <4>1
        <4>3. p[b + (k + d - b)] = p[k + d]
          BY <4>1
        <4>4. new[i] = el[k + d - b]
          BY <3>3, <4>2, <4>3
        <4> HIDE DEF a, b, c, k, old, new, At
        <4>5. At(i) \notin 1 .. a + b /\ At(i) - (a + b) = k + d - b
          <5>1. At(i) = a + (k + d)
            BY <3>1
          <5>2. a + (k + d) \notin 1 .. a + b /\ a + (k + d) - (a + b) = k + d - b
            BY <4>1
          <5>3. k + d \in Int /\ a \in Int /\ b \in Int
            BY <1>7, <3>1
          <5> QED
            BY <5>1, <5>2, <5>3
        <4> QED
          BY <4>1, <4>4, <4>5
      <3> QED
        BY <3>4, <3>5
    <2> QED
      BY <2>1, <2>2
  <1>9. /\ \A i \in 1 .. a + b : old[i].id \in RowIds /\ old[i].id[1] <= batch - 1
        /\ \A i, j \in 1 .. a + b : old[i].id = old[j].id => i = j
    <2>1. \A i \in 1 .. Len(old) : old[i] \in Row
      BY <1>1, QueueParts, ElementOfSeq
    <2> QED
      BY <1>1, <1>7, <2>1 DEF Sound, InOrder, QueuedOnce, Row
  <1> HIDE DEF a, b, c, old, new, t
  <1>10. \A i \in 1 .. Len(new) : new[i].id[1] <= batch
    <2> TAKE i \in 1 .. Len(new)
    <2>1. CASE At(i) \in 1 .. a + b
      <3>1. old[At(i)].id[1] <= batch - 1 /\ old[At(i)].id[1] \in Nat
        BY <1>9, <2>1 DEF RowIds
      <3> QED
        BY <1>1, <1>8, <2>1, <3>1
    <2>2. CASE At(i) \notin 1 .. a + b
      BY <1>1, <1>3, <1>8, <2>2 DEF c
    <2> QED
      BY <2>1, <2>2
  <1>11. \A i, j \in 1 .. Len(new) : new[i].id = new[j].id => i = j
    <2> SUFFICES ASSUME NEW i \in 1 .. Len(new), NEW j \in 1 .. Len(new), new[i].id = new[j].id
                 PROVE  i = j
      OBVIOUS
    <2>1. At(i) = At(j)
      <3>1. CASE At(i) \in 1 .. a + b /\ At(j) \in 1 .. a + b
        BY <1>8, <1>9, <3>1
      <3>2. CASE At(i) \notin 1 .. a + b /\ At(j) \notin 1 .. a + b
        <4>1. At(i) - (a + b) = At(j) - (a + b)
          BY <1>3, <1>8, <3>2 DEF c
        <4>2. At(i) \in Int /\ At(j) \in Int
          BY <1>7
        <4> HIDE DEF At
        <4> QED
          BY <1>7, <4>1, <4>2
      <3>3. ASSUME NEW x \in 1 .. Len(new), NEW y \in 1 .. Len(new),
                   At(x) \in 1 .. a + b, At(y) \notin 1 .. a + b
            PROVE  new[x].id # new[y].id
        <4>1. new[x].id[1] <= batch - 1 /\ new[x].id[1] \in Nat
          BY <1>8, <1>9, <3>3 DEF RowIds
        <4>2. new[y].id[1] = batch
          BY <1>3, <1>8, <3>3 DEF c
        <4> QED
          BY <1>1, <4>1, <4>2
      <3> QED
        BY <3>1, <3>2, <3>3
    <2> QED
      BY <1>7, <2>1
  <1>12. InOrder(t, batch - 1, batch) /\ QueuedOnce(t) /\ HeadsHeldOut(t)
    <2>1. InOrder(t, batch - 1, batch)
      BY <1>1, <1>2, <1>10 DEF Sound, InOrder, new, t
    <2>2. QueuedOnce(t)
      BY <1>11 DEF QueuedOnce, new
    <2> QED
      BY <1>1, <1>2, <2>1, <2>2 DEF Sound, HeadsHeldOut, t
  <1>13. Tracked(t, evidence, batch)
    <2> SUFFICES ASSUME NEW role \in Roles, NEW set \in evidence[role]
                 PROVE  /\ set # {}
                        /\ \/ Passed(t, set, batch)
                           \/ set = t.fingerprint /\ \E k \in 0 .. Len(t.replay) : set = ValIds(t, k)
      BY DEF Tracked
    <2>1. /\ set # {}
          /\ \/ Passed(scorer, set, batch - 1)
             \/ set = scorer.fingerprint /\ \E k \in 0 .. Len(scorer.replay) : set = ValIds(scorer, k)
      BY <1>1 DEF Sound, Tracked
    <2>2. CASE Passed(scorer, set, batch - 1)
      <3>1. PICK e \in set :
              /\ e[1] <= batch - 1
              /\ \/ \A i \in 1 .. Len(old) : old[i].id # e
                 \/ \E i, j \in 1 .. Len(scorer.replay) :
                      /\ i < j /\ scorer.replay[i].id = e
                      /\ scorer.replay[j].question \in HeldOut /\ scorer.replay[j].id \notin set
        BY <2>2 DEF Passed, old
      <3>2. e[1] <= batch /\ e[1] # batch
        <4>1. e \in RowIds
          BY <1>1 DEF TypeOK, Evidence
        <4>2. e[1] \in Nat
          BY <4>1 DEF RowIds
        <4> QED
          BY <1>1, <3>1, <4>2
      <3>3. ASSUME \A i \in 1 .. Len(old) : old[i].id # e, NEW i \in 1 .. Len(new)
            PROVE  new[i].id # e
        <4>1. CASE At(i) \in 1 .. a + b
          BY <1>7, <1>8, <3>3, <4>1
        <4>2. CASE At(i) \notin 1 .. a + b
          <5>1. new[i].id[1] = batch
            BY <1>3, <1>8, <4>2 DEF c
          <5> QED
            BY <3>2, <5>1
        <4> QED
          BY <4>1, <4>2
      <3>4. Passed(t, set, batch)
        <4>1. \/ \A i \in 1 .. Len(Queue(t)) : Queue(t)[i].id # e
              \/ \E i, j \in 1 .. Len(t.replay) :
                   /\ i < j /\ t.replay[i].id = e
                   /\ t.replay[j].question \in HeldOut /\ t.replay[j].id \notin set
          BY <1>2, <3>1, <3>3 DEF new, t
        <4> QED
          BY <3>2, <4>1 DEF Passed
      <3> QED
        BY <2>1, <3>4
    <2>3. CASE set = scorer.fingerprint /\ \E k \in 0 .. Len(scorer.replay) : set = ValIds(scorer, k)
      <3>1. PICK k \in 0 .. Len(scorer.replay) : set = ValIds(scorer, k)
        BY <2>3
      <3>2. t.replay = scorer.replay /\ t.fingerprint = scorer.fingerprint
        BY <1>2 DEF t
      <3>3. ValIds(scorer, k) = ValIds(t, k)
        BY <3>2 DEF ValIds
      <3> QED
        BY <2>1, <2>3, <3>1, <3>2, <3>3
    <2> QED
      BY <2>1, <2>2, <2>3
  <1>14. Sound(t, evidence, batch - 1, batch)
    <2>1. ReadyIsAllowed(t)
      BY <1>1, <1>2 DEF Sound, ReadyIsAllowed, t
    <2>2. Counted(t, evidence)
      BY <1>1, <1>2 DEF Sound, Counted, t
    <2> QED
      BY <1>12, <1>13, <2>1, <2>2 DEF Sound
  <1>15. served' \in [batch : Nat, newest : Int] /\ ServedBeforeLearnt'
    <2>1. scorer.deployed.newest \in Int /\ scorer.deployed.newest <= batch - 1
      BY <1>1 DEF Scorer, Heads, Sound, InOrder
    <2>2. scorer.deployed.newest < batch
      BY <1>1, <2>1
    <2>3. \/ served' = [batch |-> batch, newest |-> scorer.deployed.newest]
          \/ served' = served
      BY DEF Prepare
    <2>4. CASE served' = [batch |-> batch, newest |-> scorer.deployed.newest]
      BY <1>1, <2>1, <2>2, <2>4 DEF ServedBeforeLearnt
    <2>5. CASE served' = served
      BY <2>5 DEF IInv, TypeOK, ServedBeforeLearnt
    <2> QED
      BY <2>3, <2>4, <2>5
  <1>16. TypeOK'
    BY <1>1, <1>6, <1>15 DEF TypeOK, t
  <1>17. Learnt' = batch - 1 /\ Queued' = batch
    BY <1>1 DEF Learnt, Queued
  <1> QED
    BY <1>1, <1>14, <1>15, <1>16, <1>17 DEF IInv, t

\* The batch is learnt and the heads are evaluated.
LEMMA UpdateStep ==
  ASSUME IInv, NEW good \in SUBSET Roles, NEW worse \in SUBSET Roles, NEW fit \in SUBSET Roles,
         Update(good, worse, fit)
  PROVE  IInv'
  <1> DEFINE s   == Ingested
             val == ValRows(s.replay)
             t   == scorer'
             ids == Ids(val)
  <1>1. /\ TypeOK /\ phase = "prepared" /\ phase' = "updated" /\ batch' = batch
        /\ disk' = disk /\ served' = served /\ batch \in Nat /\ scorer \in Scorer
        /\ evidence \in Evidence
        /\ Sound(scorer, evidence, batch - 1, batch)
    BY DEF IInv, Update, TypeOK, Learnt, Queued
  <1>2. Sound(s, evidence, batch, batch)
    BY <1>1, IngestedSound
  <1>3. /\ s \in Scorer /\ val \in SUBSET Row /\ ids = ValIds(s, Len(s.replay))
    BY <1>1, IngestedFields DEF Sound
  <1>4. /\ t = IF Enough(TrainRows(s.replay), val) THEN ValidateDeploy(s, val, good, worse, fit)
               ELSE IF DisableWhenInsufficient THEN Withdraw(s)
               ELSE s
        /\ \A role \in Roles :
             evidence'[role] =
               IF t.version # s.version \/ t.bad[role] = 0 THEN {}
               ELSE IF t.bad[role] # s.bad[role] THEN evidence[role] \cup {ids}
               ELSE evidence[role]
        /\ DOMAIN evidence' = Roles /\ evidence' = [role \in Roles |-> evidence'[role]]
    BY DEF Update, EvidenceAfter
  <1>5. ids \in SUBSET RowIds
    BY <1>3 DEF Ids, Row
  <1>6. Enough(TrainRows(s.replay), val) => ids # {}
    <2>1. Enough(TrainRows(s.replay), val) => Cardinality(val) >= MinVal
      BY DEF Enough
    <2>2. MinVal \in Nat \ {0} /\ Cardinality({}) = 0
      BY BoundsAssumption, FS_EmptySet
    <2>3. ids = {row.id : row \in val}
      BY DEF Ids
    <2> HIDE DEF val, ids
    <2>4. Enough(TrainRows(s.replay), val) => val # {}
      BY <2>1, <2>2
    <2> QED
      BY <2>3, <2>4
  <1>7. ReadyIsAllowed(s) /\ s.version \in Nat /\ s.bad \in [Roles -> Nat]
    BY <1>2, <1>3 DEF Sound, Scorer
  <1> HIDE DEF s, val, t, ids
  <1>8. t \in Scorer /\ Sound(t, evidence', batch, batch)
    <2>1. CASE t = Deploy(s, good) /\ good # {}
      <3>1. t.version = s.version + 1
        BY <1>3, <2>1 DEF Deploy, Scorer
      <3>2. evidence' = [role \in Roles |-> {}]
        BY <1>4, <1>7, <3>1
      <3> QED
        BY <1>2, <1>3, <2>1, <3>2, Deploying
    <2>2. ASSUME t \in Scorer, t.replay = s.replay, t.pending = s.pending,
                 t.candidate = s.candidate, t.deployed = s.deployed, t.version = s.version,
                 t.bad = s.bad, t.fingerprint = s.fingerprint, ReadyIsAllowed(t)
          PROVE  t \in Scorer /\ Sound(t, evidence', batch, batch)
      <3>1. \A role \in Roles : evidence'[role] = IF t.bad[role] = 0 THEN {} ELSE evidence[role]
        BY <1>4, <2>2
      <3> QED
        BY <1>1, <1>2, <1>3, <2>2, <3>1, Withdrawing
    <2>3. CASE t = s
      BY <1>3, <1>7, <2>2, <2>3
    <2>4. CASE t = Withdraw(s)
      <3>1. /\ t.replay = s.replay /\ t.pending = s.pending
            /\ t.candidate = s.candidate /\ t.deployed = s.deployed /\ t.version = s.version
            /\ t.bad = s.bad /\ t.fingerprint = s.fingerprint
            /\ t.ready = FALSE /\ t.allowed = {} /\ t \in Scorer
        BY <1>3, <2>4 DEF Withdraw, Scorer
      <3>2. ReadyIsAllowed(t)
        BY <3>1 DEF ReadyIsAllowed
      <3> QED
        BY <2>2, <3>1, <3>2
    <2>5. CASE t = Judge(s, val, fit) /\ Enough(TrainRows(s.replay), val)
      <3> DEFINE bad  == [role \in Roles |->
                            IF ~ IsNews(s, val) \/ role \notin s.allowed THEN s.bad[role]
                            ELSE IF role \in fit THEN 0 ELSE s.bad[role] + 1]
                 left == s.allowed \ {role \in s.allowed : IsNews(s, val) /\ bad[role] >= Patience}
      <3>1. t = [s EXCEPT !.bad = bad, !.allowed = left, !.fingerprint = ids, !.ready = left # {}]
        BY <2>5 DEF Judge, ids
      <3>2. bad \in [Roles -> Nat]
        BY <1>7
      <3>3. \A role \in Roles :
              bad[role] = IF ~ IsNews(s, val) \/ role \notin s.allowed THEN s.bad[role]
                          ELSE IF role \in fit THEN 0 ELSE s.bad[role] + 1
        OBVIOUS
      <3>4. left \in SUBSET Roles
        BY <1>3 DEF Scorer
      <3> HIDE DEF bad, left
      <3>5. /\ t.replay = s.replay /\ t.pending = s.pending
            /\ t.candidate = s.candidate /\ t.deployed = s.deployed /\ t.version = s.version
            /\ t.bad = bad /\ t.fingerprint = ids /\ t.allowed = left
        BY <1>3, <3>1 DEF Scorer
      <3>6. t.ready = (left # {})
        BY <1>3, <3>1 DEF Scorer
      <3>7. t \in Scorer
        <4>1. ids \in SUBSET (RowIds \cup {"none"}) /\ (left # {}) \in BOOLEAN
          BY <1>5
        <4> QED
          BY <1>3, <3>1, <3>2, <3>4, <4>1 DEF Scorer
      <3>8. ReadyIsAllowed(t)
        BY <3>5, <3>6 DEF ReadyIsAllowed
      <3>9. CASE IsNews(s, val)
        <4>1. ids # s.fingerprint
          BY <3>9 DEF IsNews, ids
        <4>2. \A role \in Roles : t.bad[role] \in {0, s.bad[role], s.bad[role] + 1}
          BY <3>3, <3>5
        <4>3. \A role \in Roles :
                evidence'[role] = IF t.bad[role] = 0 THEN {}
                                  ELSE IF t.bad[role] # s.bad[role] THEN evidence[role] \cup {ids}
                                  ELSE evidence[role]
          BY <1>4, <3>5
        <4>4. Ids(val) = ValIds(s, Len(s.replay)) /\ Ids(val) # {} /\ Ids(val) = ids
          BY <1>3, <1>6, <2>5 DEF ids
        <4>5. Struck(s, t, evidence, evidence', Ids(val))
          BY <4>2, <4>3, <4>4 DEF Struck
        <4>6. /\ t.replay = s.replay /\ t.pending = s.pending
              /\ t.candidate = s.candidate /\ t.deployed = s.deployed
              /\ Ids(val) # s.fingerprint /\ t.fingerprint = Ids(val)
          BY <3>5, <4>1, <4>4
        <4>7. Sound(t, evidence', batch, batch)
          BY <1>1, <1>2, <1>3, <3>7, <3>8, <4>4, <4>5, <4>6, Judging
        <4> QED
          BY <3>7, <4>7
      <3>10. CASE ~ IsNews(s, val)
        <4>1. ids = s.fingerprint
          BY <3>10 DEF IsNews, ids
        <4>2. \A role \in Roles : bad[role] = s.bad[role]
          BY <3>3, <3>10
        <4>3. bad = s.bad
          BY <1>7, <3>2, <4>2
        <4>4. t.bad = s.bad /\ t.fingerprint = s.fingerprint
          BY <3>5, <4>1, <4>3
        <4>5. /\ t \in Scorer /\ t.replay = s.replay /\ t.pending = s.pending
              /\ t.candidate = s.candidate /\ t.deployed = s.deployed /\ t.version = s.version
              /\ t.bad = s.bad /\ t.fingerprint = s.fingerprint /\ ReadyIsAllowed(t)
          BY <3>5, <3>7, <3>8, <4>4
        <4> QED
          BY <2>2, <4>5
      <3> QED
        BY <3>9, <3>10
    <2> QED
      BY <1>4, <2>1, <2>3, <2>4, <2>5 DEF ValidateDeploy
  <1>9. evidence' \in Evidence
    <2>1. \A role \in Roles : evidence'[role] \in SUBSET SUBSET RowIds
      <3> TAKE role \in Roles
      <3>1. evidence'[role] \in {{}, evidence[role] \cup {ids}, evidence[role]}
        BY <1>4
      <3>2. evidence[role] \in SUBSET SUBSET RowIds
        BY <1>1 DEF Evidence
      <3> QED
        BY <1>5, <3>1, <3>2
    <2> QED
      BY <1>4, <2>1 DEF Evidence
  <1>10. Learnt' = batch /\ Queued' = batch
    BY <1>1 DEF Learnt, Queued
  <1>11. TypeOK'
    BY <1>1, <1>8, <1>9 DEF TypeOK, t
  <1>12. ServedBeforeLearnt'
    BY <1>1 DEF IInv, ServedBeforeLearnt
  <1> QED
    BY <1>1, <1>8, <1>10, <1>11, <1>12 DEF IInv, t

\* A batch may be learnt later, or not at all.
LEMMA Later ==
  ASSUME NEW s \in Scorer, NEW ev, NEW n \in Int, NEW m \in Int, n <= m, Sound(s, ev, n, m)
  PROVE  Sound(s, ev, m, m)
  <1>1. InOrder(s, n, m)
    BY DEF Sound
  <1>2. s.candidate.newest \in Int /\ s.deployed.newest \in Int
    BY DEF Scorer, Heads
  <1>3. \A i \in 1 .. Len(s.replay) : s.replay[i].id[1] <= m
    <2> TAKE i \in 1 .. Len(s.replay)
    <2>1. i \in 1 .. Len(Queue(s)) /\ Queue(s)[i] = s.replay[i]
      BY QueueParts
    <2> QED
      BY <1>1, <2>1 DEF InOrder
  <1>4. InOrder(s, m, m)
    BY <1>1, <1>2, <1>3 DEF InOrder
  <1> QED
    BY <1>4 DEF Sound

\* An empty queue holds nothing and an untouched scorer is not struck.
LEMMA FreshSound ==
  ASSUME NEW s \in Scorer, s.pending = <<>>, s.replay = <<>>, ReadyIsAllowed(s), HeadsHeldOut(s),
         (\A role \in Roles : s.bad[role] = 0), NEW n,
         s.candidate.newest <= n, s.deployed.newest <= n,
         NEW ev, ev = [role \in Roles |-> {}]
  PROVE  Sound(s, ev, n, n)
  <1>1. Len(s.replay) = 0 /\ Len(Queue(s)) = 0
    <2>1. Len(s.replay) = 0 /\ Len(s.pending) = 0
      OBVIOUS
    <2>2. Len(Queue(s)) = Len(s.replay) + Len(s.pending)
      BY QueueParts
    <2> QED
      BY <2>1, <2>2
  <1>2. InOrder(s, n, n) /\ QueuedOnce(s)
    BY <1>1 DEF InOrder, QueuedOnce
  <1>3. Tracked(s, ev, n) /\ Counted(s, ev)
    BY FS_EmptySet DEF Tracked, Counted
  <1> QED
    BY <1>2, <1>3 DEF Sound

\* A scorer that has neither queued nor judged anything.
LEMMA FreshTyped ==
  ASSUME NEW c \in Heads, NEW h \in Heads
  PROVE  /\ Fresh(c, h) \in Scorer
         /\ Fresh(c, h).candidate = c /\ Fresh(c, h).deployed = h
         /\ Fresh(c, h).pending = <<>> /\ Fresh(c, h).replay = <<>>
         /\ ReadyIsAllowed(Fresh(c, h))
         /\ (\A role \in Roles : Fresh(c, h).bad[role] = 0)
  <1>1. /\ Fresh(c, h).candidate = c /\ Fresh(c, h).deployed = h
        /\ Fresh(c, h).pending = <<>> /\ Fresh(c, h).replay = <<>>
        /\ ReadyIsAllowed(Fresh(c, h))
        /\ (\A role \in Roles : Fresh(c, h).bad[role] = 0)
    BY DEF Fresh, ReadyIsAllowed
  <1>2. Fresh(c, h) \in Scorer
    <2>1. <<>> \in Seq(Row) /\ NoFingerprint \in SUBSET (RowIds \cup {"none"})
          /\ [role \in Roles |-> 0] \in [Roles -> Nat]
      BY DEF NoFingerprint
    <2> QED
      BY <2>1 DEF Fresh, Scorer
  <1> QED
    BY <1>1, <1>2

\* A scorer that knows nothing.
LEMMA NothingKnown ==
  ASSUME NEW ev, ev = [role \in Roles |-> {}]
  PROVE  /\ Fresh(Untrained, Untrained) \in Scorer
         /\ ev \in Evidence
         /\ Sound(Fresh(Untrained, Untrained), ev, -1, -1)
  <1> DEFINE f == Fresh(Untrained, Untrained)
  <1>1. Untrained \in Heads /\ Untrained.newest = -1 /\ Untrained.questions = {}
    BY DEF Untrained, Heads
  <1>2. /\ f \in Scorer /\ f.candidate = Untrained /\ f.deployed = Untrained
        /\ f.pending = <<>> /\ f.replay = <<>> /\ ReadyIsAllowed(f)
        /\ (\A role \in Roles : f.bad[role] = 0)
    BY <1>1, FreshTyped
  <1> HIDE DEF f
  <1>3. HeadsHeldOut(f)
    BY <1>1, <1>2 DEF HeadsHeldOut
  <1>4. f.candidate.newest <= -1 /\ f.deployed.newest <= -1
    BY <1>1, <1>2
  <1>5. Sound(f, ev, -1, -1)
    BY <1>2, <1>3, <1>4, FreshSound
  <1> QED
    BY <1>2, <1>5 DEF f, Evidence

\* A cold or warm start keeps the invariant.
LEMMA StartFreshStep == IInv /\ StartFresh => IInv'
  <1> SUFFICES ASSUME IInv, StartFresh PROVE IInv'
    OBVIOUS
  <1> DEFINE t == scorer'
  <1>1. /\ TypeOK /\ disk = NoCheckpoint /\ disk' = disk /\ served' = served
        /\ batch' = 1 /\ phase' = "ready" /\ evidence' = [role \in Roles |-> {}]
    BY DEF IInv, StartFresh
  <1>2. PretrainedHead \in Heads /\ Untrained \in Heads /\ PretrainedHead.newest = 0 /\ Untrained.newest = -1
    BY HeldOutAssumption DEF PretrainedHead, Untrained, Heads
  <1>3. PretrainedHead.questions \cap HeldOut = {} /\ Untrained.questions = {}
    BY HeldOutAssumption DEF PretrainedHead, Untrained
  <1>4. ASSUME NEW c \in Heads, NEW h \in Heads
        PROVE  /\ Fresh(c, h) \in Scorer
               /\ Fresh(c, h).candidate = c /\ Fresh(c, h).deployed = h
               /\ Fresh(c, h).pending = <<>> /\ Fresh(c, h).replay = <<>>
               /\ ReadyIsAllowed(Fresh(c, h))
               /\ (\A role \in Roles : Fresh(c, h).bad[role] = 0)
    BY FreshTyped
  <1>5. ASSUME NEW s \in Pretrained
        PROVE  \E good \in SUBSET Roles :
                 /\ s.candidate = PretrainedHead
                 /\ s.deployed = IF good = {} THEN Untrained ELSE PretrainedHead
                 /\ s.ready = (good # {}) /\ s.allowed = good
                 /\ s.version = IF good = {} THEN 0 ELSE 1
    BY <1>5 DEF Pretrained, Fresh
  <1>6. /\ t \in Scorer /\ t.pending = <<>> /\ t.replay = <<>> /\ ReadyIsAllowed(t)
        /\ HeadsHeldOut(t) /\ (\A role \in Roles : t.bad[role] = 0)
        /\ t.candidate.newest <= 0 /\ t.deployed.newest <= 0
    <2>1. CASE t = Fresh(Untrained, Untrained)
      BY <1>2, <1>3, <1>4, <2>1 DEF ReadyIsAllowed, HeadsHeldOut
    <2>2. ASSUME NEW s \in Pretrained, Loadable(s, FALSE), t = Qualified(s)
          PROVE  /\ t \in Scorer /\ t.pending = <<>> /\ t.replay = <<>> /\ ReadyIsAllowed(t)
                 /\ HeadsHeldOut(t) /\ (\A role \in Roles : t.bad[role] = 0)
                 /\ t.candidate.newest <= 0 /\ t.deployed.newest <= 0
      <3>1. PICK good \in SUBSET Roles :
              /\ s.candidate = PretrainedHead
              /\ s.deployed = IF good = {} THEN Untrained ELSE PretrainedHead
              /\ s.ready = (good # {}) /\ s.allowed = good
              /\ s.version = IF good = {} THEN 0 ELSE 1
        BY <1>5
      <3>2. /\ s.deployed \in Heads /\ s.deployed.newest <= 0
            /\ s.deployed.questions \cap HeldOut = {}
            /\ s.version \in Nat
        BY <1>2, <1>3, <3>1
      <3> DEFINE f == Fresh(s.deployed, s.deployed)
      <3>3. /\ f \in Scorer /\ f.candidate = s.deployed /\ f.deployed = s.deployed
            /\ f.pending = <<>> /\ f.replay = <<>> /\ (\A role \in Roles : f.bad[role] = 0)
        BY <1>4, <3>2
      <3>4. s.pretrained \in BOOLEAN
        BY DEF Pretrained, Fresh
      <3>5. t = [f EXCEPT !.ready = s.ready, !.pretrained = s.pretrained,
                          !.version = s.version, !.allowed = s.allowed]
        BY <2>2 DEF Qualified
      <3>6. s.ready \in BOOLEAN /\ s.allowed \in SUBSET Roles
        BY <3>1
      <3> HIDE DEF f, t
      <3>7. t \in Scorer
        BY <3>2, <3>3, <3>4, <3>5, <3>6 DEF Scorer
      <3>8. /\ t.candidate = s.deployed /\ t.deployed = s.deployed
            /\ t.pending = <<>> /\ t.replay = <<>> /\ (\A role \in Roles : t.bad[role] = 0)
            /\ t.ready = s.ready /\ t.allowed = s.allowed
        BY <3>3, <3>5 DEF Scorer
      <3>9. ReadyIsAllowed(t)
        BY <2>2, <3>8 DEF ReadyIsAllowed, Loadable
      <3>10. HeadsHeldOut(t)
        BY <3>2, <3>8 DEF HeadsHeldOut
      <3> QED
        BY <3>2, <3>7, <3>8, <3>9, <3>10
    <2>3. ASSUME NEW s \in Pretrained, t = WarmStarted(s)
          PROVE  /\ t \in Scorer /\ t.pending = <<>> /\ t.replay = <<>> /\ ReadyIsAllowed(t)
                 /\ HeadsHeldOut(t) /\ (\A role \in Roles : t.bad[role] = 0)
                 /\ t.candidate.newest <= 0 /\ t.deployed.newest <= 0
      <3>1. t = Fresh(PretrainedHead, Untrained)
        BY <1>5, <2>3 DEF WarmStarted
      <3> QED
        BY <1>2, <1>3, <1>4, <3>1 DEF ReadyIsAllowed, HeadsHeldOut
    <2> QED
      BY <2>1, <2>2, <2>3 DEF StartFresh
  <1> HIDE DEF t
  <1>7. Sound(t, evidence', 0, 0)
    BY <1>1, <1>6, FreshSound
  <1>8. Learnt' = 0 /\ Queued' = 0
    BY <1>1 DEF Learnt, Queued
  <1>9. TypeOK'
    <2>1. evidence' \in Evidence
      BY <1>1 DEF Evidence
    <2> QED
      BY <1>1, <1>6, <2>1 DEF TypeOK, t
  <1> QED
    BY <1>1, <1>7, <1>8, <1>9 DEF IInv, ServedBeforeLearnt, t

\* A resumed scorer is the saved one.
LEMMA ResumedSame == ASSUME NEW s \in Scorer PROVE Resumed(s) = s
  <1> DEFINE t == Resumed(s)
             Field == {"candidate", "deployed", "step", "version", "pending", "replay", "ready",
                       "allowed", "bad", "fingerprint", "pretrained"}
  <1>1. /\ t.candidate = s.candidate /\ t.deployed = s.deployed /\ t.step = s.step
        /\ t.version = s.version /\ t.pending = s.pending /\ t.replay = s.replay
        /\ t.ready = s.ready /\ t.allowed = s.allowed /\ t.bad = s.bad
        /\ t.fingerprint = s.fingerprint /\ t.pretrained = s.pretrained
    BY DEF Resumed, Fresh
  <1>2. DOMAIN t = Field /\ DOMAIN s = Field
    BY DEF Resumed, Fresh, Scorer
  <1>3. \A x \in Field : t[x] = s[x]
    BY <1>1
  <1>4. t = [x \in Field |-> t[x]] /\ s = [x \in Field |-> s[x]]
    BY <1>2 DEF Resumed, Fresh, Scorer
  <1> QED
    BY <1>3, <1>4

\* A restart takes up a scorer for which it was shown.
LEMMA ResumeStep == IInv /\ Resume => IInv'
  <1> SUFFICES ASSUME IInv, Resume PROVE IInv'
    OBVIOUS
  <1>1. /\ TypeOK /\ disk # NoCheckpoint /\ disk' = disk /\ served' = served
        /\ scorer' = Resumed(disk.scorer) /\ batch' = disk.batch + 1 /\ phase' = "ready"
        /\ evidence' = disk.evidence
        /\ Sound(disk.scorer, disk.evidence, disk.batch, disk.batch)
    BY DEF IInv, Resume
  <1>2. disk \in Saved
    BY <1>1 DEF TypeOK
  <1>3. scorer' = disk.scorer /\ disk.scorer \in Scorer /\ disk.batch \in Nat
        /\ disk.evidence \in Evidence
    BY <1>1, <1>2, ResumedSame DEF Saved
  <1>4. Learnt' = disk.batch /\ Queued' = disk.batch
    BY <1>1, <1>3 DEF Learnt, Queued
  <1>5. TypeOK'
    BY <1>1, <1>3 DEF TypeOK
  <1> QED
    BY <1>1, <1>3, <1>4, <1>5 DEF IInv, ServedBeforeLearnt

\* Before the warm-up ends the scored batch is dropped.
LEMMA SkipUpdateStep == IInv /\ SkipUpdate => IInv'
  <1> SUFFICES ASSUME IInv, SkipUpdate PROVE IInv'
    OBVIOUS
  <1>1. /\ TypeOK /\ phase = "prepared" /\ phase' = "updated" /\ batch \in Nat /\ scorer \in Scorer
        /\ UNCHANGED <<scorer, batch, disk, served, evidence>>
        /\ Sound(scorer, evidence, batch - 1, batch)
    BY DEF IInv, SkipUpdate, TypeOK, Learnt, Queued
  <1>2. Sound(scorer, evidence, batch, batch)
    <2>1. batch - 1 \in Int /\ batch \in Int /\ batch - 1 <= batch
      BY <1>1
    <2> QED
      BY <1>1, <2>1, Later
  <1>3. Learnt' = batch /\ Queued' = batch
    BY <1>1 DEF Learnt, Queued
  <1>4. TypeOK'
    BY <1>1 DEF TypeOK
  <1> QED
    BY <1>1, <1>2, <1>3, <1>4 DEF IInv, ServedBeforeLearnt

\* The saved scorer is the running one.
LEMMA SaveStep == IInv /\ Save => IInv'
  <1> SUFFICES ASSUME IInv, Save PROVE IInv'
    OBVIOUS
  <1>1. /\ TypeOK /\ phase = "updated"
        /\ disk' = [batch |-> batch, scorer |-> scorer, evidence |-> evidence]
        /\ UNCHANGED <<scorer, batch, phase, served, evidence>>
        /\ Sound(scorer, evidence, batch, batch)
    BY DEF IInv, Save, Learnt, Queued
  <1>2. /\ disk'.scorer = scorer /\ disk'.evidence = evidence /\ disk'.batch = batch
        /\ disk' \in Saved
    BY <1>1 DEF Saved, TypeOK
  <1>3. TypeOK'
    BY <1>1, <1>2 DEF TypeOK
  <1>4. Learnt' = batch /\ Queued' = batch
    BY <1>1 DEF Learnt, Queued
  <1> QED
    BY <1>1, <1>2, <1>3, <1>4 DEF IInv, ServedBeforeLearnt

\* The next batch changes nothing the invariant speaks of.
LEMMA NextBatchStep == IInv /\ NextBatch => IInv'
  <1> SUFFICES ASSUME IInv, NextBatch PROVE IInv'
    OBVIOUS
  <1>1. /\ TypeOK /\ phase = "updated" /\ phase' = "ready" /\ batch' = batch + 1 /\ batch \in Nat
        /\ UNCHANGED <<scorer, disk, served, evidence>>
        /\ Sound(scorer, evidence, batch, batch)
    BY DEF IInv, NextBatch, TypeOK, Learnt, Queued
  <1>2. Learnt' = batch /\ Queued' = batch
    BY <1>1 DEF Learnt, Queued
  <1>3. TypeOK'
    BY <1>1 DEF TypeOK
  <1> QED
    BY <1>1, <1>2, <1>3 DEF IInv, ServedBeforeLearnt

\* It holds before the first start.
LEMMA Initially == Init => IInv
  <1> SUFFICES ASSUME Init PROVE IInv
    OBVIOUS
  <1>1. /\ scorer = Fresh(Untrained, Untrained) /\ batch = 0 /\ phase = "off"
        /\ disk = NoCheckpoint /\ served = [batch |-> 0, newest |-> -1]
        /\ evidence = [role \in Roles |-> {}]
    BY DEF Init
  <1>2. scorer \in Scorer /\ evidence \in Evidence /\ Sound(scorer, evidence, -1, -1)
    BY <1>1, NothingKnown
  <1>3. Learnt = -1 /\ Queued = -1
    BY <1>1 DEF Learnt, Queued
  <1>4. TypeOK
    BY <1>1, <1>2 DEF TypeOK
  <1> QED
    BY <1>1, <1>2, <1>3, <1>4 DEF IInv, ServedBeforeLearnt

\* A crash loses the running scorer, not the saved one.
LEMMA CrashStep == IInv /\ Crash => IInv'
  <1> SUFFICES ASSUME IInv, Crash PROVE IInv'
    OBVIOUS
  <1>1. /\ scorer' = Fresh(Untrained, Untrained) /\ batch' = 0 /\ phase' = "off"
        /\ disk' = disk /\ served' = [batch |-> 0, newest |-> -1]
        /\ evidence' = [role \in Roles |-> {}]
    BY DEF Crash
  <1>2. scorer' \in Scorer /\ evidence' \in Evidence /\ Sound(scorer', evidence', -1, -1)
    BY <1>1, NothingKnown
  <1>3. Learnt' = -1 /\ Queued' = -1
    BY <1>1 DEF Learnt, Queued
  <1>4. TypeOK'
    BY <1>1, <1>2 DEF TypeOK, IInv
  <1> QED
    BY <1>1, <1>2, <1>3, <1>4 DEF IInv, ServedBeforeLearnt

\* The invariant is inductive.
LEMMA Inductive == IInv /\ [Next]_vars => IInv'
  <1> SUFFICES ASSUME IInv, [Next]_vars PROVE IInv'
    OBVIOUS
  <1>1. CASE StartFresh
    BY <1>1, StartFreshStep
  <1>2. CASE Resume
    BY <1>2, ResumeStep
  <1>3. CASE \E records \in Batches : Prepare(records)
    BY <1>3, PrepareStep
  <1>4. CASE \E good, worse, fit \in SUBSET Roles : Update(good, worse, fit)
    BY <1>4, UpdateStep
  <1>5. CASE SkipUpdate
    BY <1>5, SkipUpdateStep
  <1>6. CASE Save
    BY <1>6, SaveStep
  <1>7. CASE NextBatch
    BY <1>7, NextBatchStep
  <1>8. CASE Crash
    BY <1>8, CrashStep
  <1>9. CASE UNCHANGED vars
    BY <1>9 DEF vars, IInv, TypeOK, Learnt, Queued, ServedBeforeLearnt
  <1> QED
    BY <1>1, <1>2, <1>3, <1>4, <1>5, <1>6, <1>7, <1>8, <1>9 DEF Next

-----------------------------------------------------------------------------
(* The scorer, the queue and what is counted against the heads agree in    *)
(* every reachable state, crashes and resumptions included.                *)
THEOREM Invariance == Spec => []IInv
  <1>1. Init => IInv
    BY Initially
  <1>2. IInv /\ [Next]_vars => IInv'
    BY Inductive
  <1> QED
    BY <1>1, <1>2, PTL DEF Spec

(* Types of the variables, in every reachable state.                       *)
THEOREM TypeCorrect == Spec => []TypeOK
  <1>1. IInv => TypeOK
    BY DEF IInv
  <1> QED
    BY <1>1, Invariance, PTL

(* A batch is trained with the predictions of a head that has seen none of *)
(* its labels: prepare() scores with what update() left of earlier ones.   *)
THEOREM ScoredBlind == Spec => []ServedBeforeLearnt
  <1>1. IInv => ServedBeforeLearnt
    BY DEF IInv
  <1> QED
    BY <1>1, Invariance, PTL

(* A head in use has not been trained on the questions that judge it: the  *)
(* candidate never is, and a deployed head is an earlier candidate.        *)
THEOREM JudgedOnHeldOut == Spec => []DeployedIsHeldOut
  <1>1. IInv => DeployedIsHeldOut
    BY DEF IInv, Sound, HeadsHeldOut, DeployedIsHeldOut
  <1> QED
    BY <1>1, Invariance, PTL

(* A strike is one held-out set: the sliding replay never comes back to a  *)
(* set it was judged on before the last one, so that comparing with the    *)
(* last fingerprint is enough.                                             *)
THEOREM StrikesCounted == Spec => []StrikesAreEvidence
  <1>1. IInv => StrikesAreEvidence
    BY DEF IInv, Sound, Counted, StrikesAreEvidence
  <1> QED
    BY <1>1, Invariance, PTL

(* No step deploys a head that takes a permission away.                    *)
THEOREM QualificationKept == Spec => DeployKeepsQualified
  <1>1. TypeOK /\ [Next]_vars => [QualifiedKept]_vars
    <2> SUFFICES ASSUME TypeOK, Next, Deployed, scorer.ready
                 PROVE  scorer.allowed \subseteq scorer'.allowed
      BY DEF QualifiedKept
    <2>1. phase = "prepared" /\ phase' = "updated" /\ scorer'.version # scorer.version
      BY DEF Deployed
    <2>2. PICK good \in SUBSET Roles, worse \in SUBSET Roles, fit \in SUBSET Roles :
            Update(good, worse, fit)
      BY <2>1 DEF Next, StartFresh, Resume, Prepare, SkipUpdate, Save, NextBatch, Crash
    <2> DEFINE s   == Ingested
               val == ValRows(s.replay)
    <2>3. /\ s.version = scorer.version /\ s.ready = scorer.ready /\ s.allowed = scorer.allowed
      BY DEF Ingested, TypeOK, Scorer
    <2>4. \/ scorer' = ValidateDeploy(s, val, good, worse, fit)
          \/ scorer' = Withdraw(s) \/ scorer' = s
      BY <2>2 DEF Update
    <2>5. s = [scorer EXCEPT !.step = scorer.step + 1, !.pending = <<>>, !.replay = s.replay,
                             !.candidate = s.candidate]
      BY DEF Ingested, TypeOK, Scorer
    <2> HIDE DEF s, val
    <2>6. Withdraw(s).version = s.version
      BY <2>5 DEF Withdraw, TypeOK, Scorer
    <2>7. Judge(s, val, fit).version = s.version
      BY <2>5 DEF Judge, TypeOK, Scorer
    <2>8. scorer' = Deploy(s, good) /\ good # {} /\ Preserve(s, good, worse)
      BY <2>1, <2>3, <2>4, <2>6, <2>7 DEF ValidateDeploy
    <2>9. scorer'.allowed = good
      BY <2>5, <2>8 DEF Deploy, TypeOK, Scorer
    <2> QED
      BY <2>3, <2>8, <2>9 DEF Preserve
  <1> QED
    BY <1>1, TypeCorrect, PTL DEF Spec, DeployKeepsQualified

(* What is saved can be resumed, and is resumed as it was.                 *)
THEOREM ResumedExactly == Spec => ResumeIsExact
  <1>1. IInv /\ [Next]_vars => [SavesLoadable /\ ResumeSame]_vars
    <2> SUFFICES ASSUME IInv, Next PROVE SavesLoadable /\ ResumeSame
      OBVIOUS
    <2>1. SavesLoadable
      <3> SUFFICES ASSUME disk' # disk PROVE Loadable(disk'.scorer, TRUE)
        BY DEF SavesLoadable
      <3>1. Save
        BY DEF Next, StartFresh, Resume, Prepare, Update, SkipUpdate, NextBatch, Crash
      <3>2. disk'.scorer = scorer
        BY <3>1 DEF Save
      <3>3. ReadyIsAllowed(scorer)
        BY DEF IInv, Sound
      <3> QED
        BY <3>2, <3>3 DEF ReadyIsAllowed, Loadable
    <2>2. ResumeSame
      <3> SUFFICES ASSUME phase = "off", phase' = "ready", disk # NoCheckpoint
                   PROVE  scorer' = disk.scorer
        BY DEF ResumeSame
      <3>1. Resume
        BY DEF Next, StartFresh, Prepare, Update, SkipUpdate, Save, NextBatch, Crash
      <3>2. disk.scorer \in Scorer
        BY DEF IInv, TypeOK, Saved
      <3> QED
        BY <3>1, <3>2, ResumedSame DEF Resume
    <2> QED
      BY <2>1, <2>2
  <1> QED
    BY <1>1, Invariance, PTL DEF Spec, ResumeIsExact

=============================================================================
