--------------------------- MODULE TeamEventProofs ---------------------------
(***************************************************************************)
(* Proofs about the two halves of Team Event GAE: about OptimizerSchedule  *)
(* for any number of events and ranks, any number of mini-batches and      *)
(* epochs, any micro-batch sizes, and whatever equal shares of the rows    *)
(* the balancing gives the ranks; and about TeamEventCredit for any group, *)
(* length of chains, keys, priors and discounts.                           *)
(***************************************************************************)
EXTENDS TeamEventCredit, OptimizerSchedule, FiniteSetTheorems, SequenceTheorems,
        WellFoundedInduction, TLAPS

Phases == {"rollout", "adjust", "schedule", "update", "updated", "raised"}

Position == [op : Collectives \cup {"validate", "done"}, epoch : Nat, mini : Nat, micro : Nat]

StepsOf(S) == [rows : [S -> Nat], weights : [S -> SUBSET Nat], minis : SUBSET Nat]

-----------------------------------------------------------------------------
(* The inductive invariant.  What must be true of a finished update is     *)
(* true of every optimizer step already taken, because all ranks are in    *)
(* the mini-batch that the step count says; they are, because the slices   *)
(* of the layout give every rank as many micro-batches as any other.       *)

TypeOK ==
  /\ config \in Configs /\ phase \in Phases
  /\ IF phase = "rollout" THEN events = {} ELSE \E n \in 1 .. MaxEvents : events = 1 .. n
  /\ rank \in [Ranks -> Position] /\ waiting \subseteq Ranks
  /\ steps \in Seq(StepsOf(events))

\* The batch the driver schedules has the adjusted size, and its weights are
\* one over the multiplicities.
Adjusted ==
  phase = "schedule" =>
    batch \in Repeated(events, AdjustedSize(Cardinality(events))) /\ weight = batch

\* What every scheduled layout has in common: no mini-batch without an event,
\* every rank as many rows of each mini-batch as any other, and every row of
\* an event on some rank.
FairShares(g, slices, rows, share, size) ==
  /\ g \in [events -> Minis]
  /\ \A mini \in Minis : \E e \in events : g[e] = mini
  /\ rows \in [events -> Positive]
  /\ share \in [Ranks -> [events -> Nat]]
  /\ \A r \in Ranks, mini \in Minis : RowCount(share[r], Members(g, mini)) = size
  /\ \A e \in events : RowCount([r \in Ranks |-> share[r][e]], Ranks) = rows[e]
  /\ slices = Layout(share, g, rows)

Scheduled ==
  phase \in {"update", "updated"} =>
    \E rows, share, size : FairShares(groups, layout, rows, share, size)

Start == [Idle EXCEPT !.op = "normalizer"]

\* Ranks that have passed their checks stand at the same place, and as long
\* as one has not, at the very first collective.
LockStep ==
  /\ \A r, q \in Ranks : rank[r].op # "validate" /\ rank[q].op # "validate" => rank[r] = rank[q]
  /\ \A r, q \in Ranks : rank[r].op = "validate" => rank[q] \in {Idle, Start}
  /\ \A r \in waiting : rank[r].op \in Collectives

\* The optimizer steps before a position.
Count(at) == IF at.op = "done" THEN PpoEpochs * NumMinis ELSE at.epoch * NumMinis + at.mini

\* The steps taken so far are those before the ranks' position.
Counted ==
  \A r \in Ranks :
    rank[r].epoch \in 0 .. PpoEpochs - 1 /\ rank[r].mini \in Minis /\ Len(steps) = Count(rank[r])

\* Step i summed every event of its mini-batch with weight one, and no other.
SumsItsMini(i) ==
  \A e \in events :
    IF groups[e] = (i - 1) % NumMinis
    THEN steps[i].rows[e] > 0 /\ steps[i].weights[e] = {steps[i].rows[e]}
    ELSE steps[i].rows[e] = 0

Learnt ==
  /\ phase \in {"rollout", "adjust", "schedule", "raised"} => \A r \in Ranks : rank[r] = Idle
  /\ phase = "updated" => \A r \in Ranks : rank[r].op = "done"
  /\ phase \in {"update", "updated"} => \A i \in 1 .. Len(steps) : SumsItsMini(i)

IInv ==
  TypeOK /\ Adjusted /\ Scheduled /\ LockStep /\ Counted /\ Learnt /\ RaisesOnlyWhenTooFew

\* No rank is left behind: as long as an update is under way, some rank can
\* validate or enter its collective, or all wait in the same one, or the
\* driver can collect.
SomeoneCanMove ==
  phase = "update" =>
    \/ \E r \in Ranks : rank[r].op = "validate"
    \/ \E r \in Ranks : rank[r].op \in Collectives /\ r \notin waiting
    \/ waiting = Ranks /\ \A r, q \in Ranks : rank[r] = rank[q]
    \/ \A r \in Ranks : rank[r].op = "done"

-----------------------------------------------------------------------------
(* Numbers.                                                                *)
\* Division with a remainder.
LEMMA DivMod ==
  ASSUME NEW a \in Nat, NEW b \in Positive
  PROVE  a \div b \in Nat /\ a % b \in 0 .. b - 1 /\ a = b * (a \div b) + (a % b)
  BY DEF Positive

\* A product of natural numbers grows with its factors.
LEMMA Products ==
  ASSUME NEW a \in Nat, NEW b \in Nat, NEW c \in Nat
  PROVE  a * b \in Nat /\ a * b = b * a /\ (a >= 1 /\ b >= 1 => a * b >= 1)
         /\ (a <= c => a * b <= c * b) /\ (a + c) * b = a * b + c * b
         /\ (a * b) * c = a * (b * c)
  OBVIOUS

\* Quotient and remainder are unique.
LEMMA Cell ==
  ASSUME NEW K \in Positive, NEW r \in Nat, NEW m \in 0 .. K - 1
  PROVE  r * K + m \in Nat /\ (r * K + m) \div K = r /\ (r * K + m) % K = m
  <1> DEFINE a == r * K + m
  <1>0. a \in Nat
    BY Products DEF Positive
  <1> DEFINE q == a \div K
             n == a % K
  <1>1. q \in Nat /\ n \in 0 .. K - 1 /\ a = K * q + n
    BY <1>0, DivMod
  <1>2. K \in Nat /\ K >= 1
    BY DEF Positive
  <1> HIDE DEF q, n
  <1>3. a = q * K + n
    BY <1>1, <1>2, Products
  <1>4. ASSUME q < r PROVE FALSE
    <2>1. (q + 1) * K <= r * K /\ (q + 1) * K = q * K + K
      BY <1>4, <1>1, <1>2, Products
    <2> QED
      BY <2>1, <1>3, <1>1, <1>2, Products
  <1>5. ASSUME r < q PROVE FALSE
    <2>1. (r + 1) * K <= q * K /\ (r + 1) * K = r * K + K
      BY <1>5, <1>1, <1>2, Products
    <2> QED
      BY <2>1, <1>3, <1>1, <1>2, Products
  <1>6. q = r
    BY <1>4, <1>5, <1>1
  <1>7. n = m
    <2>1. r * K \in Nat /\ a = r * K + m /\ a = r * K + n
      BY <1>6, <1>3, <1>2, Products
    <2> QED
      BY <2>1, <1>1, <1>2
  <1> QED
    BY <1>0, <1>6, <1>7 DEF q, n

\* A multiple leaves nothing over.
LEMMA Whole ==
  ASSUME NEW K \in Positive, NEW r \in Nat
  PROVE  r * K \in Nat /\ (r * K) \div K = r /\ (r * K) % K = 0
  BY Cell, Products, 0 \in 0 .. K - 1, r * K + 0 = r * K DEF Positive

\* Every non-empty set of natural numbers has a least member.
LEMMA LeastNatural ==
  ASSUME NEW S \in SUBSET Nat, S # {}
  PROVE  \E m \in S : \A n \in S : m <= n
  <1> DEFINE T == {0 .. n : n \in S}
  <1>1. ASSUME NEW n \in S PROVE IsFiniteSet(0 .. n) /\ 0 .. n \in SUBSET Nat
    BY FS_Interval
  <1>2. T \subseteq FiniteSubsetsOf(Nat) /\ T # {}
    BY <1>1 DEF FiniteSubsetsOf
  <1>3. PICK x \in T : \A y \in T : ~ (<<y, x>> \in StrictSubsetOrdering(Nat))
    BY <1>2, WFMin, FS_StrictSubsetOrderingWellFounded
  <1>4. PICK m \in S : x = 0 .. m
    BY <1>3
  <1>5. ASSUME NEW n \in S, n < m PROVE FALSE
    <2>1. 0 .. n \subseteq 0 .. m /\ m \in 0 .. m /\ m \notin 0 .. n
      BY <1>5
    <2>2. 0 .. n \in SUBSET Nat /\ 0 .. m \in SUBSET Nat
      BY <1>1
    <2>3. <<0 .. n, 0 .. m>> \in StrictSubsetOrdering(Nat)
      BY <2>1, <2>2 DEF StrictSubsetOrdering
    <2> QED
      BY <1>3, <1>4, <2>3
  <1> QED
    BY <1>5

\* A non-empty bounded set of natural numbers has a greatest member.
LEMMA Greatest ==
  ASSUME NEW b \in Nat, NEW S \in SUBSET (0 .. b), S # {}
  PROVE  Max(S) \in S /\ \A x \in S : x <= Max(S)
  <1> DEFINE T == {b - x : x \in S}
  <1>1. \A x \in S : b - x \in Nat
    OBVIOUS
  <1>2. PICK m \in T : \A n \in T : m <= n
    <2>1. T \in SUBSET Nat /\ T # {}
      BY <1>1
    <2> HIDE DEF T
    <2> QED
      BY <2>1, LeastNatural
  <1>3. PICK x \in S : m = b - x
    BY <1>2
  <1>4. \A y \in S : x >= y
    BY <1>2, <1>3
  <1>5. Max(S) \in S /\ \A y \in S : Max(S) >= y
    BY <1>3, <1>4 DEF Max
  <1> QED
    BY <1>5

\* The least common multiple is a common multiple.
LEMMA CommonMultiple ==
  ASSUME NEW a \in Positive, NEW b \in Positive
  PROVE  Lcm(a, b) \in Positive /\ Lcm(a, b) % a = 0 /\ Lcm(a, b) % b = 0
  <1> DEFINE T == {m \in 1 .. a * b : m % a = 0 /\ m % b = 0}
  <1>1. a * b \in Nat /\ a * b >= 1 /\ (a * b) % b = 0 /\ (a * b) % a = 0
    BY Products, Whole DEF Positive
  <1>2. T \in SUBSET Nat /\ a * b \in T
    BY <1>1
  <1>3. PICK m \in T : \A n \in T : m <= n
    BY <1>2, LeastNatural
  <1>4. ASSUME NEW k \in 1 .. m - 1, k % a = 0, k % b = 0 PROVE FALSE
    <2>1. k \in T
      BY <1>4, <1>3, <1>1
    <2> QED
      BY <2>1, <1>3, <1>4
  <1>5. /\ Lcm(a, b) \in 1 .. a * b
        /\ Lcm(a, b) % a = 0 /\ Lcm(a, b) % b = 0
    BY <1>3, <1>4 DEF Lcm
  <1> QED
    BY <1>5, <1>1 DEF Positive

\* A number rounded up to whole parts is covered by them.
LEMMA Ceiling ==
  ASSUME NEW a \in Nat, NEW b \in Positive
  PROVE  CeilDiv(a, b) \in Nat /\ CeilDiv(a, b) * b >= a /\ (a >= 1 => CeilDiv(a, b) >= 1)
  <1> DEFINE c == a + b - 1
             q == c \div b
  <1>1. c \in Nat /\ b \in Nat /\ b >= 1
    BY DEF Positive
  <1>2. q \in Nat /\ c % b \in 0 .. b - 1 /\ c = b * q + (c % b)
    BY <1>1, DivMod
  <1>3. CeilDiv(a, b) = q
    BY DEF CeilDiv
  <1> HIDE DEF q
  <1>4. q * b = b * q /\ b * q \in Nat
    BY <1>1, <1>2, Products
  <1>5. q * b >= a
    BY <1>1, <1>2, <1>4
  <1>6. q = 0 => q * b = 0
    BY <1>1
  <1> QED
    BY <1>2, <1>3, <1>5, <1>6

-----------------------------------------------------------------------------
(* Rows.                                                                   *)
\* No event has a row: there is none.
LEMMA NoRows ==
  ASSUME NEW f, NEW S, \A e \in S : f[e] = 0
  PROVE  RowCount(f, S) = 0
  <1>1. \A e \in S : {e} \X (1 .. f[e]) = {}
    OBVIOUS
  <1>2. UNION {{e} \X (1 .. f[e]) : e \in S} = {}
    BY <1>1
  <1> QED
    BY <1>2, FS_EmptySet DEF RowCount

\* If there is a row, some event has one.
LEMMA SomeRow ==
  ASSUME NEW f, NEW S, \A e \in S : f[e] \in Nat, RowCount(f, S) # 0
  PROVE  \E e \in S : f[e] > 0
  <1>1. CASE \A e \in S : f[e] = 0
    BY <1>1, NoRows
  <1>2. CASE \E e \in S : f[e] # 0
    BY <1>2
  <1> QED
    BY <1>1, <1>2

\* Counts of rows only look at the events counted.
LEMMA SameRows ==
  ASSUME NEW f, NEW h, NEW S, \A e \in S : f[e] = h[e]
  PROVE  RowCount(f, S) = RowCount(h, S)
  <1>1. {{e} \X (1 .. f[e]) : e \in S} = {{e} \X (1 .. h[e]) : e \in S}
    OBVIOUS
  <1> QED
    BY <1>1 DEF RowCount

\* What the configuration of a worker group says.
LEMMA Sizes ==
  ASSUME config \in Configs
  PROVE  /\ NumMinis \in Positive /\ PpoEpochs \in Positive /\ MicroBatch \in Positive
         /\ LogProbMicroBatch \in Positive /\ WorldSize \in Positive /\ 0 \in Ranks /\ 0 \in Minis
         /\ Ranks \subseteq Nat /\ Minis \subseteq Nat
  BY SizesAssumption DEF NumMinis, PpoEpochs, MicroBatch, LogProbMicroBatch, Ranks, Minis, Positive

\* The events of a rollout.
LEMMA EventCount ==
  ASSUME NEW n \in 1 .. MaxEvents, events = 1 .. n
  PROVE  Cardinality(events) = n /\ n \in Nat /\ n >= 1 /\ IsFiniteSet(events) /\ events # {}
  <1>1. n \in Nat /\ n >= 1 /\ 1 \in 1 .. n
    BY SizesAssumption DEF Positive
  <1>2. Cardinality(1 .. n) = n /\ IsFiniteSet(1 .. n)
    BY <1>1, FS_Interval
  <1> QED
    BY <1>1, <1>2

-----------------------------------------------------------------------------
(* The layout.                                                             *)
\* What equal shares of the rows are.
LEMMA SharesOf ==
  ASSUME NEW g, NEW rows, NEW share \in RankShares(rows, g), NEW S, NEW b \in Nat,
         DOMAIN rows = S, S # {}, \A e \in S : rows[e] \in 0 .. b
  PROVE  /\ share \in [Ranks -> [S -> Nat]]
         /\ \A r \in Ranks, mini \in Minis :
              RowCount(share[r], Members(g, mini)) = RowCount(rows, Members(g, mini)) \div WorldSize
         /\ \A e \in S : RowCount([r \in Ranks |-> share[r][e]], Ranks) = rows[e]
  <1> DEFINE size == [mini \in Minis |-> RowCount(rows, Members(g, mini)) \div WorldSize]
             T    == {rows[e] : e \in S}
             most == Max(T)
             one  == {s \in [S -> 0 .. most] :
                        \A mini \in Minis : RowCount(s, Members(g, mini)) = size[mini]}
  <1>1. /\ share \in [Ranks -> one]
        /\ \A e \in S : RowCount([r \in Ranks |-> share[r][e]], Ranks) = rows[e]
    BY DEF RankShares
  <1>2. T \in SUBSET (0 .. b) /\ T # {}
    OBVIOUS
  <1>3. most \in 0 .. b
    <2> HIDE DEF T
    <2> QED
      BY <1>2, Greatest
  <1> HIDE DEF most
  <1>4. \A s \in one : s \in [S -> Nat]
    BY <1>3
  <1>5. \A s \in one, mini \in Minis :
          RowCount(s, Members(g, mini)) = RowCount(rows, Members(g, mini)) \div WorldSize
    OBVIOUS
  <1> HIDE DEF one
  <1> QED
    BY <1>1, <1>4, <1>5

\* The slice of rank r and a mini-batch in the chunk that r receives.
LEMMA SliceOf ==
  ASSUME config \in Configs, NEW rows, NEW share, NEW size, FairShares(groups, layout, rows, share, size),
         NEW r \in Ranks, NEW mini \in Minis
  PROVE  Local(r)[mini + 1] =
           [mini |-> mini, rows |-> [e \in Members(groups, mini) |-> share[r][e]], weight |-> rows]
  <1>1. /\ NumMinis \in Positive /\ WorldSize \in Positive /\ r \in Nat /\ mini \in Nat
        /\ r <= WorldSize - 1 /\ mini \in 0 .. NumMinis - 1 /\ mini + 1 \in 1 .. NumMinis
        /\ mini + 1 <= NumMinis
    <2>1. NumMinis \in Positive /\ WorldSize \in Positive
      BY Sizes
    <2> QED
      BY <2>1 DEF Ranks, Minis, Positive
  <1> DEFINE i == r * NumMinis + (mini + 1)
             a == r * NumMinis + mini
  <1>2. r * NumMinis \in Nat /\ WorldSize * NumMinis \in Nat
        /\ (r + 1) * NumMinis <= WorldSize * NumMinis /\ (r + 1) * NumMinis = r * NumMinis + NumMinis
    <2>1. NumMinis \in Nat /\ WorldSize \in Nat /\ r + 1 \in Nat /\ r + 1 <= WorldSize
      BY <1>1 DEF Positive
    <2>2. (r + 1) * NumMinis = r * NumMinis + NumMinis
      BY <1>1, <2>1
    <2> QED
      BY <1>1, <2>1, <2>2, Products
  <1>3. i \in 1 .. WorldSize * NumMinis /\ i - 1 = a
    <2> DEFINE p == r * NumMinis
               t == WorldSize * NumMinis
    <2>1. p \in Nat /\ t \in Nat /\ p + NumMinis <= t /\ NumMinis \in Nat
      BY <1>1, <1>2 DEF Positive
    <2> HIDE DEF p, t
    <2>2. p + (mini + 1) \in 1 .. t /\ (p + (mini + 1)) - 1 = p + mini
      BY <1>1, <2>1
    <2> QED
      BY <2>2 DEF p, t
  <1>4. a \div NumMinis = r /\ a % NumMinis = mini
    BY <1>1, Cell
  <1> HIDE DEF i, a
  <1>5. SliceAt(i) = [rank |-> r, mini |-> mini]
    BY <1>3, <1>4 DEF SliceAt
  <1>6. layout[i] = [mini |-> mini, rows |-> [e \in Members(groups, mini) |-> share[r][e]], weight |-> rows]
    BY <1>3, <1>5 DEF FairShares, Layout
  <1>7. Local(r)[mini + 1] = layout[i]
    BY <1>1 DEF Local, i
  <1> QED
    BY <1>6, <1>7

\* Every slice has the same number of rows.
LEMMA SlicesAreEqual ==
  ASSUME config \in Configs, NEW rows, NEW share, NEW size, FairShares(groups, layout, rows, share, size)
  PROVE  /\ \A r \in Ranks, mini \in Minis : SliceSize(Local(r)[mini + 1]) = size
         /\ LocalMiniSize = size
  <1>1. ASSUME NEW r \in Ranks, NEW mini \in Minis PROVE SliceSize(Local(r)[mini + 1]) = size
    <2> DEFINE S == Members(groups, mini)
               f == [e \in S |-> share[r][e]]
    <2>1. Local(r)[mini + 1] = [mini |-> mini, rows |-> f, weight |-> rows]
      BY SliceOf
    <2>2. SliceSize(Local(r)[mini + 1]) = RowCount(f, S)
      BY <2>1 DEF SliceSize
    <2>3. \A e \in S : f[e] = share[r][e]
      OBVIOUS
    <2> HIDE DEF f
    <2>4. RowCount(f, S) = RowCount(share[r], S)
      BY <2>3, SameRows
    <2> QED
      BY <2>2, <2>4 DEF FairShares
  <1>2. Local(0)[0 + 1] = layout[1]
    <2>1. NumMinis \in Nat /\ 1 \in 1 .. NumMinis /\ 0 * NumMinis + 1 = 1
      BY Sizes DEF Positive
    <2> QED
      BY <2>1 DEF Local
  <1> QED
    BY <1>1, <1>2, Sizes DEF LocalMiniSize

\* A rank finds nothing to complain about in a fair share.
LEMMA NeverRaises ==
  ASSUME config \in Configs, NEW rows, NEW share, NEW size, FairShares(groups, layout, rows, share, size),
         NEW r \in Ranks
  PROVE  ~ LocalRaises(r)
  <1>0. NumMinis \in Nat /\ \A i \in 1 .. NumMinis : i - 1 \in Minis /\ (i - 1) + 1 = i /\ i \in Nat
    BY Sizes DEF Minis, Positive
  <1> DEFINE Slice(mini) ==
        [mini |-> mini, rows |-> [e \in Members(groups, mini) |-> share[r][e]], weight |-> rows]
  <1>1. \A i \in 1 .. NumMinis : Local(r)[i] = Slice(i - 1)
    <2> TAKE i \in 1 .. NumMinis
    <2>1. i - 1 \in Minis /\ (i - 1) + 1 = i
      BY <1>0
    <2> DEFINE mini == i - 1
    <2> HIDE DEF mini
    <2>2. Local(r)[mini + 1] = Slice(mini)
      BY <2>1, SliceOf DEF mini
    <2> QED
      BY <2>1, <2>2 DEF mini
  <1>2. \A i \in 1 .. NumMinis : SliceSize(Local(r)[i]) = LocalMiniSize
    <2> TAKE i \in 1 .. NumMinis
    <2>1. i - 1 \in Minis /\ (i - 1) + 1 = i
      BY <1>0
    <2> DEFINE mini == i - 1
    <2> HIDE DEF mini
    <2>2. SliceSize(Local(r)[mini + 1]) = LocalMiniSize
      BY <2>1, SlicesAreEqual DEF mini
    <2> QED
      BY <2>1, <2>2 DEF mini
  <1>3. \A mini : Slice(mini).mini = mini /\ Present(Slice(mini)) \subseteq Members(groups, mini)
    BY DEF Present
  <1> HIDE DEF Slice
  <1>4. \A i \in 1 .. NumMinis :
          Local(r)[i].mini = i - 1 /\ Present(Local(r)[i]) \subseteq Members(groups, i - 1)
    BY <1>1, <1>3
  <1>5. \A i, j \in 1 .. NumMinis : i # j => Members(groups, i - 1) \cap Members(groups, j - 1) = {}
    BY <1>0 DEF Members
  <1>6. \A i, j \in 1 .. NumMinis : i # j => Present(Local(r)[i]) \cap Present(Local(r)[j]) = {}
    BY <1>4, <1>5
  <1> QED
    BY <1>2, <1>4, <1>6 DEF LocalRaises

-----------------------------------------------------------------------------
(* The driver.                                                             *)
\* The size the rows are padded to divides over the ranks and their
\* micro-batches, and holds every event.
LEMMA AdjustedSizeDivides ==
  ASSUME config \in Configs, NEW n \in Nat
  PROVE  /\ AdjustedSize(n) \in Nat /\ AdjustedSize(n) >= n
         /\ AdjustedSize(n) % WorldSize = 0
         /\ (AdjustedSize(n) \div WorldSize) % MicroBatch = 0
  <1> DEFINE a == LogProbMicroBatch * WorldSize
             b == MicroBatch * WorldSize
             D == Lcm(a, b)
             c == CeilDiv(n, D)
             d == D \div b
  <1>1. /\ LogProbMicroBatch \in Nat /\ MicroBatch \in Nat /\ WorldSize \in Nat
        /\ LogProbMicroBatch >= 1 /\ MicroBatch >= 1 /\ WorldSize >= 1
        /\ MicroBatch \in Positive /\ WorldSize \in Positive
    BY Sizes DEF Positive
  <1>2. a \in Positive /\ b \in Positive
    BY <1>1, Products DEF Positive
  <1> HIDE DEF a, b
  <1>3. D \in Positive /\ D % b = 0
    BY <1>2, CommonMultiple
  <1> HIDE DEF D
  <1>4. D \in Nat /\ d \in Nat /\ D = b * d
    <2>1. D \in Nat
      BY <1>3 DEF Positive
    <2>2. d \in Nat /\ D = b * d + (D % b)
      BY <2>1, <1>2, DivMod
    <2>3. b \in Nat
      BY <1>2 DEF Positive
    <2> HIDE DEF d
    <2>4. b * d \in Nat
      BY <2>2, <2>3, Products
    <2> QED
      BY <2>1, <2>2, <2>4, <1>3
  <1>5. c \in Nat /\ c * D >= n /\ c * D \in Nat
    BY <1>3, <1>4, Ceiling, Products
  <1> HIDE DEF d, c
  <1> DEFINE e == (c * d) * MicroBatch
  <1>6. e \in Nat /\ c * D = e * WorldSize
    <2>1. c * d \in Nat
      BY <1>4, <1>5, Products
    <2>2. b \in Nat /\ b * d = d * b
      BY <1>2, <1>4, Products DEF Positive
    <2>3. c * (d * b) = (c * d) * b
      BY <1>4, <1>5, <2>2, Products
    <2>4. (c * d) * (MicroBatch * WorldSize) = ((c * d) * MicroBatch) * WorldSize
      BY <1>1, <2>1, Products
    <2>5. e \in Nat
      BY <1>1, <2>1, Products
    <2> QED
      BY <1>4, <2>2, <2>3, <2>4, <2>5 DEF b
  <1>7. (e * WorldSize) % WorldSize = 0 /\ (e * WorldSize) \div WorldSize = e
    BY <1>1, <1>6, Whole
  <1>8. e % MicroBatch = 0
    <2>1. c * d \in Nat
      BY <1>4, <1>5, Products
    <2> QED
      BY <1>1, <2>1, Whole
  <1>9. AdjustedSize(n) = c * D
    BY DEF AdjustedSize, SizeDivisor, c, D, a, b
  <1> HIDE DEF e
  <1> QED
    BY <1>5, <1>6, <1>7, <1>8, <1>9

\* Rows of the batch: some of every event.
LEMMA RepeatedRows ==
  ASSUME config \in Configs, NEW S, NEW n \in Nat, n >= 1, Cardinality(S) = n,
         NEW rows \in Repeated(S, AdjustedSize(n))
  PROVE  /\ rows \in [S -> Positive] /\ DOMAIN rows = S
         /\ RowCount(rows, S) = AdjustedSize(n)
         /\ \E b \in Nat : \A e \in S : rows[e] \in 0 .. b
  <1> DEFINE size == AdjustedSize(n)
             q    == size \div n
  <1>1. size \in Nat /\ size >= n
    BY AdjustedSizeDivides
  <1> HIDE DEF size
  <1>2. q \in Nat /\ size % n \in 0 .. n - 1 /\ size = n * q + (size % n)
    <2>1. n \in Positive
      BY DEF Positive
    <2> QED
      BY <1>1, <2>1, DivMod
  <1>3. rows \in [S -> {q, q + 1}] /\ RowCount(rows, S) = size
    BY DEF Repeated, size
  <1> HIDE DEF q
  <1>4. q >= 1
    <2> SUFFICES ASSUME q = 0 PROVE FALSE
      BY <1>2
    <2>1. n * q = 0
      OBVIOUS
    <2> QED
      BY <2>1, <1>1, <1>2
  <1>5. \A e \in S : rows[e] \in Positive /\ rows[e] \in 0 .. q + 1
    BY <1>2, <1>3, <1>4 DEF Positive
  <1>6. q + 1 \in Nat
    BY <1>2
  <1> QED
    BY <1>3, <1>5, <1>6 DEF size

\* One mini-batch: the padded batch is always scheduled, in fair shares.
LEMMA KeptFairly ==
  ASSUME TypeOK, Adjusted, phase = "schedule", KeepRows
  PROVE  phase' = "update" /\ \E rows, share, size : FairShares(groups', layout', rows, share, size)
  <1>1. PICK n \in 1 .. MaxEvents : events = 1 .. n
    BY DEF TypeOK
  <1>2. Cardinality(events) = n /\ n \in Nat /\ n >= 1 /\ events # {}
    BY <1>1, EventCount
  <1>3. config \in Configs /\ batch \in Repeated(events, AdjustedSize(n)) /\ weight = batch
    BY <1>2 DEF TypeOK, Adjusted
  <1>4. /\ batch \in [events -> Positive] /\ DOMAIN batch = events
        /\ RowCount(batch, events) = AdjustedSize(n)
    BY <1>2, <1>3, RepeatedRows
  <1>5. PICK b \in Nat : \A e \in events : batch[e] \in 0 .. b
    BY <1>2, <1>3, RepeatedRows
  <1>6. AdjustedSize(n) % WorldSize = 0 /\ (AdjustedSize(n) \div WorldSize) % MicroBatch = 0
    BY <1>2, <1>3, AdjustedSizeDivides
  <1>7. /\ NumMinis = 1 /\ groups' = [e \in events |-> 0]
        /\ phase' = "update" /\ \E share \in RankShares(batch, groups') : layout' = Layout(share, groups', weight)
    BY <1>4, <1>6 DEF KeepRows
  <1>8. PICK share \in RankShares(batch, groups') : layout' = Layout(share, groups', weight)
    BY <1>7
  <1>9. /\ share \in [Ranks -> [events -> Nat]]
        /\ \A r \in Ranks, mini \in Minis :
             RowCount(share[r], Members(groups', mini)) = RowCount(batch, Members(groups', mini)) \div WorldSize
        /\ \A e \in events : RowCount([r \in Ranks |-> share[r][e]], Ranks) = batch[e]
    BY <1>2, <1>4, <1>5, SharesOf
  <1>10. Minis = {0}
    BY <1>7 DEF Minis
  <1>11. groups' \in [events -> Minis] /\ \A mini \in Minis : \E e \in events : groups'[e] = mini
    BY <1>7, <1>10, <1>2
  <1> DEFINE size == RowCount(batch, Members(groups', 0)) \div WorldSize
  <1>12. \A r \in Ranks, mini \in Minis : RowCount(share[r], Members(groups', mini)) = size
    BY <1>9, <1>10
  <1> HIDE DEF size
  <1> QED
    BY <1>3, <1>4, <1>7, <1>8, <1>9, <1>11, <1>12 DEF FairShares

\* K mini-batches: a batch with an event for each is always scheduled, in
\* fair shares.
LEMMA RepackedFairly ==
  ASSUME TypeOK, phase = "schedule", Repack, Cardinality(events) >= NumMinis
  PROVE  phase' = "update" /\ \E rows, share, size : FairShares(groups', layout', rows, share, size)
  <1>1. PICK n \in 1 .. MaxEvents : events = 1 .. n
    BY DEF TypeOK
  <1>2. Cardinality(events) = n /\ n \in Nat /\ n >= 1 /\ events # {}
    BY <1>1, EventCount
  <1>3. config \in Configs /\ NumMinis \in Nat /\ n >= NumMinis
    BY <1>2, Sizes DEF TypeOK, Positive
  <1>4a. PICK g \in Groupings(events) :
          \E rows \in PaddedRows(g) : \E share \in RankShares(rows, g) :
            groups' = g /\ phase' = "update" /\ layout' = Layout(share, g, rows)
    BY <1>2, <1>3 DEF Repack, MassIsOne, InverseMultiplicity
  <1>4b. PICK rows \in PaddedRows(g) : \E share \in RankShares(rows, g) :
          groups' = g /\ phase' = "update" /\ layout' = Layout(share, g, rows)
    BY <1>4a
  <1>4. PICK share \in RankShares(rows, g) :
          groups' = g /\ phase' = "update" /\ layout' = Layout(share, g, rows)
    BY <1>4b
  <1>6. /\ g \in [events -> Minis] /\ DOMAIN g = events
        /\ \A mini \in Minis : Cardinality({e \in events : g[e] = mini}) = GroupSize(n, mini)
    BY <1>2 DEF Groupings
  <1>7. ASSUME NEW mini \in Minis PROVE \E e \in events : g[e] = mini
    <2>1. mini \in Nat /\ n - mini \in Nat /\ n - mini >= 1
      BY <1>2, <1>3 DEF Minis
    <2> DEFINE m == n - mini
    <2>2. m \in Nat /\ m >= 1
      BY <2>1
    <2> HIDE DEF m
    <2>3. CeilDiv(m, NumMinis) >= 1
      BY <2>2, <1>3, Ceiling, Sizes
    <2>4. GroupSize(n, mini) >= 1
      BY <2>3 DEF GroupSize, m
    <2>5. {e \in events : g[e] = mini} # {}
      BY <2>4, <1>6, FS_EmptySet
    <2> QED
      BY <2>5
  <1> DEFINE target == TargetRows(n)
  <1>8. target \in Nat
    <2>1. 0 \in Minis /\ GroupSize(n, 0) \in Nat
      <3>1. n - 0 = n
        BY <1>2
      <3> QED
        BY <1>2, <1>3, <3>1, Ceiling, Sizes DEF GroupSize
    <2> DEFINE s == GroupSize(n, 0)
               w == WorldSize * MicroBatch
               c == CeilDiv(s, w)
    <2>2. WorldSize \in Nat /\ MicroBatch \in Nat /\ WorldSize >= 1 /\ MicroBatch >= 1
      BY <1>3, Sizes DEF Positive
    <2>3. w \in Positive
      BY <2>2, Products DEF Positive
    <2> HIDE DEF s
    <2>4. c \in Nat
      <3> HIDE DEF w
      <3> QED
        BY <2>1, <2>3, Ceiling DEF s
    <2> HIDE DEF c
    <2>5. (c * WorldSize) * MicroBatch \in Nat
      BY <2>2, <2>4, Products
    <2> QED
      BY <2>5 DEF TargetRows, c, s, w
  <1>9. /\ rows \in [events -> 1 .. target]
        /\ \A mini \in Minis : RowCount(rows, Members(g, mini)) = target
    BY <1>2, <1>6 DEF PaddedRows
  <1> HIDE DEF target
  <1>10. /\ rows \in [events -> Positive] /\ DOMAIN rows = events
         /\ \A e \in events : rows[e] \in 0 .. target
    BY <1>8, <1>9 DEF Positive
  <1>11. /\ share \in [Ranks -> [events -> Nat]]
         /\ \A r \in Ranks, mini \in Minis :
              RowCount(share[r], Members(g, mini)) = RowCount(rows, Members(g, mini)) \div WorldSize
         /\ \A e \in events : RowCount([r \in Ranks |-> share[r][e]], Ranks) = rows[e]
    BY <1>2, <1>8, <1>10, SharesOf
  <1> DEFINE size == target \div WorldSize
  <1>12. \A r \in Ranks, mini \in Minis : RowCount(share[r], Members(g, mini)) = size
    BY <1>9, <1>11
  <1> HIDE DEF size
  <1> QED
    BY <1>4, <1>6, <1>7, <1>10, <1>11, <1>12 DEF FairShares

\* A layout stays fair while configuration and events stay the same.
LEMMA StaysFair ==
  ASSUME config' = config, events' = events, NEW CONSTANT rows, NEW CONSTANT share, NEW CONSTANT size,
         FairShares(groups', layout', rows, share, size)
  PROVE  FairShares(groups, layout, rows, share, size)'
  BY DEF FairShares, Layout, SliceAt, NumMinis, Minis, Members

-----------------------------------------------------------------------------
(* The ranks.                                                              *)
\* Ranks at one position go on to one position, and count one step more only
\* when they have taken one.
LEMMA AdvanceTogether ==
  ASSUME config \in Configs, NEW rows, NEW share, NEW size,
         FairShares(groups, layout, rows, share, size),
         NEW at \in Position, \A r \in Ranks : rank[r] = at,
         at.op \in Collectives, at.epoch \in 0 .. PpoEpochs - 1, at.mini \in Minis
  PROVE  \E to \in Position :
           /\ \A r \in Ranks : Advance(r) = to
           /\ to.op # "validate" /\ to.epoch \in 0 .. PpoEpochs - 1 /\ to.mini \in Minis
           /\ Count(to) = Count(at) + (IF at.op = "step" THEN 1 ELSE 0)
  <1> DEFINE micros == CeilDiv(size, MicroBatch)
             to == IF at.op = "normalizer" THEN [at EXCEPT !.op = "backward"]
                   ELSE IF at.op = "backward"
                   THEN IF at.micro + 1 < micros THEN [at EXCEPT !.micro = @ + 1] ELSE [at EXCEPT !.op = "metrics"]
                   ELSE IF at.op = "metrics" THEN [at EXCEPT !.op = "step"] ELSE NextMini(at)
  <1>1. \A r \in Ranks : Micros(r) = micros
    BY SlicesAreEqual DEF Micros
  <1> HIDE DEF micros
  <1>2. \A r \in Ranks : Advance(r) = to
    BY <1>1 DEF Advance
  <1>3. /\ NumMinis \in Nat /\ NumMinis >= 1 /\ PpoEpochs \in Nat /\ PpoEpochs >= 1
        /\ at.epoch \in Nat /\ at.mini \in Nat /\ at.mini <= NumMinis - 1 /\ at.epoch <= PpoEpochs - 1
        /\ at.micro \in Nat
    BY Sizes DEF Positive, Minis, Position
  <1>4. CASE at.op \in {"normalizer", "backward", "metrics"}
    <2>1. /\ to \in Position /\ to.op \in Collectives /\ to.op # "validate" /\ to.op # "done"
          /\ to.epoch = at.epoch /\ to.mini = at.mini
      BY <1>3, <1>4 DEF Position, Collectives
    <2> HIDE DEF to
    <2>2. Count(to) = Count(at) /\ Count(at) = Count(at) + 0
      <3> DEFINE p == at.epoch * NumMinis
      <3>1. p \in Nat
        BY <1>3, Products
      <3>2. Count(at) = p + at.mini /\ Count(to) = p + at.mini
        BY <1>4, <2>1 DEF Count, Collectives
      <3> HIDE DEF p
      <3> QED
        BY <3>1, <3>2, <1>3
    <2> QED
      BY <1>2, <1>4, <2>1, <2>2
  <1>7. CASE at.op = "step"
    <2> DEFINE p == at.epoch * NumMinis
    <2>1. p \in Nat /\ (at.epoch + 1) * NumMinis = p + NumMinis
      BY <1>3, Products
    <2>2. to = NextMini(at) /\ Count(at) = p + at.mini
      BY <1>7 DEF Count
    <2> HIDE DEF p, to
    <2>3. CASE at.mini < NumMinis - 1
      <3>1. to = [op |-> "normalizer", epoch |-> at.epoch, mini |-> at.mini + 1, micro |-> 0]
        BY <2>2, <2>3 DEF NextMini
      <3>2. to \in Position /\ to.mini \in Minis /\ Count(to) = p + (at.mini + 1)
        BY <3>1, <1>3, <2>3 DEF Position, Collectives, Minis, Count, p
      <3> QED
        BY <1>2, <1>3, <1>7, <2>1, <2>2, <3>1, <3>2
    <2>4. CASE at.mini = NumMinis - 1 /\ at.epoch < PpoEpochs - 1
      <3>1. to = [op |-> "normalizer", epoch |-> at.epoch + 1, mini |-> 0, micro |-> 0]
        BY <2>2, <2>4, <1>3 DEF NextMini
      <3>2. to \in Position /\ to.mini \in Minis /\ to.epoch \in 0 .. PpoEpochs - 1
        BY <3>1, <1>3, <2>4 DEF Position, Collectives, Minis
      <3>3. Count(to) = (at.epoch + 1) * NumMinis + 0
        BY <3>1 DEF Count
      <3> QED
        BY <1>2, <1>3, <1>7, <2>1, <2>2, <2>4, <3>1, <3>2, <3>3
    <2>5. CASE at.mini = NumMinis - 1 /\ at.epoch = PpoEpochs - 1
      <3>1. to = [at EXCEPT !.op = "done"]
        BY <2>2, <2>5, <1>3 DEF NextMini
      <3>2. to \in Position /\ to.op = "done" /\ to.epoch = at.epoch /\ to.mini = at.mini
        BY <3>1 DEF Position
      <3>3. Count(to) = (at.epoch + 1) * NumMinis
        BY <3>2, <2>5, <1>3 DEF Count
      <3> QED
        BY <1>2, <1>3, <1>7, <2>1, <2>2, <2>5, <3>2, <3>3
    <2> QED
      BY <2>3, <2>4, <2>5, <1>3
  <1> QED
    BY <1>4, <1>7 DEF Collectives

\* Ranks in one mini-batch sum just its events, each with weight one.
LEMMA SummedMini ==
  ASSUME config \in Configs, NEW rows, NEW share, NEW size,
         FairShares(groups, layout, rows, share, size),
         NEW mini \in Minis, \A r \in Ranks : rank[r].mini = mini
  PROVE  /\ Summed \in StepsOf(events)
         /\ \A e \in events :
              IF groups[e] = mini
              THEN Summed.rows[e] > 0 /\ Summed.weights[e] = {Summed.rows[e]}
              ELSE Summed.rows[e] = 0
  <1> DEFINE S     == Members(groups, mini)
             slice(r) == Local(r)[rank[r].mini + 1]
             h(e)  == [r \in Ranks |-> IF e \in DOMAIN slice(r).rows THEN slice(r).rows[e] ELSE 0]
             on(e) == {r \in Ranks : e \in Present(slice(r))}
  <1>1. \A r \in Ranks :
          slice(r) = [mini |-> mini, rows |-> [e \in S |-> share[r][e]], weight |-> rows]
    BY SliceOf
  <1>1a. \A r \in Ranks :
           /\ DOMAIN slice(r).rows = S /\ slice(r).weight = rows
           /\ \A e \in S : slice(r).rows[e] = share[r][e]
    <2> HIDE DEF slice, S
    <2> TAKE r \in Ranks
    <2> DEFINE f == [e \in S |-> share[r][e]]
    <2>1. slice(r) = [mini |-> mini, rows |-> f, weight |-> rows]
      BY <1>1
    <2>2. DOMAIN f = S /\ \A e \in S : f[e] = share[r][e]
      OBVIOUS
    <2> HIDE DEF f
    <2> QED
      BY <2>1, <2>2
  <1>2. /\ Summed.rows = [e \in events |-> RowCount(h(e), Ranks)]
        /\ Summed.weights = [e \in events |-> {slice(r).weight[e] : r \in on(e)}]
        /\ Summed.minis = {rank[r].mini : r \in Ranks}
        /\ Summed = [rows |-> Summed.rows, weights |-> Summed.weights, minis |-> Summed.minis]
    BY DEF Summed
  <1> HIDE DEF slice
  <1>3. /\ groups \in [events -> Minis] /\ rows \in [events -> Positive]
        /\ share \in [Ranks -> [events -> Nat]]
        /\ \A e \in events : RowCount([r \in Ranks |-> share[r][e]], Ranks) = rows[e]
    BY DEF FairShares
  <1>4. \A e \in events : e \in S <=> groups[e] = mini
    BY <1>3 DEF Members
  <1>5. ASSUME NEW e \in events, groups[e] = mini
        PROVE  Summed.rows[e] = rows[e] /\ rows[e] \in Nat /\ rows[e] > 0 /\ Summed.weights[e] = {rows[e]}
    <2>1. e \in S
      BY <1>4, <1>5
    <2>2. h(e) = [r \in Ranks |-> share[r][e]]
      BY <1>1a, <2>1
    <2>3. Summed.rows[e] = rows[e] /\ rows[e] \in Nat /\ rows[e] > 0
      <3> HIDE DEF h
      <3> QED
        BY <1>2, <1>3, <2>2 DEF Positive
    <2>4. PICK r \in Ranks : share[r][e] > 0
      <3> DEFINE f == [r \in Ranks |-> share[r][e]]
      <3>1. \A r \in Ranks : f[r] = share[r][e] /\ f[r] \in Nat
        BY <1>3
      <3>2. RowCount(f, Ranks) # 0
        BY <1>3, <2>3
      <3> HIDE DEF f
      <3> QED
        BY <3>1, <3>2, SomeRow
    <2>5. r \in on(e)
      BY <2>1, <2>4, <1>1a DEF Present
    <2>6. \A q \in on(e) : slice(q).weight[e] = rows[e]
      BY <1>1a
    <2> HIDE DEF on
    <2>7. Summed.weights[e] = {rows[e]}
      BY <1>2, <2>5, <2>6
    <2> QED
      BY <2>3, <2>7
  <1>6. ASSUME NEW e \in events, groups[e] # mini
        PROVE  Summed.rows[e] = 0 /\ Summed.weights[e] = {}
    <2>1. e \notin S
      BY <1>4, <1>6
    <2>2. \A r \in Ranks : h(e)[r] = 0
      BY <1>1a, <2>1
    <2>3. on(e) = {}
      BY <1>1a, <2>1 DEF Present
    <2> HIDE DEF h, on
    <2>4. RowCount(h(e), Ranks) = 0
      BY <2>2, NoRows
    <2> QED
      BY <1>2, <2>3, <2>4
  <1>7. Summed.minis \in SUBSET Nat
    BY <1>2, Sizes
  <1>8. Summed.rows \in [events -> Nat] /\ Summed.weights \in [events -> SUBSET Nat]
    <2>1. \A e \in events : Summed.rows[e] \in Nat /\ Summed.weights[e] \in SUBSET Nat
      BY <1>5, <1>6
    <2> QED
      BY <1>2, <2>1
  <1>9. Summed \in StepsOf(events)
    BY <1>2, <1>7, <1>8 DEF StepsOf
  <1> QED
    BY <1>5, <1>6, <1>9

-----------------------------------------------------------------------------
(* The invariant is inductive.                                             *)
\* The ranks are idle before an update; nothing has been summed.
LEMMA IdleRanks ==
  ASSUME config \in Configs
  PROVE  /\ [r \in Ranks |-> Idle] \in [Ranks -> Position]
         /\ Idle.epoch \in 0 .. PpoEpochs - 1 /\ Idle.mini \in Minis /\ Count(Idle) = 0
         /\ Idle.op = "validate" /\ Start.op = "normalizer" /\ Start.op \in Collectives
         /\ Start \in Position /\ Start.epoch = 0 /\ Start.mini = 0 /\ Count(Start) = 0
  <1>1. NumMinis \in Nat /\ PpoEpochs \in Nat /\ PpoEpochs >= 1 /\ 0 \in Minis
    BY Sizes DEF Positive
  <1> QED
    BY <1>1 DEF Idle, Start, Position, Collectives, Count

\* It holds before the first rollout.
LEMMA Initially == Init => IInv
  <1> SUFFICES ASSUME Init PROVE IInv
    OBVIOUS
  <1>1. config \in Configs
    BY DEF Init
  <1>2. TypeOK
    BY <1>1, IdleRanks DEF Init, TypeOK, Phases, StepsOf
  <1>3. Counted
    BY <1>1, IdleRanks DEF Init, Counted
  <1>4. LockStep /\ Learnt
    BY <1>1, IdleRanks DEF Init, LockStep, Learnt
  <1> QED
    BY <1>2, <1>3, <1>4 DEF Init, IInv, Adjusted, Scheduled, RaisesOnlyWhenTooFew

\* A new rollout starts from nothing.
LEMMA RolloutStep == IInv /\ Rollout => IInv'
  <1> SUFFICES ASSUME IInv, Rollout PROVE IInv'
    OBVIOUS
  <1>1. config \in Configs /\ config' = config
    BY DEF IInv, TypeOK, Rollout
  <1>2. phase' = "adjust" /\ rank' = [r \in Ranks |-> Idle] /\ waiting' = {} /\ steps' = << >>
    BY DEF Rollout
  <1>3. TypeOK'
    BY <1>1, <1>2, IdleRanks DEF Rollout, TypeOK, Phases, StepsOf
  <1>4. LockStep' /\ Learnt'
    BY <1>1, <1>2, IdleRanks DEF LockStep, Learnt
  <1>5. Counted'
    BY <1>1, <1>2, IdleRanks DEF Counted, Count, PpoEpochs, NumMinis, Minis
  <1> QED
    BY <1>2, <1>3, <1>4, <1>5 DEF IInv, Adjusted, Scheduled, RaisesOnlyWhenTooFew

\* Facts about ranks, steps and types stay true of a step that leaves them.
LEMMA RanksStay ==
  ASSUME IInv, UNCHANGED <<config, events, rank, waiting, steps>>
  PROVE  LockStep' /\ Counted'
  BY DEF IInv, LockStep, Counted, Count, PpoEpochs, NumMinis, Minis

\* The padded batch is what the driver will schedule.
LEMMA AdjustStep == IInv /\ AdjustBatch => IInv'
  <1> SUFFICES ASSUME IInv, AdjustBatch PROVE IInv'
    OBVIOUS
  <1>1. /\ phase = "adjust" /\ phase' = "schedule"
        /\ UNCHANGED <<config, events, rank, waiting, steps>>
        /\ batch' \in Repeated(events, AdjustedSize(Cardinality(events))) /\ weight' = batch'
    BY DEF AdjustBatch
  <1>2. TypeOK'
    BY <1>1 DEF IInv, TypeOK, Phases
  <1>3. Adjusted'
    BY <1>1 DEF Adjusted, Repeated, AdjustedSize, SizeDivisor, LogProbMicroBatch, MicroBatch
  <1>4. Learnt'
    BY <1>1 DEF IInv, Learnt
  <1> QED
    BY <1>1, <1>2, <1>3, <1>4, RanksStay DEF IInv, Scheduled, RaisesOnlyWhenTooFew

\* Idle ranks have taken no step.
LEMMA NothingSummed ==
  ASSUME IInv, phase = "schedule"
  PROVE  Len(steps) = 0
  BY Sizes, IdleRanks DEF IInv, TypeOK, Learnt, Counted

\* A batch that is scheduled is scheduled in fair shares.
LEMMA ScheduleStep == IInv /\ Schedule => IInv'
  <1> SUFFICES ASSUME IInv, Schedule PROVE IInv'
    OBVIOUS
  <1>1. /\ phase = "schedule" /\ UNCHANGED <<config, events, batch, weight, rank, waiting, steps>>
        /\ TypeOK /\ Adjusted /\ weight = batch /\ config \in Configs
    BY DEF Schedule, IInv, Adjusted, TypeOK
  <1>2. KeepRows \/ Repack
    BY <1>1 DEF Schedule, MassIsOne
  <1>3. \/ phase' = "update" /\ \E rows, share, size : FairShares(groups', layout', rows, share, size)
        \/ phase' = "raised" /\ Cardinality(events) < NumMinis
    <2>1. CASE KeepRows
      BY <1>1, <2>1, KeptFairly
    <2>2. CASE Repack /\ Cardinality(events) >= NumMinis
      BY <1>1, <2>2, RepackedFairly
    <2>3. CASE Repack /\ Cardinality(events) < NumMinis
      BY <2>3 DEF Repack
    <2>4. Cardinality(events) \in Nat /\ NumMinis \in Nat
      <3>1. PICK n \in 1 .. MaxEvents : events = 1 .. n
        BY <1>1 DEF TypeOK
      <3> QED
        BY <1>1, <3>1, EventCount, Sizes DEF Positive
    <2> QED
      BY <1>2, <2>1, <2>2, <2>3, <2>4
  <1>4. TypeOK' /\ Adjusted'
    BY <1>1, <1>3 DEF TypeOK, Phases, Adjusted
  <1>5. Scheduled'
    <2> SUFFICES ASSUME phase' = "update" PROVE \E rows, share, size : FairShares(groups, layout, rows, share, size)'
      BY <1>3 DEF Scheduled
    <2>1. PICK rows, share, size : FairShares(groups', layout', rows, share, size)
      BY <1>3
    <2>2. FairShares(groups, layout, rows, share, size)'
      BY <1>1, <2>1, StaysFair
    <2> QED
      BY <2>2
  <1>6. Learnt'
    <2>1. Len(steps) = 0 /\ \A r \in Ranks : rank[r] = Idle
      BY <1>1, NothingSummed DEF IInv, Learnt
    <2> QED
      BY <1>1, <1>3, <2>1 DEF Learnt
  <1>7. RaisesOnlyWhenTooFew'
    BY <1>1, <1>3 DEF RaisesOnlyWhenTooFew, NumMinis
  <1> QED
    BY <1>1, <1>4, <1>5, <1>6, <1>7, RanksStay DEF IInv

\* A step that schedules nothing and raises nothing keeps what was scheduled.
LEMMA ScheduleStays ==
  ASSUME IInv, UNCHANGED <<config, events, batch, weight, groups, layout>>,
         phase' = phase \/ (phase = "update" /\ phase' = "updated")
  PROVE  Adjusted' /\ Scheduled' /\ RaisesOnlyWhenTooFew'
  <1>1. Adjusted'
    BY DEF IInv, Adjusted, Repeated, AdjustedSize, SizeDivisor, LogProbMicroBatch, MicroBatch
  <1>2. Scheduled'
    <2> SUFFICES ASSUME phase' \in {"update", "updated"}
                 PROVE \E rows, share, size : FairShares(groups, layout, rows, share, size)'
      BY DEF Scheduled
    <2>1. PICK rows, share, size : FairShares(groups, layout, rows, share, size)
      BY DEF IInv, Scheduled
    <2>2. FairShares(groups', layout', rows, share, size)
      BY <2>1
    <2>3. FairShares(groups, layout, rows, share, size)'
      BY <2>2, StaysFair
    <2> QED
      BY <2>3
  <1>3. RaisesOnlyWhenTooFew'
    BY DEF IInv, RaisesOnlyWhenTooFew, NumMinis
  <1> QED
    BY <1>1, <1>2, <1>3

\* A rank that validates moves to the first collective.
LEMMA ValidateStep ==
  ASSUME IInv, NEW r \in Ranks, Validate(r)
  PROVE  IInv'
  <1>1. /\ phase = "update" /\ rank[r].op = "validate" /\ config \in Configs
        /\ UNCHANGED <<config, phase, events, batch, weight, groups, layout, waiting, steps>>
    BY DEF IInv, TypeOK, Validate
  <1>2. PICK rows, share, size : FairShares(groups, layout, rows, share, size)
    BY <1>1 DEF IInv, Scheduled
  <1>3. ~ LocalRaises(r)
    BY <1>1, <1>2, NeverRaises
  <1>4. rank[r] = Idle /\ \A q \in Ranks : rank[q] \in {Idle, Start}
    BY <1>1, IdleRanks DEF IInv, LockStep
  <1>5. rank \in [Ranks -> Position]
    BY DEF IInv, TypeOK
  <1>6. rank' = [rank EXCEPT ![r] = Start]
    <2>1. rank' = [rank EXCEPT ![r].op = "normalizer"]
      BY <1>3 DEF Validate
    <2> QED
      BY <2>1, <1>4, <1>5 DEF Start
  <1>7. \A q \in Ranks : rank'[q] = IF q = r THEN Start ELSE rank[q]
    BY <1>5, <1>6
  <1>8. TypeOK'
    <2>1. rank' \in [Ranks -> Position]
      BY <1>1, <1>5, <1>6, IdleRanks
    <2> QED
      BY <1>1, <2>1 DEF IInv, TypeOK
  <1>9. LockStep'
    <2>1. Idle.op = "validate" /\ Start.op = "normalizer" /\ Start.op \in Collectives
      BY <1>1, IdleRanks
    <2>2. \A q \in Ranks : rank'[q] \in {Idle, Start}
      BY <1>4, <1>7
    <2>3. \A q \in waiting : q \in Ranks /\ rank[q].op \in Collectives
      BY DEF IInv, TypeOK, LockStep
    <2>4. \A q \in waiting' : rank'[q].op \in Collectives
      BY <1>1, <1>7, <2>1, <2>3
    <2> HIDE DEF Idle, Start
    <2> QED
      BY <2>1, <2>2, <2>4 DEF LockStep
  <1>10. Counted'
    <2>1. Len(steps) = 0
      BY <1>1, <1>4, IdleRanks DEF IInv, Counted
    <2>2. \A q \in Ranks : /\ rank'[q].epoch \in 0 .. PpoEpochs - 1 /\ rank'[q].mini \in Minis
                           /\ Count(rank'[q]) = 0
      BY <1>1, <1>4, <1>7, IdleRanks, Sizes DEF Idle
    <2> QED
      BY <1>1, <2>1, <2>2 DEF Counted, Count, PpoEpochs, NumMinis, Minis
  <1>11. Learnt'
    BY <1>1 DEF IInv, Learnt, SumsItsMini, NumMinis
  <1> QED
    BY <1>1, <1>8, <1>9, <1>10, <1>11, ScheduleStays DEF IInv

\* A rank that blocks in a collective moves nothing else.
LEMMA ArriveStep ==
  ASSUME IInv, NEW r \in Ranks, Arrive(r)
  PROVE  IInv'
  <1>1. /\ rank[r].op \in Collectives /\ waiting' = waiting \cup {r}
        /\ UNCHANGED <<config, phase, events, batch, weight, groups, layout, rank, steps>>
    BY DEF Arrive
  <1>2. TypeOK' /\ LockStep'
    BY <1>1 DEF IInv, TypeOK, LockStep
  <1>3. Counted'
    BY <1>1 DEF IInv, Counted, Count, PpoEpochs, NumMinis, Minis
  <1>4. Learnt'
    BY <1>1 DEF IInv, Learnt, SumsItsMini, NumMinis
  <1> QED
    BY <1>1, <1>2, <1>3, <1>4, ScheduleStays DEF IInv

\* The driver collects only ranks that are done.
LEMMA CollectStep == IInv /\ Collect => IInv'
  <1> SUFFICES ASSUME IInv, Collect PROVE IInv'
    OBVIOUS
  <1>1. /\ phase = "update"
        /\ UNCHANGED <<config, events, batch, weight, groups, layout, rank, waiting, steps>>
        /\ rank \in [Ranks -> Position]
    BY DEF Collect, IInv, TypeOK
  <1>2. \A r \in Ranks : rank[r].op # "raised"
    BY <1>1 DEF Position, Collectives
  <1>3. phase' = "updated" /\ \A r \in Ranks : rank[r].op = "done"
    BY <1>2 DEF Collect
  <1>4. TypeOK'
    BY <1>1, <1>3 DEF IInv, TypeOK, Phases
  <1>5. Learnt'
    BY <1>1, <1>3 DEF IInv, Learnt, SumsItsMini, NumMinis
  <1> QED
    BY <1>1, <1>3, <1>4, <1>5, RanksStay, ScheduleStays DEF IInv

\* A collective that completes moves all ranks together, and the last one of
\* an optimizer step adds what the ranks summed.
LEMMA CompleteStep == IInv /\ Complete => IInv'
  <1> SUFFICES ASSUME IInv, Complete PROVE IInv'
    OBVIOUS
  <1> DEFINE at == rank[0]
  <1>1. /\ waiting = Ranks /\ config \in Configs /\ 0 \in Ranks
        /\ rank \in [Ranks -> Position] /\ steps \in Seq(StepsOf(events))
        /\ UNCHANGED <<config, phase, events, batch, weight, groups, layout>>
        /\ waiting' = {} /\ rank' = [r \in Ranks |-> Advance(r)]
    BY Sizes DEF Complete, IInv, TypeOK
  <1>2. /\ \A r \in Ranks : rank[r].op \in Collectives
        /\ \A r \in Ranks : rank[r] = at
        /\ at \in Position
    <2>1. \A r \in Ranks : rank[r].op \in Collectives
      BY <1>1 DEF IInv, LockStep
    <2>2. "validate" \notin Collectives
      BY DEF Collectives
    <2>3. \A r \in Ranks : rank[r] = at
      BY <1>1, <2>1, <2>2 DEF IInv, LockStep
    <2> QED
      BY <1>1, <2>1, <2>3
  <1>3. /\ at.op \in Collectives /\ at.epoch \in 0 .. PpoEpochs - 1 /\ at.mini \in Minis
        /\ Len(steps) = Count(at)
    BY <1>1, <1>2 DEF IInv, Counted
  <1>4. phase = "update"
    <2>1. at.op # "validate" /\ at.op # "done"
      BY <1>3 DEF Collectives
    <2>2. ~ (\A r \in Ranks : rank[r] = Idle) /\ ~ (\A r \in Ranks : rank[r].op = "done")
      BY <1>1, <2>1, IdleRanks
    <2> QED
      BY <2>2 DEF IInv, TypeOK, Phases, Learnt
  <1>5. PICK rows, share, size : FairShares(groups, layout, rows, share, size)
    BY <1>4 DEF IInv, Scheduled
  <1> HIDE DEF at
  <1>6. PICK to \in Position :
          /\ \A r \in Ranks : Advance(r) = to
          /\ to.op # "validate" /\ to.epoch \in 0 .. PpoEpochs - 1 /\ to.mini \in Minis
          /\ Count(to) = Count(at) + (IF at.op = "step" THEN 1 ELSE 0)
    BY <1>1, <1>2, <1>3, <1>5, AdvanceTogether
  <1>7. \A r \in Ranks : rank'[r] = to
    BY <1>1, <1>6
  <1>8. /\ Summed \in StepsOf(events)
        /\ \A e \in events :
             IF groups[e] = at.mini
             THEN Summed.rows[e] > 0 /\ Summed.weights[e] = {Summed.rows[e]}
             ELSE Summed.rows[e] = 0
    <2>1. \A r \in Ranks : rank[r].mini = at.mini
      BY <1>2
    <2> QED
      BY <2>1, <1>1, <1>3, <1>5, SummedMini
  <1>9. steps' = IF at.op = "step" THEN Append(steps, Summed) ELSE steps
    <2>1. (\A r \in Ranks : rank[r].op = "step") <=> at.op = "step"
      BY <1>1, <1>2
    <2> HIDE DEF Summed
    <2> QED
      BY <2>1 DEF Complete
  <1> HIDE DEF Summed
  <1>10. steps' \in Seq(StepsOf(events)) /\ Len(steps') = Count(to)
    <2>1. CASE at.op = "step"
      <3>1. steps' = Append(steps, Summed)
        BY <1>9, <2>1
      <3>2. steps' \in Seq(StepsOf(events)) /\ Len(steps') = Len(steps) + 1
        BY <3>1, <1>1, <1>8, AppendProperties
      <3> QED
        BY <3>2, <1>3, <1>6, <2>1
    <2>2. CASE at.op # "step"
      <3>1. Len(steps) \in Nat
        BY <1>1, LenProperties
      <3> QED
        BY <3>1, <1>1, <1>3, <1>6, <1>9, <2>2
    <2> QED
      BY <2>1, <2>2
  <1>11. \A i \in 1 .. Len(steps') : SumsItsMini(i)'
    <2>1. \A i \in 1 .. Len(steps) : SumsItsMini(i)
      BY <1>4 DEF IInv, Learnt
    <2>2. CASE at.op = "step"
      <3>1. Len(steps) \in Nat /\ steps' = Append(steps, Summed)
        BY <1>1, <1>9, <2>2, LenProperties
      <3>2. /\ Len(steps') = Len(steps) + 1
            /\ steps'[Len(steps) + 1] = Summed
            /\ \A i \in 1 .. Len(steps) : steps'[i] = steps[i]
        BY <3>1, <1>1, <1>8, AppendProperties
      <3>3. ASSUME NEW i \in 1 .. Len(steps) PROVE SumsItsMini(i)'
        BY <2>1, <3>2, <1>1 DEF SumsItsMini, NumMinis
      <3>4. ((Len(steps) + 1) - 1) % NumMinis = at.mini
        <4>1. at.epoch \in Nat /\ at.mini \in 0 .. NumMinis - 1 /\ NumMinis \in Positive
          BY <1>1, <1>3, Sizes DEF Minis, Positive
        <4>2. (at.epoch * NumMinis + at.mini) % NumMinis = at.mini
          BY <4>1, Cell
        <4>3. Len(steps) = at.epoch * NumMinis + at.mini
          BY <1>3, <2>2 DEF Count
        <4> QED
          BY <3>1, <4>2, <4>3, (Len(steps) + 1) - 1 = Len(steps)
      <3>5. ASSUME NEW i \in Nat, i = Len(steps) + 1 PROVE SumsItsMini(i)'
        BY <3>5, <1>1, <1>8, <3>2, <3>4 DEF SumsItsMini, NumMinis
      <3>6. \A i \in 1 .. Len(steps') : i \in 1 .. Len(steps) \/ i = Len(steps) + 1
        BY <3>1, <3>2
      <3>7. ASSUME NEW i \in 1 .. Len(steps') PROVE SumsItsMini(i)'
        <4>1. CASE i \in 1 .. Len(steps)
          BY <4>1, <3>3
        <4>2. CASE i = Len(steps) + 1
          BY <4>2, <3>1, <3>5
        <4> QED
          BY <4>1, <4>2, <3>6
      <3> QED
        BY <3>7
    <2>3. CASE at.op # "step"
      BY <2>1, <2>3, <1>1, <1>9 DEF SumsItsMini, NumMinis
    <2> QED
      BY <2>2, <2>3
  <1>12. TypeOK'
    BY <1>1, <1>6, <1>10 DEF IInv, TypeOK
  <1>13. LockStep'
    BY <1>1, <1>6, <1>7 DEF LockStep
  <1>14. Counted'
    BY <1>1, <1>6, <1>7, <1>10 DEF Counted, Count, PpoEpochs, NumMinis, Minis
  <1>15. Learnt'
    BY <1>1, <1>4, <1>11 DEF Learnt
  <1> QED
    BY <1>1, <1>12, <1>13, <1>14, <1>15, ScheduleStays DEF IInv

\* Every step keeps the invariant.
LEMMA Inductive == IInv /\ [Next]_vars => IInv'
  <1> SUFFICES ASSUME IInv, [Next]_vars PROVE IInv'
    OBVIOUS
  <1>1. CASE Rollout
    BY <1>1, RolloutStep
  <1>2. CASE AdjustBatch
    BY <1>2, AdjustStep
  <1>3. CASE Schedule
    BY <1>3, ScheduleStep
  <1>4. CASE \E r \in Ranks : Validate(r) \/ Arrive(r)
    BY <1>4, ValidateStep, ArriveStep
  <1>5. CASE Complete
    BY <1>5, CompleteStep
  <1>6. CASE Collect
    BY <1>6, CollectStep
  <1>7. CASE UNCHANGED vars
    <2>1. UNCHANGED <<config, phase, events, batch, weight, groups, layout, rank, waiting, steps>>
      BY <1>7 DEF vars
    <2>2. TypeOK'
      BY <2>1 DEF IInv, TypeOK
    <2>3. Learnt'
      BY <2>1 DEF IInv, Learnt, SumsItsMini, NumMinis
    <2> QED
      BY <2>1, <2>2, <2>3, RanksStay, ScheduleStays DEF IInv
  <1> QED
    BY <1>1, <1>2, <1>3, <1>4, <1>5, <1>6, <1>7 DEF Next, UpdateStep

\* So it holds at all times.
LEMMA Invariant == Spec => []IInv
  BY Initially, Inductive, PTL DEF Spec

-----------------------------------------------------------------------------
(* The theorems.                                                           *)
(* Every variable keeps its type, a position of a rank being one of        *)
(* update_policy's: no rank ever raises.                                   *)
THEOREM TypeCorrect == Spec => []TypeOK
  <1>1. IInv => TypeOK
    BY DEF IInv
  <1> QED
    BY <1>1, Invariant, PTL

(* Only a batch with fewer events than mini-batches makes the driver or a  *)
(* rank raise: the adjusted size always divides, the weights always sum to *)
(* one per event, and a rank's chunk always holds its mini-batches, of     *)
(* equal size and in order.                                                *)
THEOREM RaisesOnlyTooFew == Spec => []RaisesOnlyWhenTooFew
  <1>1. IInv => RaisesOnlyWhenTooFew
    BY DEF IInv
  <1> QED
    BY <1>1, Invariant, PTL

(* Two ranks past their checks are always at the same collective of the    *)
(* same micro-batch of the same mini-batch: what the collectives match by  *)
(* kind and order is meant for one another.                                *)
THEOREM RanksInLockStep == Spec => []LockStep
  <1>1. IInv => LockStep
    BY DEF IInv
  <1> QED
    BY <1>1, Invariant, PTL

(* No rank is left behind: while an update is under way some rank can      *)
(* validate or enter its collective, or all are in the same one and it     *)
(* completes, or all are done and the driver can collect.                  *)
THEOREM UpdateNeverStuck == Spec => []SomeoneCanMove
  <1>1. IInv => SomeoneCanMove
    <2> SUFFICES ASSUME IInv, phase = "update",
                        \A r \in Ranks : rank[r].op # "validate",
                        \A r \in Ranks : rank[r].op \in Collectives => r \in waiting
                 PROVE  \/ waiting = Ranks /\ \A r, q \in Ranks : rank[r] = rank[q]
                        \/ \A r \in Ranks : rank[r].op = "done"
      BY DEF SomeoneCanMove
    <2>1. rank \in [Ranks -> Position] /\ waiting \subseteq Ranks /\ 0 \in Ranks
      BY Sizes DEF IInv, TypeOK
    <2>2. \A r, q \in Ranks : rank[r] = rank[q]
      BY DEF IInv, LockStep
    <2>3. \A r \in Ranks : rank[r].op \in Collectives \/ rank[r].op = "done"
      BY <2>1 DEF Position
    <2> QED
      BY <2>1, <2>2, <2>3
  <1> QED
    BY <1>1, Invariant, PTL

\* Learnt and Counted say of a finished update what EveryEventOnce asks.
LEMMA InvEveryEventOnce == IInv => EveryEventOnce
  <1> SUFFICES ASSUME IInv, phase = "updated" PROVE EveryEventOnce
    BY DEF EveryEventOnce
  <1>1. /\ config \in Configs /\ 0 \in Ranks /\ NumMinis \in Positive /\ PpoEpochs \in Positive
        /\ NumMinis \in Nat /\ PpoEpochs \in Nat /\ steps \in Seq(StepsOf(events))
    BY Sizes DEF IInv, TypeOK, Positive
  <1>2. Len(steps) = PpoEpochs * NumMinis
    BY <1>1 DEF IInv, Learnt, Counted, Count
  <1>3. \A i \in 1 .. Len(steps) : SumsItsMini(i)
    BY DEF IInv, Learnt
  <1>4. PICK rows, share, size : FairShares(groups, layout, rows, share, size)
    BY DEF IInv, Scheduled
  <1>5. groups \in [events -> Minis] /\ \A mini \in Minis : \E e \in events : groups[e] = mini
    BY <1>4 DEF FairShares
  <1>6. ASSUME NEW epoch \in 0 .. PpoEpochs - 1, NEW i \in 1 .. NumMinis
        PROVE  /\ epoch * NumMinis + i \in 1 .. Len(steps)
               /\ ((epoch * NumMinis + i) - 1) % NumMinis = i - 1
    <2> DEFINE p == epoch * NumMinis
               t == PpoEpochs * NumMinis
    <2>1. p \in Nat /\ t \in Nat /\ p + NumMinis <= t
      <3>1. epoch \in Nat /\ epoch + 1 \in Nat /\ epoch + 1 <= PpoEpochs
        BY <1>1
      <3>2. (epoch + 1) * NumMinis <= t /\ t \in Nat
        BY <1>1, <3>1, Products
      <3>3. (epoch + 1) * NumMinis = p + NumMinis /\ p \in Nat
        BY <1>1, <3>1, Products, 1 * NumMinis = NumMinis
      <3> QED
        BY <3>2, <3>3
    <2>2. (p + (i - 1)) % NumMinis = i - 1
      <3> DEFINE m == i - 1
      <3>1. m \in 0 .. NumMinis - 1 /\ epoch \in Nat
        BY <1>1
      <3> HIDE DEF m
      <3>2. (epoch * NumMinis + m) % NumMinis = m
        BY <1>1, <3>1, Cell
      <3> QED
        BY <3>2 DEF m
    <2> HIDE DEF p, t
    <2>3. p + i \in 1 .. t /\ (p + i) - 1 = p + (i - 1)
      BY <1>1, <2>1
    <2> QED
      BY <1>2, <2>2, <2>3 DEF p, t
  <1>7. ASSUME NEW e \in events, NEW epoch \in 0 .. PpoEpochs - 1
        PROVE  LET of == {i \in 1 .. NumMinis : steps[epoch * NumMinis + i].rows[e] > 0} IN
               /\ Cardinality(of) = 1
               /\ \A i \in of : LET step == steps[epoch * NumMinis + i] IN
                                  step.weights[e] = {step.rows[e]}
    <2> DEFINE step(i) == steps[epoch * NumMinis + i]
               of == {i \in 1 .. NumMinis : step(i).rows[e] > 0}
    <2>1. \A i \in 1 .. NumMinis :
            IF groups[e] = i - 1 THEN step(i).rows[e] > 0 /\ step(i).weights[e] = {step(i).rows[e]}
                                 ELSE step(i).rows[e] = 0
      BY <1>3, <1>6 DEF SumsItsMini
    <2> HIDE DEF step
    <2>2. groups[e] + 1 \in 1 .. NumMinis /\ (groups[e] + 1) - 1 = groups[e]
      BY <1>1, <1>5 DEF Minis
    <2>3. \A i \in 1 .. NumMinis : groups[e] = i - 1 => i = groups[e] + 1
      BY <1>1, <1>5, <2>2
    <2>4. of = {groups[e] + 1}
      BY <2>1, <2>2, <2>3
    <2>5. Cardinality(of) = 1
      BY <2>4, FS_Singleton
    <2>6. \A i \in of : step(i).weights[e] = {step(i).rows[e]}
      BY <2>1
    <2> QED
      BY <2>5, <2>6 DEF step
  <1>8. ASSUME NEW i \in DOMAIN steps PROVE \E e \in events : steps[i].rows[e] > 0
    <2>1. i \in 1 .. Len(steps) /\ i - 1 \in Nat
      BY <1>1, LenProperties
    <2>2. (i - 1) % NumMinis \in Minis
      BY <1>1, <2>1, DivMod DEF Minis
    <2>3. PICK e \in events : groups[e] = (i - 1) % NumMinis
      BY <1>5, <2>2
    <2> QED
      BY <1>3, <2>1, <2>3 DEF SumsItsMini
  <1> QED
    BY <1>2, <1>7, <1>8 DEF EveryEventOnce

(* Whatever the padding, the regrouping and the balancing did, an update   *)
(* that ends has taken one optimizer step per epoch and mini-batch, and    *)
(* per epoch each event was summed in exactly one of them, over all ranks  *)
(* with weight one.                                                        *)
THEOREM EventsLearntOnce == Spec => []EveryEventOnce
  BY Invariant, InvEveryEventOnce, PTL

-----------------------------------------------------------------------------
\* g and h are groups that differ in trajectory t at most.
SamePeers(g, h, t) ==
  /\ DOMAIN g = DOMAIN h
  /\ \A u \in Peers(g, t) : g[u] = h[u]

\* The question's prior of a trajectory is its peers'.
LEMMA PriorOfPeers ==
  ASSUME NEW g, NEW h, NEW t, SamePeers(g, h, t)
  PROVE  QuestionParent(g, t) = QuestionParent(h, t)
  <1>1. Peers(g, t) = Peers(h, t)
    BY DEF SamePeers, Peers
  <1>2. [u \in Peers(g, t) |-> g[u].success * Scale] = [u \in Peers(h, t) |-> h[u].success * Scale]
    BY <1>1 DEF SamePeers
  <1> QED
    BY <1>1, <1>2 DEF QuestionParent, Earned

\* What some of the peers earned is theirs too.
LEMMA EarnedByPeers ==
  ASSUME NEW g, NEW h, NEW t, SamePeers(g, h, t), NEW S \in SUBSET Peers(g, t)
  PROVE  Earned(g, S) = Earned(h, S)
  <1>1. [u \in S |-> g[u].success * Scale] = [u \in S |-> h[u].success * Scale]
    BY DEF SamePeers
  <1> QED
    BY <1>1 DEF Earned

\* The value after the answer of a round is fixed by that answer and the peers.
LEMMA AnswerOfPeers ==
  ASSUME NEW g, NEW h, NEW t, SamePeers(g, h, t), NEW k, g[t].acts[k] = h[t].acts[k]
  PROVE  AnswerValue(g, t, k) = AnswerValue(h, t, k)
  <1>1. Peers(g, t) = Peers(h, t)
    BY DEF SamePeers, Peers
  <1>2. SameRound(g, t, k) = SameRound(h, t, k)
    BY <1>1 DEF SamePeers, SameRound
  <1>3. RoundParent(g, t, k) = RoundParent(h, t, k)
    <2>1. SameRound(g, t, k) \in SUBSET Peers(g, t)
      BY DEF SameRound
    <2>2. Earned(g, SameRound(g, t, k)) = Earned(h, SameRound(g, t, k))
      BY <2>1, EarnedByPeers
    <2> QED
      BY <1>2, <2>2, PriorOfPeers DEF RoundParent
  <1>4. \A u \in Peers(g, t) : Matches(g, t, k, u) = Matches(h, t, k, u)
    BY DEF SamePeers, Matches
  <1>5. Weights(g, t, k) = Weights(h, t, k)
    <2> DEFINE rounds(x) == [u \in Peers(x, t) |-> Matches(x, t, k, u)]
               same(x)   == {u \in Peers(x, t) : k \in rounds(x)[u]}
    <2>1. rounds(g) = rounds(h)
      BY <1>1, <1>4
    <2>2. same(g) = same(h)
      BY <1>1, <2>1
    <2> HIDE DEF rounds, same
    <2> DEFINE of(x) == [u \in Peers(x, t) |->
                 IF same(x) = {} THEN CrossWeight(rounds(x)[u], k)
                 ELSE IF u \in same(x) THEN Unit ELSE 0]
    <2>3. of(g) = of(h)
      BY <1>1, <2>1, <2>2
    <2>4. Weights(g, t, k) = of(g) /\ Weights(h, t, k) = of(h)
      BY DEF Weights, rounds, same
    <2> QED
      BY <2>3, <2>4
  <1>6. [u \in Peers(g, t) |-> Weights(g, t, k)[u] * g[u].success * Scale]
          = [u \in Peers(h, t) |-> Weights(h, t, k)[u] * h[u].success * Scale]
    BY <1>1, <1>5 DEF SamePeers
  <1> QED
    BY <1>1, <1>3, <1>5, <1>6 DEF AnswerValue

-----------------------------------------------------------------------------
\* The largest member of a set of integers.
LEMMA MaxIs ==
  ASSUME NEW S \in SUBSET Int, NEW m \in S, \A x \in S : x <= m
  PROVE  Max(S) = m
  <1>1. \A y \in S : m >= y
    OBVIOUS
  <1>2. \A x \in S : (\A y \in S : x >= y) => x = m
    <2> SUFFICES ASSUME NEW x \in S, \A y \in S : x >= y
                 PROVE  x = m
      OBVIOUS
    <2>1. x >= m /\ x <= m /\ x \in Int /\ m \in Int
      OBVIOUS
    <2> QED
      BY <2>1
  <1>3. Max(S) \in S /\ \A y \in S : Max(S) >= y
    BY <1>1 DEF Max
  <1> QED
    BY <1>2, <1>3

\* The math task's chains.
LEMMA MathShape ==
  ASSUME NEW tr \in MathChains
  PROVE  tr.task = "math" /\ tr.acts \in Seq(Keys \cup {NoKey}) /\ Len(tr.acts) \in 1 .. MaxLoop
  <1>1. tr.task = "math" /\ tr.acts \in UNION {[1 .. n -> Keys \cup {NoKey}] : n \in 1 .. MaxLoop}
    BY DEF MathChains
  <1>2. PICK n \in 1 .. MaxLoop : tr.acts \in [1 .. n -> Keys \cup {NoKey}]
    BY <1>1
  <1>3. n \in Nat
    BY CreditAssumption
  <1>4. tr.acts \in Seq(Keys \cup {NoKey}) /\ Len(tr.acts) = n
    BY <1>2, <1>3
  <1> QED
    BY <1>1, <1>4

\* What a record of a search chain may be.
Calls == [by : {"Search", "Answer"}, key : Keys \cup {NoDocs, NoKey}]

\* The search task's chains.
LEMMA SearchShape ==
  ASSUME NEW found \in SUBSET (Keys \cup {NoDocs}), NEW tr \in SearchChains(found)
  PROVE  tr.task = "search" /\ tr.acts \in Seq(Calls) /\ Len(tr.acts) \in 1 .. MaxLoop
  <1> DEFINE open == [by : {"Search"}, key : found] \cup {[by |-> "Answer", key |-> NoKey]}
             Ends(n) == [by : {"Answer"}, key : Keys]
                          \cup (IF n = MaxLoop THEN {[by |-> "Answer", key |-> NoKey]} ELSE {})
             of(n) == {Append(s, e) : s \in [1 .. n - 1 -> open], e \in Ends(n)}
  <1>1. tr.task = "search" /\ tr.acts \in UNION {of(n) : n \in 1 .. MaxLoop}
    BY DEF SearchChains
  <1>2. PICK n \in 1 .. MaxLoop : tr.acts \in of(n)
    <2> HIDE DEF of
    <2> QED
      BY <1>1
  <1>3. PICK s \in [1 .. n - 1 -> open], e \in Ends(n) : tr.acts = Append(s, e)
    BY <1>2
  <1>4. n - 1 \in Nat
    BY CreditAssumption
  <1>5. open \subseteq Calls
    BY DEF Calls
  <1>6. e \in Calls
    BY DEF Calls
  <1> HIDE DEF open, Ends, of
  <1>7. s \in Seq(Calls) /\ Len(s) = n - 1
    BY <1>4, <1>5
  <1>8. tr.acts \in Seq(Calls) /\ Len(tr.acts) = n
    BY <1>3, <1>4, <1>6, <1>7
  <1> QED
    BY <1>1, <1>8

-----------------------------------------------------------------------------
\* Before event i two math trajectories have said the same.
LEMMA MathPast ==
  ASSUME NEW x \in MathChains, NEW y \in MathChains,
         NEW i \in Events(x), NEW j \in Events(y), State(x, i) = State(y, j)
  PROVE  /\ i = j
         /\ \A k \in 1 .. i \div 2 : x.acts[k] = y.acts[k]
  <1>1. /\ x.task = "math" /\ y.task = "math"
        /\ Len(x.acts) \in 1 .. MaxLoop /\ Len(y.acts) \in 1 .. MaxLoop
    BY MathShape
  <1>2. MaxLoop \in Nat \ {0}
    BY CreditAssumption
  <1>3. i \in 1 .. 2 * Len(x.acts) /\ j \in 1 .. 2 * Len(y.acts)
    BY <1>1, <1>2 DEF Events, Length
  <1>4. i % 2 = 1 <=> j % 2 = 1
    <2>1. Agent(x, i) = Agent(y, j)
      BY DEF State
    <2> QED
      BY <1>1, <2>1 DEF Agent
  <1> DEFINE px == SubSeq(x.acts, 1, i \div 2)
             py == SubSeq(y.acts, 1, j \div 2)
  <1>5. px = py
    BY <1>1 DEF State
  <1>6. x.acts \in Seq(Keys \cup {NoKey}) /\ y.acts \in Seq(Keys \cup {NoKey})
    BY MathShape
  <1>7. i \div 2 \in 0 .. Len(x.acts) /\ j \div 2 \in 0 .. Len(y.acts)
    BY <1>1, <1>3
  <1>8. /\ Len(px) = i \div 2 /\ \A k \in 1 .. i \div 2 : px[k] = x.acts[k]
        /\ Len(py) = j \div 2 /\ \A k \in 1 .. j \div 2 : py[k] = y.acts[k]
    BY <1>6, <1>7
  <1> HIDE DEF px, py
  <1>9. i \div 2 = j \div 2
    BY <1>5, <1>8
  <1>10. i = j
    BY <1>3, <1>4, <1>9
  <1> QED
    BY <1>5, <1>8, <1>9, <1>10

\* Before event i two search trajectories have called the same.
LEMMA SearchPast ==
  ASSUME NEW found \in SUBSET (Keys \cup {NoDocs}),
         NEW x \in SearchChains(found), NEW y \in SearchChains(found),
         NEW i \in Events(x), NEW j \in Events(y), State(x, i) = State(y, j)
  PROVE  /\ i = j
         /\ \A k \in 1 .. (i - 1) \div 2 : x.acts[k] = y.acts[k]
         /\ Agent(x, i) = Agent(y, i)
  <1>1. /\ x.task = "search" /\ y.task = "search"
        /\ x.acts \in Seq(Calls) /\ y.acts \in Seq(Calls)
        /\ Len(x.acts) \in 1 .. MaxLoop /\ Len(y.acts) \in 1 .. MaxLoop
    BY SearchShape
  <1>2. MaxLoop \in Nat \ {0}
    BY CreditAssumption
  <1>3. i \in 1 .. 2 * Len(x.acts) /\ j \in 1 .. 2 * Len(y.acts)
    BY <1>1, <1>2 DEF Events, Length
  <1>4. Agent(x, i) = Agent(y, j)
    BY DEF State
  <1>5. i % 2 = 1 <=> j % 2 = 1
    <2>1. ASSUME i % 2 # 1
          PROVE  Agent(x, i) # "Verifier"
      <3>1. Round(i) \in 1 .. Len(x.acts)
        BY <1>1, <1>3 DEF Round
      <3>2. x.acts[Round(i)] \in Calls
        BY <1>1, <3>1
      <3> QED
        BY <1>1, <2>1, <3>2 DEF Agent, Calls
    <2>2. ASSUME j % 2 # 1
          PROVE  Agent(y, j) # "Verifier"
      <3>1. Round(j) \in 1 .. Len(y.acts)
        BY <1>1, <1>3 DEF Round
      <3>2. y.acts[Round(j)] \in Calls
        BY <1>1, <3>1
      <3> QED
        BY <1>1, <2>2, <3>2 DEF Agent, Calls
    <2> QED
      BY <1>1, <1>4, <2>1, <2>2 DEF Agent
  <1> DEFINE px == SubSeq(x.acts, 1, (i - 1) \div 2)
             py == SubSeq(y.acts, 1, (j - 1) \div 2)
  <1>6. px = py
    BY <1>1 DEF State
  <1>7. (i - 1) \div 2 \in 0 .. Len(x.acts) /\ (j - 1) \div 2 \in 0 .. Len(y.acts)
    BY <1>1, <1>3
  <1>8. /\ Len(px) = (i - 1) \div 2 /\ \A k \in 1 .. (i - 1) \div 2 : px[k] = x.acts[k]
        /\ Len(py) = (j - 1) \div 2 /\ \A k \in 1 .. (j - 1) \div 2 : py[k] = y.acts[k]
    BY <1>1, <1>7
  <1> HIDE DEF px, py
  <1>9. (i - 1) \div 2 = (j - 1) \div 2
    BY <1>6, <1>8
  <1>10. i = j
    BY <1>3, <1>5, <1>9
  <1> QED
    BY <1>4, <1>6, <1>8, <1>9, <1>10

\* Answer matching: a baseline is fixed by the peers and what was said before.
LEMMA MathBaseline ==
  ASSUME NEW g, NEW h, NEW t, SamePeers(g, h, t),
         g[t] \in MathChains, h[t] \in MathChains,
         NEW i \in Events(g[t]), NEW j \in Events(h[t]), State(g[t], i) = State(h[t], j)
  PROVE  MathValues(g, t)[i] = MathValues(h, t)[j]
  <1> DEFINE x == g[t]
             y == h[t]
             Own(tr) == {k \in 1 .. i - 1 : Agent(tr, k) = "Solver"}
             last == IF i % 2 = 0 THEN i - 1 ELSE i - 2
  <1>1. i = j /\ \A k \in 1 .. i \div 2 : x.acts[k] = y.acts[k]
    BY MathPast
  <1>2. x.task = "math" /\ y.task = "math"
    BY MathShape
  <1>3. i \in Nat \ {0}
    <2>1. Len(x.acts) \in 1 .. MaxLoop
      BY MathShape
    <2> QED
      BY <2>1, CreditAssumption DEF Events, Length
  <1>4. QuestionParent(g, t) = QuestionParent(h, t)
    BY PriorOfPeers
  <1>5. ASSUME i # 1
        PROVE  /\ Max(Own(x)) = last /\ Max(Own(y)) = last
               /\ Round(last) \in 1 .. i \div 2
    <2>1. \A k \in 1 .. i - 1 : (Agent(x, k) = "Solver" <=> k % 2 = 1) /\ (Agent(y, k) = "Solver" <=> k % 2 = 1)
      BY <1>2 DEF Agent
    <2> DEFINE odd == {k \in 1 .. i - 1 : k % 2 = 1}
    <2>2. Own(x) = odd /\ Own(y) = odd
      BY <2>1
    <2>3. last \in odd /\ odd \subseteq Int
      BY <1>3, <1>5
    <2>4. \A k \in odd : k <= last
      BY <1>3, <1>5
    <2>5. Max(odd) = last
      <3> HIDE DEF odd, last
      <3> QED
        BY <2>3, <2>4, MaxIs
    <2>6. Round(last) \in 1 .. i \div 2
      BY <1>3, <1>5 DEF Round
    <2> QED
      BY <2>2, <2>5, <2>6
  <1>6. MathValues(g, t)[i] = (IF i = 1 THEN QuestionParent(g, t)
                               ELSE AnswerValue(g, t, Round(Max(Own(x)))))
    BY DEF MathValues
  <1>7. MathValues(h, t)[i] = (IF i = 1 THEN QuestionParent(h, t)
                               ELSE AnswerValue(h, t, Round(Max(Own(y)))))
    BY <1>1 DEF MathValues
  <1>8. CASE i = 1
    BY <1>1, <1>4, <1>6, <1>7, <1>8
  <1>9. CASE i # 1
    <2> HIDE DEF Own, last
    <2>1. AnswerValue(g, t, Round(last)) = AnswerValue(h, t, Round(last))
      BY <1>1, <1>5, <1>9, AnswerOfPeers
    <2> QED
      BY <1>1, <1>5, <1>6, <1>7, <1>9, <2>1
  <1> QED
    BY <1>8, <1>9

-----------------------------------------------------------------------------
\* Exact states: the events compared with are the peers'.
LEMMA LotoOfPeers ==
  ASSUME NEW g, NEW h, NEW t, SamePeers(g, h, t), NEW i, NEW G, NEW level,
         State(g[t], i) = State(h[t], i)
  PROVE  LotoValue(level, g, t, i, G) = LotoValue(level, h, t, i, G)
  <1>1. Peers(g, t) = Peers(h, t)
    BY DEF SamePeers, Peers
  <1>2. Agent(g[t], i) = Agent(h[t], i)
    BY DEF State
  <1>3. \A u \in Peers(g, t) : Alike(level, g, t, i, u) = Alike(level, h, t, i, u)
    <2> SUFFICES ASSUME NEW u \in Peers(g, t)
                 PROVE  Alike(level, g, t, i, u) = Alike(level, h, t, i, u)
      OBVIOUS
    <2>1. g[u] = h[u]
      BY DEF SamePeers
    <2> QED
      BY <1>2, <2>1 DEF Alike
  <1> DEFINE S(x) == {u \in Peers(x, t) : Alike(level, x, t, i, u) # {}}
             of(x) == [u \in S(x) |-> MeanOver(G[u], Alike(level, x, t, i, u))]
  <1>4. S(g) = S(h)
    BY <1>1, <1>3
  <1>5. of(g) = of(h)
    BY <1>1, <1>3
  <1>6. \A x \in {g, h} : LotoValue(level, x, t, i, G) = (IF S(x) = {} THEN {} ELSE {MeanOver(of(x), S(x))})
    BY DEF LotoValue
  <1> HIDE DEF S, of
  <1> QED
    BY <1>4, <1>5, <1>6

\* Exact states: a baseline is fixed by the peers and the state.
LEMMA LegacyBaseline ==
  ASSUME NEW g, NEW h, NEW t, SamePeers(g, h, t), NEW d,
         NEW i \in Events(g[t]) \cap Events(h[t]), State(g[t], i) = State(h[t], i)
  PROVE  LegacyValues(g, t, d)[i] = LegacyValues(h, t, d)[i]
  <1> DEFINE G(x) == [u \in Peers(x, t) |-> Returns(x[u], d)]
             at(level, x) == LotoValue(level, x, t, i, G(x))
             of(x) == IF at("exact", x) # {} THEN at("exact", x)
                      ELSE IF at("depth", x) # {} THEN at("depth", x)
                      ELSE IF at("role", x) # {} THEN at("role", x) ELSE {0}
  <1>1. G(g) = G(h)
    BY DEF SamePeers, Peers
  <1>2. \A level \in {"exact", "depth", "role"} : at(level, g) = at(level, h)
    <2> HIDE DEF G
    <2> QED
      BY <1>1, LotoOfPeers
  <1>3. \A x \in {g, h} : LegacyValues(x, t, d)[i] = CHOOSE v \in of(x) : TRUE
    BY DEF LegacyValues
  <1>4. of(g) = of(h)
    <2> HIDE DEF at
    <2> QED
      BY <1>2
  <1> HIDE DEF of
  <1> QED
    BY <1>3, <1>4

-----------------------------------------------------------------------------
\* What the boundary estimator reads of a trajectory for its event k.
Knows(x, y, k) ==
  /\ x.task = "search" /\ y.task = "search" /\ k \in Nat \ {0}
  /\ Agent(x, k) = Agent(y, k)
  /\ \A j \in 1 .. Round(k) - 1 : x.acts[j] = y.acts[j]
  /\ x.acts[Round(k)].by = y.acts[Round(k)].by
  /\ k % 2 = 0 => x.acts[Round(k)] = y.acts[Round(k)]

\* Boundary values: an event's weight is fixed by what is known then.
LEMMA ScoreOfPast ==
  ASSUME NEW x, NEW y, NEW k, Knows(x, y, k), NEW peer, NEW j
  PROVE  Score(x, k, peer, j) = Score(y, k, peer, j)
  <1>1. DocsBefore(x, Round(k)) = DocsBefore(y, Round(k))
    <2> DEFINE at(z) == {l \in 1 .. Round(k) - 1 : z.acts[l].by = "Search"}
    <2>1. at(x) = at(y)
      BY DEF Knows
    <2>2. Round(k) - 1 \in Nat
      BY DEF Knows, Round
    <2>3. ASSUME at(x) # {}
          PROVE  Max(at(x)) \in 1 .. Round(k) - 1
      <3>1. at(x) \in SUBSET (0 .. Round(k) - 1) /\ at(x) \subseteq 1 .. Round(k) - 1
        BY <2>2
      <3> HIDE DEF at
      <3> QED
        BY <2>2, <2>3, <3>1, Greatest
    <2>4. \A z \in {x, y} : DocsBefore(z, Round(k)) = IF at(z) = {} THEN NoDocs ELSE z.acts[Max(at(z))].key
      BY DEF DocsBefore
    <2> HIDE DEF at
    <2> QED
      BY <2>1, <2>3, <2>4 DEF Knows
  <1>2. Docs(x, k) = Docs(y, k)
    <2>1. CASE Agent(x, k) = "Search"
      <3>1. k % 2 = 0
        BY <2>1 DEF Knows, Agent
      <3> QED
        BY <2>1, <3>1 DEF Knows, Docs
    <2>2. CASE Agent(x, k) # "Search"
      BY <1>1, <2>2 DEF Knows, Docs
    <2> QED
      BY <2>1, <2>2
  <1>3. Reason(x, Round(k)) = Reason(y, Round(k))
    BY DEF Knows, Reason
  <1>4. Agent(x, k) = Agent(y, k) /\ x.acts[Round(k)].by = y.acts[Round(k)].by
    BY DEF Knows
  <1> QED
    BY <1>2, <1>3, <1>4 DEF Score

\* Boundary values: the value after an event is fixed by the peers and what is known then.
LEMMA BoundaryOfPeers ==
  ASSUME NEW g, NEW h, NEW t, SamePeers(g, h, t), NEW k, Knows(g[t], h[t], k)
  PROVE  BoundaryValue(g, t, k) = BoundaryValue(h, t, k)
  <1>1. Peers(g, t) = Peers(h, t)
    BY DEF SamePeers, Peers
  <1>2. [u \in Peers(g, t) |-> PeerWeight(g[t], k, g[u])] = [u \in Peers(h, t) |-> PeerWeight(h[t], k, h[u])]
    <2>1. \A u \in Peers(g, t) : PeerWeight(g[t], k, g[u]) = PeerWeight(h[t], k, h[u])
      <3> SUFFICES ASSUME NEW u \in Peers(g, t)
                   PROVE  PeerWeight(g[t], k, g[u]) = PeerWeight(h[t], k, h[u])
        OBVIOUS
      <3>1. g[u] = h[u]
        BY DEF SamePeers
      <3>2. {Score(g[t], k, g[u], j) : j \in Events(g[u])} = {Score(h[t], k, g[u], j) : j \in Events(g[u])}
        BY ScoreOfPast
      <3> QED
        BY <3>1, <3>2 DEF PeerWeight
    <2> QED
      BY <1>1, <2>1
  <1>3. StepParent(g, t, k) = StepParent(h, t, k)
    <2> DEFINE S(z) == {u \in Peers(z, t) : \E j \in EventsOf(z[u], Agent(z[t], k)) : Round(j) = Round(k)}
    <2>1. S(g) = S(h)
      BY <1>1 DEF SamePeers, Knows
    <2>2. S(g) \in SUBSET Peers(g, t)
      OBVIOUS
    <2>3. Earned(g, S(g)) = Earned(h, S(g))
      <3> HIDE DEF S
      <3> QED
        BY <2>2, EarnedByPeers
    <2>4. QuestionParent(g, t) = QuestionParent(h, t)
      BY PriorOfPeers
    <2>5. \A z \in {g, h} : StepParent(z, t, k) =
            IF S(z) = {} THEN QuestionParent(z, t)
            ELSE Exact(Earned(z, S(z)) + ParentBeta * QuestionParent(z, t), Cardinality(S(z)) + ParentBeta)
      BY DEF StepParent
    <2> HIDE DEF S
    <2> QED
      BY <2>1, <2>3, <2>4, <2>5
  <1> DEFINE w(z) == [u \in Peers(z, t) |-> PeerWeight(z[t], k, z[u])]
             paid(z) == [u \in Peers(z, t) |-> w(z)[u] * z[u].success * Scale]
  <1>4. w(g) = w(h)
    BY <1>2
  <1>5. paid(g) = paid(h)
    <2> HIDE DEF w
    <2> QED
      BY <1>1, <1>4 DEF SamePeers
  <1>6. \A z \in {g, h} : BoundaryValue(z, t, k) =
          Exact(SumFunctionOnSet(paid(z), Peers(z, t)) + 2 ^ DepthWindow * ParentAlpha * StepParent(z, t, k),
                SumFunctionOnSet(w(z), Peers(z, t)) + 2 ^ DepthWindow * ParentAlpha)
    BY DEF BoundaryValue
  <1> HIDE DEF w, paid
  <1> QED
    BY <1>1, <1>3, <1>4, <1>5, <1>6

\* Boundary values: a baseline is fixed by the peers and what was called before.
LEMMA BoundaryBaseline ==
  ASSUME NEW g, NEW h, NEW t, SamePeers(g, h, t), NEW found \in SUBSET (Keys \cup {NoDocs}),
         g[t] \in SearchChains(found), h[t] \in SearchChains(found),
         NEW i \in Events(g[t]), NEW j \in Events(h[t]), State(g[t], i) = State(h[t], j)
  PROVE  BoundaryValues(g, t)[i] = BoundaryValues(h, t)[j]
  <1> DEFINE x == g[t]
             y == h[t]
             Own(tr) == {k \in 1 .. i - 1 : Agent(tr, k) # "Answer"}
             last == IF i % 2 = 0 \/ x.acts[(i - 1) \div 2].by # "Answer" THEN i - 1 ELSE i - 2
  <1>1. /\ i = j
        /\ \A k \in 1 .. (i - 1) \div 2 : x.acts[k] = y.acts[k]
        /\ Agent(x, i) = Agent(y, i)
    BY SearchPast
  <1>2. x.task = "search" /\ y.task = "search"
    BY SearchShape
  <1>3. i \in Nat \ {0}
    <2>1. Len(x.acts) \in 1 .. MaxLoop
      BY SearchShape
    <2> QED
      BY <2>1, CreditAssumption DEF Events, Length
  <1>4. QuestionParent(g, t) = QuestionParent(h, t)
    BY PriorOfPeers
  <1>5. ASSUME i # 1
        PROVE  Max(Own(x)) = last /\ Max(Own(y)) = last /\ Knows(x, y, last)
    <2>1. ASSUME NEW k \in 1 .. i - 1
          PROVE  /\ Agent(x, k) = Agent(y, k)
                 /\ Agent(x, k) = IF k % 2 = 1 THEN "Verifier" ELSE x.acts[k \div 2].by
      <3>1. k \in Nat \ {0} /\ k <= i - 1
        BY <1>3
      <3>2. CASE k % 2 = 1
        BY <1>2, <3>2 DEF Agent
      <3>3. CASE k % 2 # 1
        <4>1. Round(k) = k \div 2
          BY <3>1, <3>3 DEF Round
        <4>2. k \div 2 \in 1 .. (i - 1) \div 2
          BY <1>3, <3>1, <3>3
        <4> QED
          BY <1>1, <1>2, <3>3, <4>1, <4>2 DEF Agent
      <3> QED
        BY <3>2, <3>3
    <2>2. Own(x) = Own(y)
      BY <2>1
    <2>3. last \in 1 .. i - 1
      BY <1>3, <1>5
    <2>4. Agent(x, last) # "Answer"
      <3>1. CASE i % 2 = 0 \/ x.acts[(i - 1) \div 2].by = "Answer"
        <4>1. last % 2 = 1
          BY <1>3, <1>5, <3>1
        <4> HIDE DEF last
        <4> QED
          BY <2>1, <2>3, <4>1
      <3>2. CASE i % 2 # 0 /\ x.acts[(i - 1) \div 2].by # "Answer"
        <4>1. last = i - 1 /\ last % 2 # 1 /\ last \div 2 = (i - 1) \div 2
          BY <1>3, <3>2
        <4> HIDE DEF last
        <4> QED
          BY <2>1, <2>3, <3>2, <4>1
      <3> QED
        BY <3>1, <3>2
    <2>5. \A k \in Own(x) : k <= last
      <3> SUFFICES ASSUME NEW k \in 1 .. i - 1, Agent(x, k) # "Answer", ~ (k <= last)
                   PROVE  FALSE
        BY <1>3, <2>3
      <3>1. k = i - 1 /\ last = i - 2 /\ i % 2 # 0 /\ x.acts[(i - 1) \div 2].by = "Answer"
        BY <1>3
      <3>2. k % 2 # 1 /\ k \div 2 = (i - 1) \div 2
        BY <1>3, <3>1
      <3> QED
        BY <2>1, <3>1, <3>2
    <2>6. Max(Own(x)) = last
      <3>1. last \in Own(x) /\ Own(x) \subseteq Int
        BY <2>3, <2>4
      <3> HIDE DEF Own, last
      <3> QED
        BY <2>5, <3>1, MaxIs
    <2>7. Knows(x, y, last)
      <3>1. Agent(x, last) = Agent(y, last)
        BY <2>1, <2>3
      <3>2. Round(last) - 1 <= (i - 1) \div 2 /\ Round(last) \in Nat \ {0}
        BY <1>3, <1>5 DEF Round
      <3>3. CASE i % 2 = 0
        <4>1. last = i - 1 /\ Round(last) = Round(i) /\ last % 2 # 0
          BY <1>3, <3>3 DEF Round
        <4>2. x.acts[Round(i)].by = y.acts[Round(i)].by
          BY <1>1, <1>2, <1>3, <3>3 DEF Agent
        <4> HIDE DEF last
        <4> QED
          BY <1>1, <1>2, <1>3, <2>3, <3>1, <3>2, <4>1, <4>2 DEF Knows
      <3>4. CASE i % 2 # 0
        <4>1. Round(last) \in 1 .. (i - 1) \div 2
          BY <1>3, <1>5, <3>4 DEF Round
        <4> HIDE DEF last
        <4> QED
          BY <1>1, <1>2, <1>3, <2>3, <3>1, <3>2, <4>1 DEF Knows
      <3> QED
        BY <3>3, <3>4
    <2> QED
      BY <2>2, <2>6, <2>7
  <1>6. BoundaryValues(g, t)[i] = (IF i = 1 THEN QuestionParent(g, t)
                                   ELSE BoundaryValue(g, t, Max(Own(x))))
    BY DEF BoundaryValues
  <1>7. BoundaryValues(h, t)[i] = (IF i = 1 THEN QuestionParent(h, t)
                                   ELSE BoundaryValue(h, t, Max(Own(y))))
    BY <1>1 DEF BoundaryValues
  <1>8. CASE i = 1
    BY <1>1, <1>4, <1>6, <1>7, <1>8
  <1>9. CASE i # 1
    <2> HIDE DEF Own, last
    <2>1. BoundaryValue(g, t, last) = BoundaryValue(h, t, last)
      BY <1>5, <1>9, BoundaryOfPeers
    <2> QED
      BY <1>1, <1>5, <1>6, <1>7, <1>9, <2>1
  <1> QED
    BY <1>8, <1>9

-----------------------------------------------------------------------------
\* Whatever the engine, the group and the discounts.
LEMMA BaselineOfPast ==
  ASSUME NEW t, t \notin DOMAIN group, NEW d,
         NEW x \in ChainsOf(engine), NEW y \in ChainsOf(engine),
         NEW i \in Events(x), NEW j \in Events(y), State(x, i) = State(y, j)
  PROVE  Values(Extended(t, x), t, d)[i] = Values(Extended(t, y), t, d)[j]
  <1> DEFINE g == Extended(t, x)
             h == Extended(t, y)
  <1>1. SamePeers(g, h, t) /\ g[t] = x /\ h[t] = y
    BY DEF SamePeers, Peers, Extended
  <1> HIDE DEF g, h
  <1>2. CASE engine = "math_answer_loto"
    <2>1. x \in MathChains /\ y \in MathChains
      BY <1>2 DEF ChainsOf
    <2>2. MathValues(g, t)[i] = MathValues(h, t)[j]
      BY <1>1, <2>1, MathBaseline
    <2> QED
      BY <1>2, <2>2 DEF Values, g, h
  <1>3. CASE engine # "math_answer_loto"
    <2>1. PICK found \in SUBSET (Keys \cup {NoDocs}) : x \in SearchChains(found) /\ y \in SearchChains(found)
      BY <1>3 DEF ChainsOf
    <2>2. i = j
      BY <2>1, SearchPast
    <2>3. BoundaryValues(g, t)[i] = BoundaryValues(h, t)[j]
      BY <1>1, <2>1, BoundaryBaseline
    <2>4. LegacyValues(g, t, d)[i] = LegacyValues(h, t, d)[j]
      BY <1>1, <2>2, LegacyBaseline
    <2> QED
      BY <1>3, <2>3, <2>4 DEF Values, g, h
  <1> QED
    BY <1>2, <1>3

\* A baseline never depends on what its event, or anything after it, says or earns.
THEOREM BaselinesAreBlind == CreditSpec => []BaselineSeesNoOutcome
  <1>1. BaselineSeesNoOutcome
    <2> SUFFICES ASSUME NEW t \in Trajectories \ DOMAIN group, NEW d,
                        NEW x \in ChainsOf(engine), NEW y \in ChainsOf(engine),
                        NEW i \in Events(x), NEW j \in Events(y), State(x, i) = State(y, j)
                 PROVE  Values(Extended(t, x), t, d)[i] = Values(Extended(t, y), t, d)[j]
      BY DEF BaselineSeesNoOutcome, WithStates
    <2> QED
      BY BaselineOfPast
  <1> QED
    BY <1>1, PTL

-----------------------------------------------------------------------------
\* What holds of event i whenever it holds of all later ones holds of all.
LEMMA Backwards ==
  ASSUME NEW n \in Nat \ {0}, NEW S \in SUBSET (1 .. n),
         \A i \in 1 .. n : (\A j \in i + 1 .. n : j \in S) => i \in S
  PROVE  S = 1 .. n
  <1> DEFINE T == (1 .. n) \ S
  <1> SUFFICES ASSUME T # {} PROVE FALSE
    OBVIOUS
  <1>1. T \in SUBSET (0 .. n)
    OBVIOUS
  <1>2. Max(T) \in T /\ \A j \in T : j <= Max(T)
    <2> HIDE DEF T
    <2> QED
      BY <1>1, Greatest
  <1> DEFINE m == Max(T)
  <1>3. m \in T /\ \A j \in T : j <= m
    BY <1>2
  <1> HIDE DEF m
  <1>4. \A j \in m + 1 .. n : j \in S
    BY <1>3
  <1> QED
    BY <1>3, <1>4

\* The steps of a recursion over 1 .. n, from its last value z backwards, stay
\* in V; f is its solution.
Stays(n, V, F) ==
  /\ V \in [1 .. n + 1 -> SUBSET Int]
  /\ \A i \in 1 .. n : \A x \in V[i + 1] : F[i][x] \in V[i]

Solution(n, V, F, z, f) ==
  /\ f \in [1 .. n + 1 -> Int]
  /\ f[n + 1] = z
  /\ \A i \in 1 .. n + 1 : f[i] \in V[i]
  /\ \A i \in 1 .. n : f[i] = F[i][f[i + 1]]

\* Such a recursion has a solution.
LEMMA Recursion ==
  ASSUME NEW n \in Nat, NEW V, NEW F, Stays(n, V, F), NEW z, z \in V[n + 1]
  PROVE  \E f : Solution(n, V, F, z, f)
  <1> DEFINE Solves(m, f) ==
               /\ f \in [m .. n + 1 -> Int]
               /\ f[n + 1] = z
               /\ \A i \in m .. n + 1 : f[i] \in V[i]
               /\ \A i \in m .. n : f[i] = F[i][f[i + 1]]
             S == {m \in 1 .. n + 1 : \E f : Solves(m, f)}
  <1>0. /\ V \in [1 .. n + 1 -> SUBSET Int]
        /\ \A i \in 1 .. n : \A x \in V[i + 1] : F[i][x] \in V[i]
    BY DEF Stays
  <1>1. ASSUME NEW m \in 1 .. n + 1, \A j \in m + 1 .. n + 1 : j \in S
        PROVE  m \in S
    <2>1. CASE m = n + 1
      <3> DEFINE f == [i \in m .. n + 1 |-> z]
      <3>1. Solves(m, f)
        BY <1>0, <2>1
      <3> QED
        BY <3>1
    <2>2. CASE m # n + 1
      <3>1. m \in 1 .. n /\ m + 1 \in m + 1 .. n + 1
        BY <2>2
      <3>2. PICK f : Solves(m + 1, f)
        BY <1>1, <3>1
      <3> DEFINE g == [i \in m .. n + 1 |-> IF i = m THEN F[m][f[m + 1]] ELSE f[i]]
      <3>3. f[m + 1] \in V[m + 1] /\ F[m][f[m + 1]] \in V[m] /\ V[m] \subseteq Int
        BY <1>0, <3>1, <3>2
      <3>4. /\ g[m] = F[m][f[m + 1]] /\ g[m + 1] = f[m + 1]
            /\ \A i \in m + 1 .. n + 1 : i \in m .. n + 1 /\ g[i] = f[i]
        BY <3>1
      <3>5. \A i \in m .. n + 1 : g[i] \in V[i] /\ g[i] \in Int
        BY <1>0, <3>1, <3>2, <3>3, <3>4
      <3>6. \A i \in m .. n : g[i] = F[i][g[i + 1]]
        <4> SUFFICES ASSUME NEW i \in m .. n PROVE g[i] = F[i][g[i + 1]]
          OBVIOUS
        <4>1. CASE i = m
          BY <3>4, <4>1
        <4>2. CASE i # m
          <5>1. i \in m + 1 .. n /\ i \in m + 1 .. n + 1 /\ i + 1 \in m + 1 .. n + 1
            BY <3>1, <4>2
          <5>2. f[i] = F[i][f[i + 1]]
            BY <3>2, <5>1
          <5> HIDE DEF g
          <5> QED
            BY <3>4, <5>1, <5>2
        <4> QED
          BY <4>1, <4>2
      <3>7. g \in [m .. n + 1 -> Int]
        BY <3>5
      <3>8. g[n + 1] = z
        BY <3>1, <3>2, <3>4
      <3> HIDE DEF g
      <3> QED
        BY <3>5, <3>6, <3>7, <3>8
    <2> QED
      BY <2>1, <2>2
  <1>2. S = 1 .. n + 1
    <2>1. S \in SUBSET (1 .. n + 1) /\ n + 1 \in Nat \ {0}
      OBVIOUS
    <2> HIDE DEF S
    <2> QED
      BY <1>1, <2>1, Backwards
  <1>3. 1 \in S
    <2>1. 1 \in 1 .. n + 1
      OBVIOUS
    <2> HIDE DEF S
    <2> QED
      BY <1>2, <2>1
  <1>4. PICK f : Solves(1, f)
    BY <1>3
  <1> QED
    BY <1>4 DEF Solution

-----------------------------------------------------------------------------
\* What the discount of the edge after event i multiplies by, in halves.
Halves(tr, d, i) == IF tr.task = "search" /\ i % 2 = 0 THEN d.env ELSE d.internal

\* The unit of the numbers is fine enough for a trajectory: its rewards and
\* baselines lie in groups of integers, one per event, whose members every
\* discount divides without a rest.
IsFine(tr, v, d, fine) ==
  /\ fine \in [Events(tr) -> SUBSET Int]
  /\ \A i \in Events(tr) :
       /\ 0 \in fine[i] /\ Reward(tr, i) \in fine[i] /\ v[i] \in fine[i]
       /\ \A x, y \in fine[i] : x + y \in fine[i] /\ x - y \in fine[i]
  /\ \A i \in Events(tr) \ {Length(tr)} : \A x \in fine[i + 1] :
       /\ (x * Halves(tr, d, i)) % 2 = 0
       /\ (x * Halves(tr, d, i)) \div 2 \in fine[i]

\* A discount is none, one half or all.
LEMMA HalvesAre ==
  ASSUME NEW tr, NEW d \in Discounts, NEW i
  PROVE  Halves(tr, d, i) \in {0, 1, 2}
  <1>1. d.env \in 0 .. 2 /\ d.internal \in 0 .. 2
    BY CreditAssumption
  <1> QED
    BY <1>1 DEF Halves

\* A division that leaves no rest.
LEMMA CarryIs ==
  ASSUME NEW tr, NEW d, NEW i, i # Length(tr), NEW x, (x * Halves(tr, d, i)) % 2 = 0
  PROVE  Carry(tr, d, i, x) = (x * Halves(tr, d, i)) \div 2
  BY DEF Carry, Exact, Halves

\* Without a discount nothing is lost.
LEMMA CarryNone ==
  ASSUME NEW tr, NEW i, i # Length(tr), NEW x \in Int
  PROVE  Carry(tr, None, i, x) = x
  <1>1. Halves(tr, None, i) = 2
    BY DEF Halves, None
  <1>2. (x * 2) % 2 = 0 /\ (x * 2) \div 2 = x
    OBVIOUS
  <1> QED
    BY <1>1, <1>2, CarryIs

\* Nothing is carried back as nothing.
LEMMA CarryZero ==
  ASSUME NEW tr, NEW d \in Discounts, NEW i, i # Length(tr)
  PROVE  Carry(tr, d, i, 0) = 0
  <1>1. Halves(tr, d, i) \in {0, 1, 2}
    BY HalvesAre
  <1>2. (0 * Halves(tr, d, i)) % 2 = 0 /\ (0 * Halves(tr, d, i)) \div 2 = 0
    BY <1>1
  <1> QED
    BY <1>2, CarryIs

\* What is carried back is as fine as the event it is carried to.
LEMMA CarryFine ==
  ASSUME NEW tr, NEW v, NEW d \in Discounts, NEW fine, IsFine(tr, v, d, fine),
         NEW n \in Nat \ {0}, Length(tr) = n, NEW i \in 1 .. n - 1, NEW x \in fine[i + 1]
  PROVE  Carry(tr, d, i, x) \in fine[i] /\ Carry(tr, d, i, x) \in Int
  <1>1. i \in Events(tr) \ {Length(tr)} /\ i \in Events(tr) /\ i # Length(tr)
    BY DEF Events
  <1>2. fine[i] \subseteq Int
    BY <1>1 DEF IsFine
  <1>3. (x * Halves(tr, d, i)) % 2 = 0 /\ (x * Halves(tr, d, i)) \div 2 \in fine[i]
    BY <1>1 DEF IsFine
  <1>4. Carry(tr, d, i, x) = (x * Halves(tr, d, i)) \div 2
    BY <1>1, <1>3, CarryIs
  <1> QED
    BY <1>2, <1>3, <1>4

\* The sum of what discounts leave no rest of is carried back in parts.
LEMMA CarrySum ==
  ASSUME NEW tr, NEW v, NEW d \in Discounts, NEW fine, IsFine(tr, v, d, fine),
         NEW n \in Nat \ {0}, Length(tr) = n, NEW i \in 1 .. n - 1,
         NEW x \in fine[i + 1], NEW y \in fine[i + 1]
  PROVE  Carry(tr, d, i, x + y) = Carry(tr, d, i, x) + Carry(tr, d, i, y)
  <1> DEFINE h == Halves(tr, d, i)
  <1>1. i \in Events(tr) \ {Length(tr)} /\ i + 1 \in Events(tr) /\ i # Length(tr)
    BY DEF Events
  <1>2. x + y \in fine[i + 1] /\ x \in Int /\ y \in Int
    BY <1>1 DEF IsFine
  <1>3. h \in {0, 1, 2}
    BY HalvesAre
  <1>4. \A z \in fine[i + 1] : (z * h) % 2 = 0
    BY <1>1 DEF IsFine
  <1>5. ((x + y) * h) \div 2 = (x * h) \div 2 + (y * h) \div 2
    <2> HIDE DEF h
    <2>1. (x * h) % 2 = 0 /\ (y * h) % 2 = 0
      BY <1>4
    <2>2. CASE h = 0
      BY <1>2, <2>2
    <2>3. CASE h = 1
      BY <1>2, <2>1, <2>3
    <2>4. CASE h = 2
      BY <1>2, <2>4
    <2> QED
      BY <1>3, <2>2, <2>3, <2>4
  <1>6. \A z \in fine[i + 1] : Carry(tr, d, i, z) = (z * h) \div 2
    BY <1>1, <1>4, CarryIs
  <1> HIDE DEF h
  <1> QED
    BY <1>2, <1>5, <1>6

\* The difference of what discounts leave no rest of is carried back in parts.
LEMMA CarryDifference ==
  ASSUME NEW tr, NEW v, NEW d \in Discounts, NEW fine, IsFine(tr, v, d, fine),
         NEW n \in Nat \ {0}, Length(tr) = n, NEW i \in 1 .. n - 1,
         NEW x \in fine[i + 1], NEW y \in fine[i + 1]
  PROVE  Carry(tr, d, i, x - y) = Carry(tr, d, i, x) - Carry(tr, d, i, y)
  <1> DEFINE h == Halves(tr, d, i)
  <1>1. i \in Events(tr) \ {Length(tr)} /\ i + 1 \in Events(tr) /\ i # Length(tr)
    BY DEF Events
  <1>2. x - y \in fine[i + 1] /\ x \in Int /\ y \in Int
    BY <1>1 DEF IsFine
  <1>3. h \in {0, 1, 2}
    BY HalvesAre
  <1>4. \A z \in fine[i + 1] : (z * h) % 2 = 0
    BY <1>1 DEF IsFine
  <1>5. ((x - y) * h) \div 2 = (x * h) \div 2 - (y * h) \div 2
    <2> HIDE DEF h
    <2>1. (x * h) % 2 = 0 /\ (y * h) % 2 = 0
      BY <1>4
    <2>2. CASE h = 0
      BY <1>2, <2>2
    <2>3. CASE h = 1
      BY <1>2, <2>1, <2>3
    <2>4. CASE h = 2
      BY <1>2, <2>4
    <2> QED
      BY <1>3, <2>2, <2>3, <2>4
  <1>6. \A z \in fine[i + 1] : Carry(tr, d, i, z) = (z * h) \div 2
    BY <1>1, <1>4, CarryIs
  <1> HIDE DEF h
  <1> QED
    BY <1>2, <1>5, <1>6

\* The discounted returns, as a recursion over the events.
LEMMA ReturnsAre ==
  ASSUME NEW tr, NEW v, NEW d \in Discounts, NEW fine, IsFine(tr, v, d, fine),
         NEW n \in Nat \ {0}, Length(tr) = n
  PROVE  \A i \in 1 .. n :
           /\ Returns(tr, d)[i] \in fine[i]
           /\ Returns(tr, d)[i] =
                Reward(tr, i) + (IF i = n THEN 0 ELSE Carry(tr, d, i, Returns(tr, d)[i + 1]))
  <1> DEFINE V == [i \in 1 .. n + 1 |-> IF i = n + 1 THEN {0} ELSE fine[i]]
             F == [i \in 1 .. n |-> [x \in Int |->
                     Reward(tr, i) + (IF i = n THEN 0 ELSE Carry(tr, d, i, x))]]
             G == CHOOSE g : g = [i \in Events(tr) |->
                     Reward(tr, i) + (IF i = Length(tr) THEN 0 ELSE Carry(tr, d, i, g[i + 1]))]
  <1>1. Events(tr) = 1 .. n
    BY DEF Events
  <1>2. \A i \in 1 .. n : Reward(tr, i) \in fine[i] /\ 0 \in fine[i] /\ fine[i] \subseteq Int
    BY <1>1 DEF IsFine
  <1>3. V \in [1 .. n + 1 -> SUBSET Int]
    BY <1>2
  <1>4. ASSUME NEW i \in 1 .. n, NEW x \in V[i + 1]
        PROVE  F[i][x] \in V[i]
    <2>1. x \in Int
      BY <1>3, <1>4
    <2>2. F[i][x] = Reward(tr, i) + (IF i = n THEN 0 ELSE Carry(tr, d, i, x)) /\ V[i] = fine[i]
      BY <2>1
    <2>3. (IF i = n THEN 0 ELSE Carry(tr, d, i, x)) \in fine[i]
      <3>1. CASE i = n
        BY <3>1, <1>2
      <3>2. CASE i # n
        <4>1. i \in 1 .. n - 1 /\ x \in fine[i + 1]
          BY <3>2, <1>4
        <4> QED
          BY <3>2, <4>1, CarryFine
      <3> QED
        BY <3>1, <3>2
    <2> HIDE DEF F, V
    <2> QED
      BY <1>1, <1>2, <2>2, <2>3 DEF IsFine
  <1>5. 0 \in V[n + 1]
    OBVIOUS
  <1>6. PICK f : Solution(n, V, F, 0, f)
    <2>1. Stays(n, V, F)
      <3> HIDE DEF F, V
      <3> QED
        BY <1>3, <1>4 DEF Stays
    <2> HIDE DEF F, V
    <2> QED
      BY <1>5, <2>1, Recursion
  <1>7. \E g : g = [i \in Events(tr) |->
                 Reward(tr, i) + (IF i = Length(tr) THEN 0 ELSE Carry(tr, d, i, g[i + 1]))]
    <2> DEFINE g == [i \in 1 .. n |-> f[i]]
    <2>1. ASSUME NEW i \in 1 .. n
          PROVE  g[i] = Reward(tr, i) + (IF i = n THEN 0 ELSE Carry(tr, d, i, g[i + 1]))
      <3>1. f[i] = Reward(tr, i) + (IF i = n THEN 0 ELSE Carry(tr, d, i, f[i + 1]))
        <4>1. f[i + 1] \in Int /\ f[i] = F[i][f[i + 1]]
          BY <1>6 DEF Solution
        <4> QED
          BY <4>1
      <3>2. i # n => g[i + 1] = f[i + 1]
        OBVIOUS
      <3> QED
        BY <3>1, <3>2
    <2>2. g = [i \in 1 .. n |-> g[i]]
      OBVIOUS
    <2> HIDE DEF g
    <2>3. g = [i \in Events(tr) |-> Reward(tr, i) + (IF i = Length(tr) THEN 0 ELSE Carry(tr, d, i, g[i + 1]))]
      BY <1>1, <2>1, <2>2
    <2> QED
      BY <2>3
  <1>8. G = [i \in Events(tr) |-> Reward(tr, i) + (IF i = Length(tr) THEN 0 ELSE Carry(tr, d, i, G[i + 1]))]
    BY <1>7
  <1>9. Returns(tr, d) = PerEvent(tr, G)
    BY DEF Returns
  <1> HIDE DEF G
  <1>10. \A i \in 1 .. n : G[i] = Reward(tr, i) + (IF i = n THEN 0 ELSE Carry(tr, d, i, G[i + 1]))
    BY <1>1, <1>8
  <1>11. \A i \in 1 .. n : G[i] \in fine[i]
    <2> DEFINE S == {i \in 1 .. n : G[i] \in fine[i]}
    <2>1. ASSUME NEW i \in 1 .. n, \A j \in i + 1 .. n : j \in S
          PROVE  i \in S
      <3>1. (IF i = n THEN 0 ELSE Carry(tr, d, i, G[i + 1])) \in fine[i]
        <4>1. CASE i = n
          BY <4>1, <1>2
        <4>2. CASE i # n
          <5>1. i \in 1 .. n - 1 /\ i + 1 \in i + 1 .. n
            BY <4>2
          <5>2. G[i + 1] \in fine[i + 1]
            BY <2>1, <5>1
          <5> QED
            BY <4>2, <5>1, <5>2, CarryFine
        <4> QED
          BY <4>1, <4>2
      <3> DEFINE c == IF i = n THEN 0 ELSE Carry(tr, d, i, G[i + 1])
      <3>2. G[i] = Reward(tr, i) + c /\ c \in fine[i]
        BY <1>10, <3>1
      <3> HIDE DEF c
      <3>3. G[i] \in fine[i]
        BY <1>1, <1>2, <3>2 DEF IsFine
      <3> QED
        BY <3>3
    <2>2. S = 1 .. n
      <3>1. S \in SUBSET (1 .. n)
        OBVIOUS
      <3> HIDE DEF S
      <3> QED
        BY <2>1, <3>1, Backwards
    <2> QED
      BY <2>2
  <1>12. Returns(tr, d) = [i \in 1 .. n |-> G[i]]
    <2>1. G = [i \in 1 .. n |-> G[i]]
      BY <1>1, <1>8
    <2>2. G \in Seq(Int) /\ Len(G) = n
      BY <1>2, <1>11, <2>1
    <2> QED
      BY <1>9, <2>1, <2>2 DEF PerEvent
  <1> QED
    BY <1>10, <1>11, <1>12

\* f is what x, at event stop, is worth at every event up to it.
Worth(tr, d, fine, stop, x, f) ==
  /\ f \in [1 .. stop -> Int]
  /\ f[stop] = x
  /\ \A k \in 1 .. stop : f[k] \in fine[k] /\ Across(tr, d, k, stop, x) = f[k]
  /\ \A k \in 1 .. stop - 1 : f[k] = Carry(tr, d, k, f[k + 1])

\* A number carried back over a segment, as a recursion over its edges.
LEMMA AcrossIs ==
  ASSUME NEW tr, NEW v, NEW d \in Discounts, NEW fine, IsFine(tr, v, d, fine),
         NEW n \in Nat \ {0}, Length(tr) = n, NEW stop \in 1 .. n, NEW x \in fine[stop]
  PROVE  \E f : Worth(tr, d, fine, stop, x, f)
  <1> DEFINE m == stop - 1
             V == [i \in 1 .. m + 1 |-> fine[i]]
             F == [i \in 1 .. m |-> [y \in Int |-> Carry(tr, d, i, y)]]
  <1>1. Events(tr) = 1 .. n
    BY DEF Events
  <1>2. \A i \in 1 .. n : fine[i] \subseteq Int
    BY <1>1 DEF IsFine
  <1>3. /\ m \in Nat /\ m + 1 = stop /\ x \in V[m + 1]
        /\ V \in [1 .. m + 1 -> SUBSET Int]
    BY <1>2
  <1>4. ASSUME NEW i \in 1 .. m, NEW y \in V[i + 1]
        PROVE  F[i][y] \in V[i]
    <2>1. i \in 1 .. n - 1 /\ y \in fine[i + 1] /\ y \in Int
      BY <1>3, <1>4
    <2>2. Carry(tr, d, i, y) \in fine[i]
      BY <2>1, CarryFine
    <2> QED
      BY <2>1, <2>2
  <1>5. PICK f : Solution(m, V, F, x, f)
    <2>1. Stays(m, V, F)
      <3> HIDE DEF F, V
      <3> QED
        BY <1>3, <1>4 DEF Stays
    <2> HIDE DEF F, V, m
    <2> QED
      BY <1>3, <2>1, Recursion
  <1>6. f \in [1 .. stop -> Int] /\ f[stop] = x /\ \A i \in 1 .. stop : f[i] \in fine[i]
    BY <1>3, <1>5 DEF Solution
  <1>7. ASSUME NEW i \in 1 .. stop - 1
        PROVE  f[i] = Carry(tr, d, i, f[i + 1])
    <2>1. i + 1 \in 1 .. stop /\ i \in 1 .. m
      BY <1>3
    <2>2. f[i + 1] \in Int /\ f[i] = F[i][f[i + 1]]
      BY <1>5, <1>6, <2>1 DEF Solution
    <2> QED
      BY <2>1, <2>2
  <1>8. ASSUME NEW i \in 1 .. stop
        PROVE  Across(tr, d, i, stop, x) = f[i]
    <2> DEFINE back == CHOOSE g : g = [k \in i .. stop |-> IF k = stop THEN x ELSE Carry(tr, d, k, g[k + 1])]
               own  == [k \in i .. stop |-> f[k]]
    <2>1. own = [k \in i .. stop |-> IF k = stop THEN x ELSE Carry(tr, d, k, own[k + 1])]
      <3>1. ASSUME NEW k \in i .. stop
            PROVE  own[k] = IF k = stop THEN x ELSE Carry(tr, d, k, own[k + 1])
        <4>1. CASE k = stop
          BY <1>6, <4>1
        <4>2. CASE k # stop
          <5>1. k \in 1 .. stop - 1 /\ k + 1 \in i .. stop
            BY <4>2
          <5>2. own[k] = f[k] /\ own[k + 1] = f[k + 1]
            BY <5>1
          <5> HIDE DEF own
          <5> QED
            BY <1>7, <4>2, <5>1, <5>2
        <4> QED
          BY <4>1, <4>2
      <3>2. own = [k \in i .. stop |-> own[k]]
        OBVIOUS
      <3> HIDE DEF own
      <3> QED
        BY <3>1, <3>2
    <2>2. back = [k \in i .. stop |-> IF k = stop THEN x ELSE Carry(tr, d, k, back[k + 1])]
      <3> HIDE DEF own
      <3> QED
        BY <2>1
    <2>3. Across(tr, d, i, stop, x) = back[i]
      BY DEF Across
    <2> HIDE DEF back, own
    <2> DEFINE S == {k \in 1 .. stop : k \in i .. stop => back[k] = f[k]}
    <2>4. ASSUME NEW k \in 1 .. stop, \A j \in k + 1 .. stop : j \in S
          PROVE  k \in S
      <3>1. CASE k \notin i .. stop
        BY <3>1
      <3>2. CASE k = stop
        BY <1>6, <2>2, <3>2
      <3>3. CASE k \in i .. stop /\ k # stop
        <4>1. k \in 1 .. stop - 1 /\ k + 1 \in k + 1 .. stop /\ k + 1 \in i .. stop
          BY <3>3
        <4>2. back[k + 1] = f[k + 1]
          BY <2>4, <4>1
        <4>3. back[k] = Carry(tr, d, k, back[k + 1])
          BY <2>2, <3>3
        <4>4. back[k] = f[k]
          BY <1>7, <4>1, <4>2, <4>3
        <4> QED
          BY <4>4
      <3> QED
        BY <3>1, <3>2, <3>3
    <2>5. S = 1 .. stop
      <3>1. S \in SUBSET (1 .. stop) /\ stop \in Nat \ {0}
        OBVIOUS
      <3> HIDE DEF S
      <3> QED
        BY <2>4, <3>1, Backwards
    <2>6. i \in S
      BY <2>5
    <2> QED
      BY <2>3, <2>6
  <1> QED
    BY <1>6, <1>7, <1>8 DEF Worth

\* Without a discount a segment carries a number back as it is.
LEMMA AcrossNone ==
  ASSUME NEW tr, NEW n \in Nat \ {0}, Length(tr) = n,
         NEW stop \in 1 .. n, NEW i \in 1 .. stop, NEW x \in Int
  PROVE  Across(tr, None, i, stop, x) = x
  <1> DEFINE back == CHOOSE g : g = [k \in i .. stop |-> IF k = stop THEN x ELSE Carry(tr, None, k, g[k + 1])]
             own  == [k \in i .. stop |-> x]
  <1>1. \A k \in 1 .. stop - 1 : Carry(tr, None, k, x) = x
    BY CarryNone
  <1>2. own = [k \in i .. stop |-> IF k = stop THEN x ELSE Carry(tr, None, k, own[k + 1])]
    <2>1. ASSUME NEW k \in i .. stop
          PROVE  x = IF k = stop THEN x ELSE Carry(tr, None, k, own[k + 1])
      <3>1. CASE k = stop
        BY <3>1
      <3>2. CASE k # stop
        <4>1. k \in 1 .. stop - 1 /\ k + 1 \in i .. stop
          BY <3>2
        <4>2. own[k + 1] = x
          BY <4>1
        <4> HIDE DEF own
        <4> QED
          BY <1>1, <3>2, <4>1, <4>2
      <3> QED
        BY <3>1, <3>2
    <2> QED
      BY <2>1
  <1>3. back = [k \in i .. stop |-> IF k = stop THEN x ELSE Carry(tr, None, k, back[k + 1])]
    <2> HIDE DEF own
    <2> QED
      BY <1>2
  <1>4. Across(tr, None, i, stop, x) = back[i]
    BY DEF Across
  <1> HIDE DEF back, own
  <1> DEFINE S == {k \in 1 .. stop : k \in i .. stop => back[k] = x}
  <1>5. ASSUME NEW k \in 1 .. stop, \A j \in k + 1 .. stop : j \in S
        PROVE  k \in S
    <2>1. CASE k \notin i .. stop
      BY <2>1
    <2>2. CASE k = stop
      BY <1>3, <2>2
    <2>3. CASE k \in i .. stop /\ k # stop
      <3>1. k \in 1 .. stop - 1 /\ k + 1 \in k + 1 .. stop /\ k + 1 \in i .. stop
        BY <2>3
      <3>2. back[k + 1] = x
        BY <1>5, <3>1
      <3>3. back[k] = Carry(tr, None, k, back[k + 1])
        BY <1>3, <2>3
      <3>4. back[k] = x
        BY <1>1, <3>1, <3>2, <3>3
      <3> QED
        BY <3>4
    <2> QED
      BY <2>1, <2>2, <2>3
  <1>6. S = 1 .. stop
    <2>1. S \in SUBSET (1 .. stop) /\ stop \in Nat \ {0}
      OBVIOUS
    <2> HIDE DEF S
    <2> QED
      BY <1>5, <2>1, Backwards
  <1>7. i \in S
    BY <1>6
  <1> QED
    BY <1>4, <1>7

\* Carrying a number back and carrying the rest back carries the whole back.
LEMMA AcrossParts ==
  ASSUME NEW tr, NEW v, NEW d \in Discounts, NEW fine, IsFine(tr, v, d, fine),
         NEW n \in Nat \ {0}, Length(tr) = n, NEW stop \in 1 .. n, NEW i \in 1 .. stop,
         NEW x \in fine[stop], NEW y \in fine[stop]
  PROVE  /\ Across(tr, d, i, stop, x) \in Int /\ Across(tr, d, i, stop, y) \in Int
         /\ Across(tr, d, i, stop, x) + Across(tr, d, i, stop, y - x) = Across(tr, d, i, stop, y)
  <1>1. Events(tr) = 1 .. n
    BY DEF Events
  <1>2. y - x \in fine[stop] /\ x \in Int /\ y \in Int
    BY <1>1 DEF IsFine
  <1>3. PICK f : Worth(tr, d, fine, stop, x, f)
    BY AcrossIs
  <1>4. PICK g : Worth(tr, d, fine, stop, y - x, g)
    BY <1>2, AcrossIs
  <1>5. PICK h : Worth(tr, d, fine, stop, y, h)
    BY AcrossIs
  <1>6. /\ f \in [1 .. stop -> Int] /\ g \in [1 .. stop -> Int] /\ h \in [1 .. stop -> Int]
        /\ f[stop] = x /\ g[stop] = y - x /\ h[stop] = y
        /\ \A k \in 1 .. stop :
             /\ f[k] \in fine[k] /\ Across(tr, d, k, stop, x) = f[k]
             /\ g[k] \in fine[k] /\ Across(tr, d, k, stop, y - x) = g[k]
             /\ Across(tr, d, k, stop, y) = h[k]
        /\ \A k \in 1 .. stop - 1 :
             /\ f[k] = Carry(tr, d, k, f[k + 1])
             /\ g[k] = Carry(tr, d, k, g[k + 1])
             /\ h[k] = Carry(tr, d, k, h[k + 1])
    BY <1>3, <1>4, <1>5 DEF Worth
  <1> DEFINE S == {k \in 1 .. stop : f[k] + g[k] = h[k]}
  <1>7. ASSUME NEW k \in 1 .. stop, \A j \in k + 1 .. stop : j \in S
        PROVE  k \in S
    <2>1. CASE k = stop
      BY <1>2, <1>6, <2>1
    <2>2. CASE k # stop
      <3>1. k \in 1 .. stop - 1 /\ k \in 1 .. n - 1 /\ k + 1 \in 1 .. stop /\ k + 1 \in k + 1 .. stop
        BY <2>2
      <3>2. f[k + 1] \in fine[k + 1] /\ g[k + 1] \in fine[k + 1] /\ f[k + 1] + g[k + 1] = h[k + 1]
        BY <1>6, <1>7, <3>1
      <3>3. Carry(tr, d, k, f[k + 1] + g[k + 1]) = Carry(tr, d, k, f[k + 1]) + Carry(tr, d, k, g[k + 1])
        <4>1. \A a, b \in fine[k + 1] : Carry(tr, d, k, a + b) = Carry(tr, d, k, a) + Carry(tr, d, k, b)
          <5> TAKE a, b \in fine[k + 1]
          <5> QED
            BY <3>1, CarrySum
        <4> QED
          BY <3>2, <4>1
      <3>4. f[k] + g[k] = h[k]
        BY <1>6, <3>1, <3>2, <3>3
      <3> QED
        BY <3>4
    <2> QED
      BY <2>1, <2>2
  <1>8. S = 1 .. stop
    <2>1. S \in SUBSET (1 .. stop) /\ stop \in Nat \ {0}
      OBVIOUS
    <2> HIDE DEF S
    <2> QED
      BY <1>7, <2>1, Backwards
  <1>9. f[i] + g[i] = h[i]
    BY <1>8
  <1> QED
    BY <1>6, <1>9

\* A segment's reward, with the return after it carried back, is the return
\* at its beginning.
LEMMA SegmentIs ==
  ASSUME NEW tr, NEW v, NEW d \in Discounts, NEW fine, IsFine(tr, v, d, fine),
         NEW n \in Nat \ {0}, Length(tr) = n, NEW stop \in 2 .. n + 1, NEW i \in 1 .. stop - 1
  PROVE  /\ SegmentReward(tr, d, i, stop) \in Int
         /\ SegmentReward(tr, d, i, stop)
              + (IF stop = n + 1 THEN 0 ELSE Across(tr, d, i, stop, Returns(tr, d)[stop]))
              = Returns(tr, d)[i]
  <1> DEFINE R == Returns(tr, d)
  <1>1. Events(tr) = 1 .. n
    BY DEF Events
  <1>2. /\ \A k \in 1 .. n : R[k] \in fine[k] /\ fine[k] \subseteq Int
        /\ \A k \in 1 .. n : R[k] = Reward(tr, k) + (IF k = n THEN 0 ELSE Carry(tr, d, k, R[k + 1]))
    <2>1. \A k \in 1 .. n :
            /\ R[k] \in fine[k]
            /\ R[k] = Reward(tr, k) + (IF k = n THEN 0 ELSE Carry(tr, d, k, R[k + 1]))
      BY ReturnsAre
    <2>2. \A k \in 1 .. n : fine[k] \subseteq Int
      BY <1>1 DEF IsFine
    <2> QED
      BY <2>1, <2>2
  <1>3. \A k \in 1 .. n : Reward(tr, k) \in fine[k] /\ 0 \in fine[k]
    BY <1>1 DEF IsFine
  <1> HIDE DEF R
  <1>4. PICK f : /\ stop # n + 1 => f \in [1 .. stop -> Int] /\ f[stop] = R[stop]
                 /\ \A k \in 1 .. stop - 1 :
                      /\ f[k] = IF stop = n + 1 THEN 0 ELSE Across(tr, d, k, stop, R[stop])
                      /\ f[k] \in fine[k]
                      /\ f[k] = IF k + 1 = n + 1 THEN 0 ELSE Carry(tr, d, k, f[k + 1])
    <2>1. CASE stop = n + 1
      <3> DEFINE f == [k \in 1 .. n |-> 0]
      <3>1. \A k \in 1 .. n - 1 : Carry(tr, d, k, 0) = 0
        BY CarryZero
      <3>2. \A k \in 1 .. n : f[k] = 0 /\ f[k] \in fine[k]
        BY <1>3
      <3>3. \A k \in 1 .. n : f[k] = IF k + 1 = n + 1 THEN 0 ELSE Carry(tr, d, k, f[k + 1])
        <4> SUFFICES ASSUME NEW k \in 1 .. n, k # n
                     PROVE  f[k] = Carry(tr, d, k, f[k + 1])
          BY <3>2
        <4>1. k \in 1 .. n - 1 /\ f[k + 1] = 0 /\ f[k] = 0
          OBVIOUS
        <4> QED
          BY <3>1, <4>1
      <3>4. stop - 1 = n
        BY <2>1
      <3> HIDE DEF f
      <3> QED
        BY <2>1, <3>2, <3>3, <3>4
    <2>2. CASE stop # n + 1
      <3>1. stop \in 1 .. n /\ R[stop] \in fine[stop]
        BY <1>2, <2>2
      <3>2. PICK f : Worth(tr, d, fine, stop, R[stop], f)
        BY <3>1, AcrossIs
      <3>3. \A k \in 1 .. stop - 1 : k \in 1 .. stop /\ k + 1 # n + 1
        BY <3>1
      <3> QED
        BY <2>2, <3>2, <3>3 DEF Worth
    <2> QED
      BY <2>1, <2>2
  <1> DEFINE sum == CHOOSE g : g = [k \in i .. stop |->
                      IF k = stop THEN 0 ELSE Reward(tr, k) + Carry(tr, d, k, g[k + 1])]
             own == [k \in i .. stop |-> IF k = stop THEN 0 ELSE R[k] - f[k]]
  <1>5. ASSUME NEW k \in 1 .. stop - 1, NEW z,
               z = IF k + 1 = stop THEN 0 ELSE R[k + 1] - f[k + 1]
        PROVE  Reward(tr, k) + Carry(tr, d, k, z) = R[k] - f[k]
    <2>0. k \in 1 .. n
      OBVIOUS
    <2>1. k \in 1 .. n /\ R[k] \in Int /\ f[k] \in Int /\ Reward(tr, k) \in Int
      BY <1>2, <1>3, <1>4, <2>0
    <2>2. CASE k = n
      <3>1. Carry(tr, d, k, z) = 0
        BY <2>2 DEF Carry
      <3> QED
        BY <1>2, <1>4, <2>1, <2>2, <3>1
    <2>3. CASE k # n /\ k + 1 = stop
      <3>1. k \in 1 .. n - 1 /\ stop \in 1 .. n /\ k + 1 # n + 1
        BY <2>1, <2>3
      <3>2. Carry(tr, d, k, 0) = 0
        BY <2>3, CarryZero
      <3>3. f[k] = Carry(tr, d, k, R[k + 1])
        BY <1>4, <2>3, <3>1
      <3>4. R[k] = Reward(tr, k) + Carry(tr, d, k, R[k + 1])
        BY <1>2, <2>1, <2>3
      <3> QED
        BY <1>5, <2>1, <2>3, <3>2, <3>3, <3>4
    <2>4. CASE k # n /\ k + 1 # stop
      <3>1. k \in 1 .. n - 1 /\ k + 1 \in 1 .. stop - 1 /\ k + 1 \in 1 .. n /\ k + 1 # n + 1
        BY <2>1, <2>4
      <3>2. R[k + 1] \in fine[k + 1] /\ f[k + 1] \in fine[k + 1]
        BY <1>2, <1>4, <3>1
      <3>3. Carry(tr, d, k, z) = Carry(tr, d, k, R[k + 1]) - Carry(tr, d, k, f[k + 1])
        <4>1. \A a, b \in fine[k + 1] : Carry(tr, d, k, a - b) = Carry(tr, d, k, a) - Carry(tr, d, k, b)
          <5> TAKE a, b \in fine[k + 1]
          <5> QED
            BY <3>1, CarryDifference
        <4> QED
          BY <1>5, <2>4, <3>2, <4>1
      <3>4. Carry(tr, d, k, R[k + 1]) \in Int /\ Carry(tr, d, k, f[k + 1]) \in Int
        BY <3>1, <3>2, CarryFine
      <3>5. R[k] = Reward(tr, k) + Carry(tr, d, k, R[k + 1]) /\ f[k] = Carry(tr, d, k, f[k + 1])
        BY <1>2, <1>4, <2>1, <2>4, <3>1
      <3> QED
        BY <2>1, <3>3, <3>4, <3>5
    <2> QED
      BY <2>2, <2>3, <2>4
  <1>6. own = [k \in i .. stop |-> IF k = stop THEN 0 ELSE Reward(tr, k) + Carry(tr, d, k, own[k + 1])]
    <2>1. ASSUME NEW k \in i .. stop
          PROVE  own[k] = IF k = stop THEN 0 ELSE Reward(tr, k) + Carry(tr, d, k, own[k + 1])
      <3>1. CASE k = stop
        BY <3>1
      <3>2. CASE k # stop
        <4>1. k \in 1 .. stop - 1 /\ k + 1 \in i .. stop
          BY <3>2
        <4>2. own[k] = R[k] - f[k] /\ own[k + 1] = IF k + 1 = stop THEN 0 ELSE R[k + 1] - f[k + 1]
          BY <3>2, <4>1
        <4> HIDE DEF own
        <4> QED
          BY <1>5, <3>2, <4>1, <4>2
      <3> QED
        BY <3>1, <3>2
    <2>2. own = [k \in i .. stop |-> own[k]]
      OBVIOUS
    <2> HIDE DEF own
    <2> QED
      BY <2>1, <2>2
  <1>7. sum = [k \in i .. stop |-> IF k = stop THEN 0 ELSE Reward(tr, k) + Carry(tr, d, k, sum[k + 1])]
    <2> HIDE DEF own
    <2> QED
      BY <1>6
  <1>8. SegmentReward(tr, d, i, stop) = sum[i]
    BY DEF SegmentReward
  <1> HIDE DEF sum, own
  <1> DEFINE S == {k \in 1 .. stop : k \in i .. stop => sum[k] = IF k = stop THEN 0 ELSE R[k] - f[k]}
  <1>9. ASSUME NEW k \in 1 .. stop, \A j \in k + 1 .. stop : j \in S
        PROVE  k \in S
    <2>1. CASE k \notin i .. stop
      BY <2>1
    <2>2. CASE k = stop
      <3>1. stop \in i .. stop
        OBVIOUS
      <3> QED
        BY <1>7, <2>2, <3>1
    <2>3. CASE k \in i .. stop /\ k # stop
      <3>1. k \in 1 .. stop - 1 /\ k + 1 \in k + 1 .. stop /\ k + 1 \in i .. stop
        BY <2>3
      <3>2. sum[k + 1] = IF k + 1 = stop THEN 0 ELSE R[k + 1] - f[k + 1]
        BY <1>9, <3>1
      <3>3. sum[k] = Reward(tr, k) + Carry(tr, d, k, sum[k + 1])
        BY <1>7, <2>3
      <3>4. sum[k] = R[k] - f[k]
        BY <1>5, <3>1, <3>2, <3>3
      <3> QED
        BY <2>3, <3>4
    <2> QED
      BY <2>1, <2>2, <2>3
  <1>10. S = 1 .. stop
    <2>1. S \in SUBSET (1 .. stop) /\ stop \in Nat \ {0}
      OBVIOUS
    <2> HIDE DEF S
    <2> QED
      BY <1>9, <2>1, Backwards
  <1>11. i \in S /\ i \in i .. stop /\ i # stop
    BY <1>10
  <1>12. sum[i] = R[i] - f[i] /\ R[i] \in Int /\ f[i] \in Int
    BY <1>2, <1>4, <1>11
  <1> QED
    BY <1>4, <1>8, <1>12 DEF R

-----------------------------------------------------------------------------
\* With full traces the team's recursion is the return less the baseline.
LEMMA TeamIs ==
  ASSUME NEW tr, NEW v, NEW d \in Discounts, NEW fine, IsFine(tr, v, d, fine),
         NEW n \in Nat \ {0}, Length(tr) = n
  PROVE  \A i \in 1 .. n : TeamAdvantages(tr, v, d, None)[i] = Returns(tr, d)[i] - v[i]
  <1> DEFINE R == Returns(tr, d)
             A == CHOOSE g : g = [i \in Events(tr) |->
                    Reward(tr, i) - v[i]
                      + (IF i = Length(tr) THEN 0
                         ELSE Carry(tr, d, i, v[i + 1]) + Carry(tr, d, i, Carry(tr, None, i, g[i + 1])))]
             w == [i \in 1 .. n |-> R[i] - v[i]]
  <1>1. Events(tr) = 1 .. n
    BY DEF Events
  <1>2. \A i \in 1 .. n : /\ R[i] \in fine[i]
                          /\ R[i] = Reward(tr, i) + (IF i = n THEN 0 ELSE Carry(tr, d, i, R[i + 1]))
    BY ReturnsAre
  <1> HIDE DEF R
  <1>3. \A i \in 1 .. n : /\ R[i] \in Int /\ v[i] \in Int /\ v[i] \in fine[i] /\ R[i] - v[i] \in fine[i]
                          /\ R[i] - v[i] \in Int /\ Reward(tr, i) \in Int
    BY <1>1, <1>2 DEF IsFine
  <1>4. ASSUME NEW i \in 1 .. n, NEW a, i # n => a = R[i + 1] - v[i + 1]
        PROVE  Reward(tr, i) - v[i]
                 + (IF i = n THEN 0 ELSE Carry(tr, d, i, v[i + 1]) + Carry(tr, d, i, Carry(tr, None, i, a)))
                 = R[i] - v[i]
    <2>1. CASE i = n
      BY <1>2, <1>3, <2>1
    <2>2. CASE i # n
      <3>1. i \in 1 .. n - 1 /\ i + 1 \in 1 .. n
        BY <2>2
      <3>2. /\ R[i + 1] \in fine[i + 1] /\ v[i + 1] \in fine[i + 1] /\ R[i + 1] - v[i + 1] \in Int
            /\ a = R[i + 1] - v[i + 1]
        BY <1>2, <1>3, <1>4, <2>2, <3>1
      <3>3. Carry(tr, None, i, a) = a
        BY <2>2, <3>2, CarryNone
      <3>4. Carry(tr, d, i, R[i + 1] - v[i + 1]) = Carry(tr, d, i, R[i + 1]) - Carry(tr, d, i, v[i + 1])
        BY <3>1, <3>2, CarryDifference
      <3>5. Carry(tr, d, i, R[i + 1]) \in Int /\ Carry(tr, d, i, v[i + 1]) \in Int
        BY <3>1, <3>2, CarryFine
      <3>6. R[i] = Reward(tr, i) + Carry(tr, d, i, R[i + 1])
        BY <1>2, <2>2
      <3>7. R[i] \in Int /\ v[i] \in Int /\ Reward(tr, i) \in Int
        BY <1>3
      <3>8. Carry(tr, d, i, Carry(tr, None, i, a)) = Carry(tr, d, i, R[i + 1]) - Carry(tr, d, i, v[i + 1])
        BY <3>2, <3>3, <3>4
      <3> QED
        BY <2>2, <3>5, <3>6, <3>7, <3>8
    <2> QED
      BY <2>1, <2>2
  <1>5. \E g : g = [i \in Events(tr) |->
                 Reward(tr, i) - v[i]
                   + (IF i = Length(tr) THEN 0
                      ELSE Carry(tr, d, i, v[i + 1]) + Carry(tr, d, i, Carry(tr, None, i, g[i + 1])))]
    <2>1. \A i \in 1 .. n : w[i] = R[i] - v[i] /\ (i # n => w[i + 1] = R[i + 1] - v[i + 1])
      OBVIOUS
    <2>2. w = [i \in 1 .. n |-> w[i]]
      OBVIOUS
    <2> HIDE DEF w
    <2>3. \A i \in 1 .. n : w[i] = Reward(tr, i) - v[i]
            + (IF i = n THEN 0
               ELSE Carry(tr, d, i, v[i + 1]) + Carry(tr, d, i, Carry(tr, None, i, w[i + 1])))
      BY <1>4, <2>1
    <2>4. w = [i \in Events(tr) |->
                 Reward(tr, i) - v[i]
                   + (IF i = Length(tr) THEN 0
                      ELSE Carry(tr, d, i, v[i + 1]) + Carry(tr, d, i, Carry(tr, None, i, w[i + 1])))]
      BY <1>1, <2>2, <2>3
    <2> QED
      BY <2>4
  <1>6. A = [i \in Events(tr) |->
               Reward(tr, i) - v[i]
                 + (IF i = Length(tr) THEN 0
                    ELSE Carry(tr, d, i, v[i + 1]) + Carry(tr, d, i, Carry(tr, None, i, A[i + 1])))]
    BY <1>5
  <1>7. TeamAdvantages(tr, v, d, None) = PerEvent(tr, A)
    BY DEF TeamAdvantages
  <1> HIDE DEF A, w
  <1> DEFINE S == {i \in 1 .. n : A[i] = R[i] - v[i]}
  <1>8. ASSUME NEW i \in 1 .. n, \A j \in i + 1 .. n : j \in S
        PROVE  i \in S
    <2>1. i # n => A[i + 1] = R[i + 1] - v[i + 1]
      <3>1. i # n => i + 1 \in i + 1 .. n
        OBVIOUS
      <3> QED
        BY <1>8, <3>1
    <2>2. A[i] = Reward(tr, i) - v[i]
            + (IF i = n THEN 0
               ELSE Carry(tr, d, i, v[i + 1]) + Carry(tr, d, i, Carry(tr, None, i, A[i + 1])))
      BY <1>1, <1>6
    <2>3. A[i] = R[i] - v[i]
      BY <1>4, <2>1, <2>2
    <2> QED
      BY <2>3
  <1>9. \A i \in 1 .. n : A[i] = R[i] - v[i]
    <2>1. S \in SUBSET (1 .. n)
      OBVIOUS
    <2>2. S = 1 .. n
      <3> HIDE DEF S
      <3> QED
        BY <1>8, <2>1, Backwards
    <2> QED
      BY <2>2
  <1>10. PerEvent(tr, A) = [i \in 1 .. n |-> A[i]]
    <2>1. A = [i \in 1 .. n |-> A[i]]
      BY <1>1, <1>6
    <2>2. A \in Seq(Int) /\ Len(A) = n
      BY <1>3, <1>9, <2>1
    <2> QED
      BY <2>1, <2>2 DEF PerEvent
  <1> QED
    BY <1>7, <1>9, <1>10 DEF R

\* An agent's next decision comes later, or the trajectory ends before it.
LEMMA NextOwnLater ==
  ASSUME NEW tr, NEW n \in Nat \ {0}, Length(tr) = n, NEW i \in 1 .. n
  PROVE  NextOwn(tr, i) \in i + 1 .. n + 1
  <1> DEFINE S == {n + 1} \cup {j \in EventsOf(tr, Agent(tr, i)) : j > i}
  <1>1. Events(tr) = 1 .. n
    BY DEF Events
  <1>2. S \in SUBSET Nat /\ S # {} /\ S \subseteq i + 1 .. n + 1
    BY <1>1 DEF EventsOf
  <1>3. NextOwn(tr, i) = Min(S)
    BY DEF NextOwn
  <1> HIDE DEF S
  <1>4. \E m \in S : \A j \in S : m <= j
    BY <1>2, LeastNatural
  <1>5. Min(S) \in S
    BY <1>4 DEF Min
  <1> QED
    BY <1>2, <1>3, <1>5

\* With full traces an agent's own recursion is the same.
LEMMA LocalIs ==
  ASSUME NEW tr, NEW v, NEW d \in Discounts, NEW fine, IsFine(tr, v, d, fine),
         NEW n \in Nat \ {0}, Length(tr) = n
  PROVE  \A i \in 1 .. n : LocalAdvantages(tr, v, d, None)[i] = Returns(tr, d)[i] - v[i]
  <1> DEFINE R == Returns(tr, d)
             Own(i, x) == SegmentReward(tr, d, i, NextOwn(tr, i)) - v[i]
                            + (IF NextOwn(tr, i) \notin Events(tr) THEN 0
                               ELSE Across(tr, d, i, NextOwn(tr, i), v[NextOwn(tr, i)])
                                      + Across(tr, d, i, NextOwn(tr, i), Across(tr, None, i, NextOwn(tr, i), x)))
             A == CHOOSE g : g = [i \in Events(tr) |-> Own(i, g[NextOwn(tr, i)])]
             w == [i \in 1 .. n |-> R[i] - v[i]]
  <1>1. Events(tr) = 1 .. n
    BY DEF Events
  <1>2. \A i \in 1 .. n : R[i] \in fine[i]
    BY ReturnsAre
  <1>3. \A i \in 1 .. n : /\ R[i] \in Int /\ v[i] \in Int /\ v[i] \in fine[i] /\ R[i] - v[i] \in fine[i]
                          /\ R[i] - v[i] \in Int
    <2> HIDE DEF R
    <2> QED
      BY <1>1, <1>2 DEF IsFine
  <1>4. ASSUME NEW i \in 1 .. n, NEW x,
               NextOwn(tr, i) \in 1 .. n => x = R[NextOwn(tr, i)] - v[NextOwn(tr, i)]
        PROVE  Own(i, x) = R[i] - v[i]
    <2> DEFINE stop == NextOwn(tr, i)
               seg == SegmentReward(tr, d, i, stop)
    <2>1. stop \in i + 1 .. n + 1
      BY NextOwnLater
    <2>2. stop \in 2 .. n + 1 /\ i \in 1 .. stop - 1
      BY <2>1
    <2>3. seg \in Int /\ seg + (IF stop = n + 1 THEN 0 ELSE Across(tr, d, i, stop, R[stop])) = R[i]
      <3> HIDE DEF stop
      <3> QED
        BY <2>2, SegmentIs
    <2> HIDE DEF R
    <2>4. CASE stop = n + 1
      <3>1. Own(i, x) = seg - v[i] + 0
        BY <1>1, <2>4
      <3> HIDE DEF Own, stop, seg
      <3> QED
        BY <1>3, <2>3, <2>4, <3>1
    <2>5. CASE stop # n + 1
      <3>1. stop \in 1 .. n /\ i \in 1 .. stop
        BY <2>1, <2>5
      <3>2. Own(i, x) = seg - v[i] + (Across(tr, d, i, stop, v[stop])
                                        + Across(tr, d, i, stop, Across(tr, None, i, stop, x)))
        BY <1>1, <3>1
      <3>3. x = R[stop] - v[stop]
        BY <1>4, <3>1
      <3> HIDE DEF Own, stop, seg
      <3>4. R[stop] \in fine[stop] /\ v[stop] \in fine[stop] /\ x \in Int
        BY <1>2, <1>3, <3>1, <3>3
      <3>5. Across(tr, None, i, stop, x) = x
        BY <3>1, <3>4, AcrossNone
      <3>6. /\ Across(tr, d, i, stop, v[stop]) + Across(tr, d, i, stop, R[stop] - v[stop])
                 = Across(tr, d, i, stop, R[stop])
        BY <3>1, <3>4, AcrossParts
      <3>7. Across(tr, d, i, stop, R[stop]) \in Int
        BY <3>1, <3>4, AcrossParts
      <3>8. Own(i, x) = seg - v[i] + Across(tr, d, i, stop, R[stop])
        BY <3>2, <3>3, <3>5, <3>6
      <3> QED
        BY <1>3, <2>3, <2>5, <3>7, <3>8
    <2> QED
      BY <2>4, <2>5
  <1> HIDE DEF R
  <1>5. w = [i \in Events(tr) |-> Own(i, w[NextOwn(tr, i)])]
    <2>1. ASSUME NEW i \in 1 .. n PROVE w[i] = Own(i, w[NextOwn(tr, i)])
      <3>1. NextOwn(tr, i) \in 1 .. n => w[NextOwn(tr, i)] = R[NextOwn(tr, i)] - v[NextOwn(tr, i)]
        OBVIOUS
      <3>2. w[i] = R[i] - v[i]
        OBVIOUS
      <3> HIDE DEF w, Own
      <3> QED
        BY <1>4, <3>1, <3>2
    <2>2. w = [i \in 1 .. n |-> w[i]]
      OBVIOUS
    <2> HIDE DEF w, Own
    <2> QED
      BY <1>1, <2>1, <2>2
  <1>6. LocalAdvantages(tr, v, d, None) = PerEvent(tr, A)
    BY DEF LocalAdvantages
  <1>7. A = [i \in Events(tr) |-> Own(i, A[NextOwn(tr, i)])]
    <2> HIDE DEF w, Own
    <2> QED
      BY <1>5
  <1> HIDE DEF A, w, Own
  <1> DEFINE S == {i \in 1 .. n : A[i] = R[i] - v[i]}
  <1>8. ASSUME NEW i \in 1 .. n, \A j \in i + 1 .. n : j \in S
        PROVE  i \in S
    <2>1. NextOwn(tr, i) \in i + 1 .. n + 1
      BY NextOwnLater
    <2>2. NextOwn(tr, i) \in 1 .. n => NextOwn(tr, i) \in i + 1 .. n
      BY <2>1
    <2>3. NextOwn(tr, i) \in 1 .. n => A[NextOwn(tr, i)] = R[NextOwn(tr, i)] - v[NextOwn(tr, i)]
      BY <1>8, <2>2
    <2>4. A[i] = Own(i, A[NextOwn(tr, i)])
      BY <1>1, <1>7
    <2>5. A[i] = R[i] - v[i]
      BY <1>4, <2>3, <2>4
    <2> QED
      BY <2>5
  <1>9. \A i \in 1 .. n : A[i] = R[i] - v[i]
    <2>1. S \in SUBSET (1 .. n)
      OBVIOUS
    <2>2. S = 1 .. n
      <3> HIDE DEF S
      <3> QED
        BY <1>8, <2>1, Backwards
    <2> QED
      BY <2>2
  <1>10. PerEvent(tr, A) = [i \in 1 .. n |-> A[i]]
    <2>1. A = [i \in 1 .. n |-> A[i]]
      BY <1>1, <1>7
    <2>2. A \in Seq(Int) /\ Len(A) = n
      BY <1>3, <1>9, <2>1
    <2> QED
      BY <2>1, <2>2 DEF PerEvent
  <1> QED
    BY <1>6, <1>9, <1>10 DEF R

-----------------------------------------------------------------------------
\* A chain has an event.
LEMMA ChainsAreNotEmpty ==
  ASSUME NEW tr \in ChainsOf(engine)
  PROVE  Length(tr) \in Nat \ {0}
  <1>1. Len(tr.acts) \in 1 .. MaxLoop
    <2>1. CASE engine = "math_answer_loto"
      BY <2>1, MathShape DEF ChainsOf
    <2>2. CASE engine # "math_answer_loto"
      <3>1. PICK found \in SUBSET (Keys \cup {NoDocs}) : tr \in SearchChains(found)
        BY <2>2 DEF ChainsOf
      <3> QED
        BY <3>1, SearchShape
    <2> QED
      BY <2>1, <2>2
  <1> QED
    BY <1>1, CreditAssumption DEF Length

(* The inductive invariant: the group is one of whole trajectories, and    *)
(* the advantages are those of the baselines at hand.                      *)
CreditInv ==
  /\ \A t \in DOMAIN group : group[t] \in ChainsOf(engine)
  /\ stage # "rollout" => DOMAIN group = Trajectories
  /\ gamma \in Discounts
  /\ stage = "done" =>
       /\ \A t \in Trajectories : team[t] = TeamAdvantages(group[t], values[t], gamma, lam)
       /\ ~ IsStrict =>
            \A t \in Trajectories : local[t] = LocalAdvantages(group[t], values[t], gamma, lam)

\* It holds at all times.
LEMMA CreditInductive == CreditSpec => []CreditInv
  <1>1. CreditInit => CreditInv
    BY CreditAssumption DEF CreditInit, CreditInv, Nothing, None
  <1>2. CreditInv /\ [CreditNext]_creditVars => CreditInv'
    <2> SUFFICES ASSUME CreditInv, [CreditNext]_creditVars PROVE CreditInv'
      OBVIOUS
    <2>1. ASSUME NEW t \in Trajectories, FinishTrajectory(t) PROVE CreditInv'
      <3>1. PICK tr \in ChainsOf(engine) : group' = Extended(t, tr)
        BY <2>1 DEF FinishTrajectory
      <3>2. engine' = engine /\ gamma' = gamma /\ stage = "rollout"
        BY <2>1 DEF FinishTrajectory
      <3>3. \A u \in DOMAIN group' : group'[u] \in ChainsOf(engine)
        BY <3>1 DEF Extended, CreditInv
      <3>4. /\ stage' # "rollout" => DOMAIN group' = Trajectories
            /\ stage' # "done"
        BY <2>1, <3>2 DEF FinishTrajectory
      <3>5. ChainsOf(engine)' = ChainsOf(engine)
        BY <3>2 DEF ChainsOf
      <3> QED
        BY <3>2, <3>3, <3>4, <3>5 DEF CreditInv
    <2>2. ASSUME NEW d \in Discounts, Estimate(d) PROVE CreditInv'
      BY <2>2 DEF Estimate, CreditInv, ChainsOf
    <2>3. ASSUME NEW d \in Discounts, NEW blend \in BOOLEAN, Advantage(d, blend) PROVE CreditInv'
      <3>1. /\ UNCHANGED <<engine, group, gamma, values>> /\ stage = "advantages" /\ lam' = d
            /\ team' = [t \in Trajectories |-> TeamAdvantages(group[t], values[t], gamma, d)]
            /\ ~ IsStrict => local' = [t \in Trajectories |-> LocalAdvantages(group[t], values[t], gamma, d)]
        BY <2>3 DEF Advantage
      <3>2. ChainsOf(engine)' = ChainsOf(engine) /\ IsStrict' = IsStrict
        BY <3>1 DEF ChainsOf, IsStrict
      <3> QED
        BY <3>1, <3>2 DEF CreditInv
    <2>4. CASE NextQuestion
      BY <2>4, CreditAssumption DEF NextQuestion, CreditInv, Nothing, None
    <2>5. CASE UNCHANGED creditVars
      <3>1. UNCHANGED <<stage, engine, group, gamma, lam, values, team, local>>
        BY <2>5 DEF creditVars
      <3>2. ChainsOf(engine)' = ChainsOf(engine) /\ IsStrict' = IsStrict
        BY <3>1 DEF ChainsOf, IsStrict
      <3> QED
        BY <3>1, <3>2 DEF CreditInv
    <2> QED
      BY <2>1, <2>2, <2>3, <2>4, <2>5 DEF CreditNext
  <1> QED
    BY <1>1, <1>2, PTL DEF CreditSpec

\* The unit is fine enough for the question at hand.
UnitIsFine ==
  stage = "done" =>
    \A t \in Trajectories : \E fine : IsFine(group[t], values[t], gamma, fine)

\* Without discounts any unit will do that holds the baselines.
LEMMA UndiscountedIsFine ==
  ASSUME NEW tr \in ChainsOf(engine), NEW v, \A i \in Events(tr) : v[i] \in Int
  PROVE  IsFine(tr, v, None, [i \in Events(tr) |-> Int])
  <1>1. \A i \in Events(tr) : Reward(tr, i) \in Int
    <2>1. tr.success \in {0, 1}
      BY DEF ChainsOf, MathChains, SearchChains
    <2> QED
      BY <2>1, CreditAssumption DEF Reward
  <1>2. Events(tr) \subseteq Nat \ {0} /\ \A i \in Events(tr) \ {Length(tr)} : i + 1 \in Events(tr)
    BY ChainsAreNotEmpty DEF Events
  <1>3. \A i, x : Halves(tr, None, i) = 2
    BY DEF Halves, None
  <1>4. \A x \in Int : (x * 2) % 2 = 0 /\ (x * 2) \div 2 \in Int
    OBVIOUS
  <1> QED
    BY <1>1, <1>2, <1>3, <1>4 DEF IsFine

\* A multiple of m added to, taken from or divided like another stays one.
LEMMA Multiples ==
  ASSUME NEW m \in Nat \ {0}
  PROVE  /\ \A k \in Int : m * k \in Int
         /\ \A k, l \in Int : m * k + m * l = m * (k + l) /\ m * k - m * l = m * (k - l)
         /\ \A k \in Int : \A h \in {0, 1, 2} :
              (2 * m * k * h) % 2 = 0 /\ (2 * m * k * h) \div 2 = m * (k * h)
  <1>1. \A k \in Int : m * k \in Int
    OBVIOUS
  <1>2. \A k, l \in Int : m * k + m * l = m * (k + l) /\ m * k - m * l = m * (k - l)
    OBVIOUS
  <1>3. ASSUME NEW k \in Int, NEW h \in {0, 1, 2}
        PROVE  (2 * m * k * h) % 2 = 0 /\ (2 * m * k * h) \div 2 = m * (k * h)
    <2> DEFINE p == m * (k * h)
    <2>1. p \in Int /\ 2 * m * k * h = 2 * p
      OBVIOUS
    <2>2. \A q \in Int : (2 * q) % 2 = 0 /\ (2 * q) \div 2 = q
      OBVIOUS
    <2> HIDE DEF p
    <2>3. (2 * m * k * h) % 2 = 0 /\ (2 * m * k * h) \div 2 = p
      BY <2>1, <2>2
    <2> QED
      BY <2>3 DEF p
  <1> QED
    BY <1>1, <1>2, <1>3

\* With any discounts a unit will do that can be halved once per edge.
LEMMA HalvableIsFine ==
  ASSUME NEW tr \in ChainsOf(engine), NEW v, NEW d \in Discounts,
         NEW m \in [Events(tr) -> Nat \ {0}],
         \A i \in Events(tr) \ {Length(tr)} : m[i + 1] = 2 * m[i],
         \A i \in Events(tr) : \E k, l \in Int : Reward(tr, i) = m[i] * k /\ v[i] = m[i] * l
  PROVE  IsFine(tr, v, d, [i \in Events(tr) |-> {m[i] * k : k \in Int}])
  <1> DEFINE fine == [i \in Events(tr) |-> {m[i] * k : k \in Int}]
  <1>1. \A i \in Events(tr) : m[i] \in Nat \ {0} /\ fine[i] = {m[i] * k : k \in Int}
    OBVIOUS
  <1>2. fine \in [Events(tr) -> SUBSET Int]
    BY <1>1, Multiples
  <1>3. ASSUME NEW i \in Events(tr)
        PROVE  /\ 0 \in fine[i] /\ Reward(tr, i) \in fine[i] /\ v[i] \in fine[i]
               /\ \A x, y \in fine[i] : x + y \in fine[i] /\ x - y \in fine[i]
    <2>1. m[i] * 0 = 0
      BY <1>1
    <2>2. 0 \in fine[i]
      BY <1>1, <2>1
    <2>3. Reward(tr, i) \in fine[i] /\ v[i] \in fine[i]
      BY <1>1
    <2>4. ASSUME NEW x \in fine[i], NEW y \in fine[i]
          PROVE  x + y \in fine[i] /\ x - y \in fine[i]
      <3>1. PICK k \in Int, l \in Int : x = m[i] * k /\ y = m[i] * l
        BY <1>1
      <3>2. x + y = m[i] * (k + l) /\ x - y = m[i] * (k - l)
        BY <1>1, <3>1, Multiples
      <3>3. k + l \in Int /\ k - l \in Int
        OBVIOUS
      <3> QED
        BY <1>1, <3>2, <3>3
    <2> QED
      BY <2>2, <2>3, <2>4
  <1>4. Events(tr) \subseteq Nat \ {0} /\ \A i \in Events(tr) \ {Length(tr)} : i + 1 \in Events(tr)
    BY ChainsAreNotEmpty DEF Events
  <1>5. ASSUME NEW i \in Events(tr) \ {Length(tr)}, NEW x \in fine[i + 1]
        PROVE  (x * Halves(tr, d, i)) % 2 = 0 /\ (x * Halves(tr, d, i)) \div 2 \in fine[i]
    <2>1. PICK k \in Int : x = m[i + 1] * k
      BY <1>1, <1>4
    <2>2. x = 2 * m[i] * k /\ m[i] \in Nat \ {0}
      BY <1>1, <2>1
    <2>3. PICK h \in {0, 1, 2} : h = Halves(tr, d, i)
      BY HalvesAre
    <2>4. (x * h) % 2 = 0 /\ (x * h) \div 2 = m[i] * (k * h)
      BY <2>2, Multiples
    <2>5. k * h \in Int
      OBVIOUS
    <2> QED
      BY <1>1, <2>3, <2>4, <2>5
  <1> QED
    BY <1>2, <1>3, <1>5 DEF IsFine

(* Whatever the lengths of the chains, and however many events of others   *)
(* an agent's own chain skips, with full traces both recursions are the    *)
(* discounted return less the baseline, provided that no division of the   *)
(* fixed-point numbers leaves a rest.                                      *)
THEOREM RecursionsAgree == CreditSpec => [](UnitIsFine => FullTraceIsReturnLessBaseline)
  <1>1. CreditInv /\ UnitIsFine => FullTraceIsReturnLessBaseline
    <2> SUFFICES ASSUME CreditInv, UnitIsFine, stage = "done", lam = None, NEW t \in Trajectories,
                        NEW i \in Events(group[t])
                 PROVE  /\ team[t][i] = Returns(group[t], gamma)[i] - values[t][i]
                        /\ ~ IsStrict => local[t][i] = team[t][i]
      BY DEF FullTraceIsReturnLessBaseline
    <2>1. group[t] \in ChainsOf(engine) /\ gamma \in Discounts
      BY DEF CreditInv
    <2>2. Length(group[t]) \in Nat \ {0} /\ i \in 1 .. Length(group[t])
      BY <2>1, ChainsAreNotEmpty DEF Events
    <2>3. PICK fine : IsFine(group[t], values[t], gamma, fine)
      BY DEF UnitIsFine
    <2>4. TeamAdvantages(group[t], values[t], gamma, None)[i] = Returns(group[t], gamma)[i] - values[t][i]
      BY <2>1, <2>2, <2>3, TeamIs
    <2>5. LocalAdvantages(group[t], values[t], gamma, None)[i] = Returns(group[t], gamma)[i] - values[t][i]
      BY <2>1, <2>2, <2>3, LocalIs
    <2>6. /\ team[t] = TeamAdvantages(group[t], values[t], gamma, None)
          /\ ~ IsStrict => local[t] = LocalAdvantages(group[t], values[t], gamma, None)
      BY DEF CreditInv
    <2> QED
      BY <2>4, <2>5, <2>6
  <1> QED
    BY <1>1, CreditInductive, PTL


=============================================================================
