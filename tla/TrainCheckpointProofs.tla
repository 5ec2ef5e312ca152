------------------------- MODULE TrainCheckpointProofs -------------------------
(***************************************************************************)
(* Proofs about TrainCheckpoint for every set of worker groups, every      *)
(* configuration, every number of steps, epochs and runs, and a crash      *)
(* between and inside any two writes.                                      *)
(***************************************************************************)
EXTENDS TrainCheckpoint, FiniteSetTheorems, SequenceTheorems, TLAPS

Learners == WGs \cup {"semantic", "hybrid"}

History    == Seq(Nat \ {0})
Unreadable == {Missing, Torn}

TypeOK ==
  /\ trainer \in Configs
  /\ phase \in {"down", "draw", "prepare", "update", "save", "done", "ended"}
  /\ step \in Nat /\ epochs \in Nat /\ left \in Nat
  /\ mem \in [Parts -> History]
  /\ kept \in [WGs -> Seq(Steps)]
  /\ file \in [next : 1 .. Len(Files), open : BOOLEAN]
  /\ folder \in [Steps -> [Parts -> History \cup Unreadable]]
  /\ trace \in [Steps -> Seq(Nat)]
  /\ tracker \in Steps \cup {NoStep, TornStep}
  /\ run \in Nat /\ reached \in Nat

-----------------------------------------------------------------------------
(* What is learnt.                                                         *)

FirstWarm == IF Warmup > 1 THEN Warmup ELSE 1

\* What a part knows once the data of history h has passed through it.
Expected(part, h) ==
  IF part \in Learners THEN Warm(h) ELSE IF part = "manifest" THEN <<>> ELSE h

Length(part, n) ==
  IF part \in Learners THEN (IF FirstWarm <= n THEN n - FirstWarm + 1 ELSE 0)
  ELSE IF part = "manifest" THEN 0 ELSE n

\* The steps whose data has passed through a part.
Seen(part) ==
  IF \/ phase \in {"draw", "ended"}
     \/ phase = "prepare" /\ part # "data"
     \/ phase = "update" /\ part \notin {"data", "controller"}
  THEN step - 1 ELSE step

\* All parts have seen the same data, each as far as its turn has come.
MemAgrees ==
  /\ phase # "down" =>
       \A part \in Parts :
         /\ Len(mem[part]) = Length(part, Seen(part))
         /\ Automatic => mem[part] = Expected(part, SubSeq(mem["data"], 1, Seen(part)))
  /\ phase \in {"prepare", "update"} => mem["data"][step] = run

\* A folder holds parts of its step.
FoldersAgree ==
  \A s \in Steps, part \in Parts :
    folder[s][part] \in Unreadable \/ Len(folder[s][part]) = Length(part, s)

-----------------------------------------------------------------------------
(* What is on disk.                                                        *)

\* The events of a history are among the parts on disk, of every n-th step.
Recorded(h, parts, n) ==
  \A i \in 1 .. Len(h) :
    /\ i \in Steps
    /\ i % n = 0 => \E j \in 1 .. Len(parts[i]) : parts[i][j] = h[i]

HistoriesRecorded ==
  /\ Recorded(mem["data"], trace, trainer.every_n_steps)
  /\ \A s \in Steps : folder[s]["data"] \notin Unreadable =>
       Recorded(folder[s]["data"], trace, trainer.every_n_steps)

\* A run dumps a step once, and has not dumped the steps ahead of it.
TracesApart ==
  /\ \A s \in Steps : \A i, j \in 1 .. Len(trace[s]) :
       /\ trace[s][i] = trace[s][j] => i = j
       /\ trace[s][i] <= run
  /\ phase = "draw" => \A s \in Steps : s >= step => \A i \in 1 .. Len(trace[s]) : trace[s][i] # run
  /\ phase \in {"prepare", "update", "save"} =>
       \A s \in Steps : s > step => \A i \in 1 .. Len(trace[s]) : trace[s][i] # run

\* No run goes further than a step beyond what the runs before it saved.
WithinSteps ==
  /\ phase # "down" => step \in Nat \ {0} /\ step <= TotalSteps + run - 1 /\ run <= MaxRuns /\ run > 0
  /\ \A s \in Steps : folder[s]["data"] # Missing => s <= TotalSteps + run - 1

\* The files a save has closed hold what the parts know.
Saving ==
  /\ phase # "save" => file = Closed
  /\ phase = "save" => SaveDue
  /\ phase = "save" =>
       \A i \in 1 .. file.next - 1 :
         Files[i] \in Parts => folder[step][Files[i]] = mem[Files[i]]

\* The actor's turn in this step's save is still to come.
ToBeSaved(wg) ==
  \/ phase \in {"draw", "prepare", "update"}
  \/ phase = "save" /\ \A i \in 1 .. file.next - 1 : Files[i] # wg

\* The directories an actor may rotate are this run's, the tracked one last.
KeptInOrder ==
  \A wg \in WGs :
    /\ phase = "down" => kept[wg] = <<>>
    /\ \A i, j \in 1 .. Len(kept[wg]) : i < j => kept[wg][i] < kept[wg][j]
    /\ \A i \in 1 .. Len(kept[wg]) :
         /\ phase \in {"draw", "prepare", "update", "save"} => kept[wg][i] <= step
         /\ ToBeSaved(wg) => kept[wg][i] < step /\ (Automatic => kept[wg][i] <= tracker)

LastFile == phase = "save" /\ file.next = Len(Files) /\ file.open

\* The tracker lags behind by less than the steps between two saves.
Tracking ==
  Automatic =>
    /\ tracker # TornStep =>
         /\ reached <= tracker + trainer.save_freq
         /\ tracker % trainer.save_freq = 0 \/ tracker >= TotalSteps
    /\ phase \in {"draw", "prepare", "update", "save"} =>
         IF LastFile THEN tracker = TornStep /\ reached <= step + trainer.save_freq
         ELSE tracker # TornStep /\ tracker < step /\ step <= tracker + trainer.save_freq

\* The tracked folder is one save, of which only an actor can be missing.
TrackedIsWhole ==
  Automatic /\ tracker \in Steps =>
    /\ folder[tracker]["data"] \notin Unreadable
    /\ \A part \in Parts :
         folder[tracker][part] \in Unreadable
         \/ folder[tracker][part] = Expected(part, folder[tracker]["data"])

\* The epochs still hold enough batches.
Supplied ==
  phase # "down" =>
    /\ epochs <= Epochs
    /\ TotalSteps <= Seen("data") + left + EpochLen * (Epochs - epochs)
    /\ phase = "ended" => left = 0 /\ epochs = Epochs

IInv ==
  /\ TypeOK
  /\ MemAgrees
  /\ FoldersAgree
  /\ HistoriesRecorded
  /\ TracesApart
  /\ WithinSteps
  /\ Saving
  /\ KeptInOrder
  /\ Tracking
  /\ TrackedIsWhole
  /\ TrackedIsReadable
  /\ Supplied

-----------------------------------------------------------------------------
(* The configuration and the files of a save.                              *)
LEMMA Config ==
  ASSUME trainer \in Configs
  PROVE  /\ trainer.save_freq \in Nat \ {0} /\ trainer.max_actor_ckpt_to_keep \in Nat
         /\ Warmup \in Nat /\ trainer.every_n_steps \in Nat \ {0}
         /\ FirstWarm \in Nat \ {0}
         /\ Automatic \in BOOLEAN
  BY ConfigsAssumption DEF Warmup, FirstWarm, Automatic

\* The constants, as the arithmetic needs them.
LEMMA Bounds == {TotalSteps, EpochLen, Epochs, MaxRuns} \subseteq Nat \ {0} /\ TotalSteps <= EpochLen * Epochs
  BY BoundsAssumption, EpochsAssumption

\* The parts of a checkpoint have names of their own.
LEMMA PartsDiffer ==
  /\ WGs \subseteq Learners /\ Learners \subseteq Parts
  /\ {"data", "controller", "manifest"} \subseteq Parts \ Learners
  /\ "tracker" \notin Parts
  /\ Parts = Learners \cup {"data", "controller", "manifest"}
  /\ WGs \cap {"data", "manifest", "semantic", "controller", "hybrid", "tracker"} = {}
  BY WGsAssumption DEF Parts, Learners

\* Every actor has one place in the order of the actors.
LEMMA ActorFiles ==
  LET actors == SetToSeq(WGs)
  IN  /\ actors \in Seq(WGs) /\ Len(actors) = Cardinality(WGs) /\ Len(actors) \in Nat
      /\ \A i, j \in 1 .. Len(actors) : actors[i] = actors[j] => i = j
      /\ \A wg \in WGs : \E i \in 1 .. Len(actors) : actors[i] = wg
  <1> DEFINE n      == Cardinality(WGs)
             actors == SetToSeq(WGs)
  <1>1. n \in Nat /\ ExistsBijection(1 .. n, WGs)
    BY WGsAssumption, FS_CardinalityType
  <1>2. \E f \in [1 .. n -> WGs] : IsInjective(f)
    BY <1>1 DEF ExistsBijection, Bijection, Injection
  <1>3. actors \in [1 .. n -> WGs] /\ IsInjective(actors)
    BY <1>2 DEF SetToSeq
  <1> HIDE DEF actors, n
  <1>4. actors \in Seq(WGs) /\ Len(actors) = n
    BY <1>1, <1>3
  <1>5. \A i, j \in 1 .. n : actors[i] = actors[j] => i = j
    BY <1>3 DEF IsInjective
  <1>6. actors \in Surjection(1 .. n, WGs)
    <2>1. actors \in Injection(1 .. n, WGs)
      BY <1>3 DEF Injection
    <2>2. Cardinality(1 .. n) = n
      BY <1>1, FS_Interval
    <2> QED
      BY <2>1, <2>2, WGsAssumption, FS_Injection DEF n
  <1>7. \A wg \in WGs : \E i \in 1 .. n : actors[i] = wg
    BY <1>6 DEF Surjection
  <1> QED
    BY <1>1, <1>4, <1>5, <1>7 DEF n, actors

\* A save writes every part once, and the tracker last.
LEMMA FilesInOrder ==
  /\ Len(Files) \in Nat \ {0}
  /\ Files[Len(Files)] = "tracker"
  /\ \A i \in 1 .. Len(Files) : i # Len(Files) => Files[i] \in Parts
  /\ \A i, j \in 1 .. Len(Files) : Files[i] = Files[j] => i = j
  /\ \A part \in Parts : \E i \in 1 .. Len(Files) - 1 : Files[i] = part
  <1> DEFINE actors == SetToSeq(WGs)
             others == <<"data", "manifest", "semantic", "controller", "hybrid", "tracker">>
             Names  == Parts \cup {"tracker"}
             n      == Len(actors)
  <1>1. /\ actors \in Seq(WGs) /\ n \in Nat
        /\ \A i \in 1 .. n : actors[i] \in WGs
        /\ \A i, j \in 1 .. n : actors[i] = actors[j] => i = j
        /\ \A wg \in WGs : \E i \in 1 .. n : actors[i] = wg
    BY ActorFiles
  <1>2. /\ Len(others) = 6
        /\ others[1] = "data" /\ others[2] = "manifest" /\ others[3] = "semantic"
        /\ others[4] = "controller" /\ others[5] = "hybrid" /\ others[6] = "tracker"
    OBVIOUS
  <1>3. actors \in Seq(Names) /\ others \in Seq(Names)
    BY <1>1 DEF Parts
  <1> HIDE DEF actors, others
  <1>4. /\ Len(Files) = n + 6
        /\ \A i \in 1 .. n + 6 : Files[i] = IF i <= n THEN actors[i] ELSE others[i - n]
    BY <1>2, <1>3, ConcatProperties DEF Files, actors, others
  <1> HIDE DEF n
  <1>5. /\ Files[n + 1] = "data" /\ Files[n + 2] = "manifest" /\ Files[n + 3] = "semantic"
        /\ Files[n + 4] = "controller" /\ Files[n + 5] = "hybrid" /\ Files[n + 6] = "tracker"
    <2>1. ASSUME NEW k \in 1 .. 6 PROVE Files[n + k] = others[k]
      <3>1. n + k \in 1 .. n + 6 /\ ~ (n + k <= n) /\ n + k - n = k
        BY <1>1
      <3> QED
        BY <1>1, <1>4, <3>1
    <2>2. {1, 2, 3, 4, 5, 6} = 1 .. 6
      OBVIOUS
    <2> QED
      BY <1>2, <2>1, <2>2
  <1>6. \A i \in 1 .. n : Files[i] = actors[i] /\ Files[i] \in WGs
    <2>1. \A i \in 1 .. n : i \in 1 .. n + 6 /\ i <= n
      BY <1>1
    <2> QED
      BY <1>1, <1>4, <2>1
  <1>7. 1 .. n + 6 = (1 .. n) \cup {n + 1, n + 2, n + 3, n + 4, n + 5, n + 6}
    <2>1. n \in Nat
      BY <1>1
    <2> QED
      BY <2>1
  <1>8. \A i \in 1 .. n + 6 : i # n + 6 => Files[i] \in Parts
    BY <1>5, <1>6, <1>7 DEF Parts
  <1>9. \A i, j \in 1 .. n + 6 : Files[i] = Files[j] => i = j
    <2> SUFFICES ASSUME NEW i \in 1 .. n + 6, NEW j \in 1 .. n + 6, Files[i] = Files[j]
                 PROVE  i = j
      OBVIOUS
    <2>1. CASE i \in 1 .. n /\ j \in 1 .. n
      BY <1>1, <1>6, <2>1
    <2>2. CASE i \in 1 .. n /\ j \notin 1 .. n
      BY <1>5, <1>6, <1>7, <2>2, WGsAssumption
    <2>3. CASE i \notin 1 .. n /\ j \in 1 .. n
      BY <1>5, <1>6, <1>7, <2>3, WGsAssumption
    <2>4. CASE i \notin 1 .. n /\ j \notin 1 .. n
      BY <1>5, <1>7, <2>4
    <2> QED
      BY <2>1, <2>2, <2>3, <2>4
  <1>10. ASSUME NEW part \in Parts PROVE \E i \in 1 .. n + 5 : Files[i] = part
    <2>1. CASE part \in WGs
      <3>1. PICK i \in 1 .. n : actors[i] = part
        BY <1>1, <2>1
      <3> QED
        <4>1. i \in 1 .. n + 5 /\ Files[i] = part
          BY <1>1, <1>6, <3>1
        <4> QED
          BY <4>1
    <2>2. CASE part \in {"data", "manifest", "semantic", "controller", "hybrid"}
      <3>1. {n + 1, n + 2, n + 3, n + 4, n + 5} \subseteq 1 .. n + 5
        BY <1>1
      <3> QED
        BY <1>5, <2>2, <3>1
    <2> QED
      BY <2>1, <2>2 DEF Parts
  <1> QED
    BY <1>1, <1>4, <1>5, <1>8, <1>9, <1>10 DEF n

-----------------------------------------------------------------------------
(* Histories.                                                              *)
LEMMA Prefix ==
  ASSUME NEW h \in History, NEW n \in 0 .. Len(h)
  PROVE  /\ SubSeq(h, 1, n) \in History /\ Len(SubSeq(h, 1, n)) = n
         /\ \A i \in 1 .. n : SubSeq(h, 1, n)[i] = h[i]
  BY SubSeqProperties, ElementOfSeq DEF History

\* Training appends: what was learnt before stays a prefix.
LEMMA PrefixOfAppend ==
  ASSUME NEW h \in History, NEW r \in Nat \ {0}
  PROVE  SubSeq(Append(h, r), 1, Len(h)) = h
  <1>1. Append(h, r) \in History /\ Len(h) \in 0 .. Len(Append(h, r))
    BY DEF History
  <1>2. /\ SubSeq(Append(h, r), 1, Len(h)) \in History
        /\ Len(SubSeq(Append(h, r), 1, Len(h))) = Len(h)
        /\ \A i \in 1 .. Len(h) : SubSeq(Append(h, r), 1, Len(h))[i] = Append(h, r)[i]
    BY <1>1, Prefix
  <1>3. \A i \in 1 .. Len(h) : Append(h, r)[i] = h[i]
    BY DEF History
  <1> HIDE DEF History
  <1> QED
    BY <1>2, <1>3, SeqEqual DEF History

\* A prefix is a shorter one and its last element.
LEMMA PrefixStep ==
  ASSUME NEW h \in History, NEW n \in 1 .. Len(h)
  PROVE  SubSeq(h, 1, n) = Append(SubSeq(h, 1, n - 1), h[n])
  <1>1. n - 1 \in 0 .. Len(h) /\ n \in 0 .. Len(h) /\ h[n] \in Nat \ {0}
    BY ElementOfSeq DEF History
  <1>2. /\ SubSeq(h, 1, n) \in History /\ Len(SubSeq(h, 1, n)) = n
        /\ \A i \in 1 .. n : SubSeq(h, 1, n)[i] = h[i]
        /\ SubSeq(h, 1, n - 1) \in History /\ Len(SubSeq(h, 1, n - 1)) = n - 1
        /\ \A i \in 1 .. n - 1 : SubSeq(h, 1, n - 1)[i] = h[i]
    BY <1>1, Prefix
  <1> DEFINE g == Append(SubSeq(h, 1, n - 1), h[n])
  <1>3. /\ g \in History /\ Len(g) = n /\ g[n] = h[n]
        /\ \A i \in 1 .. n - 1 : g[i] = h[i]
    BY <1>1, <1>2, AppendProperties DEF History
  <1>4. \A i \in 1 .. n : i \in 1 .. n - 1 \/ i = n
    BY <1>1
  <1> HIDE DEF g
  <1>5. \A i \in 1 .. n : SubSeq(h, 1, n)[i] = g[i]
    BY <1>2, <1>3, <1>4
  <1> QED
    BY <1>2, <1>3, <1>5, SeqEqual DEF History, g

\* What a learner keeps of a history: all from the first warm step on.
LEMMA WarmPart ==
  ASSUME trainer \in Configs, NEW h \in History
  PROVE  /\ Warm(h) \in History
         /\ Len(Warm(h)) = IF FirstWarm <= Len(h) THEN Len(h) - FirstWarm + 1 ELSE 0
         /\ \A i \in 1 .. Len(h) - FirstWarm + 1 : Warm(h)[i] = h[FirstWarm + i - 1]
  <1>1. FirstWarm \in Nat \ {0} /\ Len(h) \in Nat
    BY Config DEF History
  <1>2. \A i \in FirstWarm .. Len(h) : h[i] \in Nat \ {0}
    BY <1>1, ElementOfSeq DEF History
  <1>3. Warm(h) = SubSeq(h, FirstWarm, Len(h))
    BY DEF Warm, FirstWarm
  <1> QED
    BY <1>1, <1>2, <1>3, SubSeqProperties DEF History

\* It grows by one from the first warm step on.
LEMMA WarmStep ==
  ASSUME trainer \in Configs, NEW h \in History, NEW r \in Nat \ {0}
  PROVE  Warm(Append(h, r)) = IF Len(h) + 1 >= Warmup THEN Append(Warm(h), r) ELSE Warm(h)
  <1> DEFINE k == Append(h, r)
             f == FirstWarm
  <1>1. /\ f \in Nat \ {0} /\ Warmup \in Nat /\ Len(h) \in Nat
        /\ (Len(h) + 1 >= Warmup <=> f <= Len(h) + 1)
    BY Config DEF History, FirstWarm
  <1>2. /\ k \in History /\ Len(k) = Len(h) + 1 /\ k[Len(h) + 1] = r
        /\ \A i \in 1 .. Len(h) : k[i] = h[i]
    BY AppendProperties DEF History
  <1> HIDE DEF k, f
  <1>3. /\ Warm(h) \in History /\ Warm(k) \in History
        /\ Len(Warm(h)) = IF f <= Len(h) THEN Len(h) - f + 1 ELSE 0
        /\ Len(Warm(k)) = IF f <= Len(k) THEN Len(k) - f + 1 ELSE 0
        /\ \A i \in 1 .. Len(h) - f + 1 : Warm(h)[i] = h[f + i - 1]
        /\ \A i \in 1 .. Len(k) - f + 1 : Warm(k)[i] = k[f + i - 1]
    <2>1. /\ Warm(h) \in History
          /\ Len(Warm(h)) = IF f <= Len(h) THEN Len(h) - f + 1 ELSE 0
          /\ \A i \in 1 .. Len(h) - f + 1 : Warm(h)[i] = h[f + i - 1]
      BY WarmPart DEF f
    <2>2. /\ Warm(k) \in History
          /\ Len(Warm(k)) = IF f <= Len(k) THEN Len(k) - f + 1 ELSE 0
          /\ \A i \in 1 .. Len(k) - f + 1 : Warm(k)[i] = k[f + i - 1]
      BY <1>2, WarmPart DEF f
    <2> QED
      BY <2>1, <2>2
  <1>4. CASE f <= Len(h) + 1
    <2> DEFINE g == Append(Warm(h), r)
               n == Len(h) + 1 - f + 1
    <2>1. n \in Nat \ {0} /\ Len(Warm(h)) = n - 1 /\ Len(Warm(k)) = n
      BY <1>1, <1>2, <1>3, <1>4
    <2>2. g \in History /\ Len(g) = n /\ g[n] = r /\ \A i \in 1 .. n - 1 : g[i] = Warm(h)[i]
      BY <1>3, <2>1, AppendProperties DEF History
    <2>3. Warm(k)[n] = r
      BY <1>1, <1>2, <1>3, <2>1
    <2>4. ASSUME NEW i \in 1 .. n - 1 PROVE Warm(k)[i] = g[i]
      <3>1. f + i - 1 \in 1 .. Len(h) /\ i \in 1 .. Len(h) - f + 1 /\ i \in 1 .. Len(k) - f + 1
        BY <1>1, <1>2, <1>4
      <3>2. Warm(k)[i] = k[f + i - 1] /\ Warm(h)[i] = h[f + i - 1] /\ g[i] = Warm(h)[i]
        BY <1>3, <2>2, <3>1
      <3> QED
        BY <1>2, <3>1, <3>2
    <2> HIDE DEF g, n
    <2>5. \A i \in 1 .. n : Warm(k)[i] = g[i]
      BY <2>1, <2>2, <2>3, <2>4
    <2>6. Warm(k) = g
      BY <1>3, <2>1, <2>2, <2>5, SeqEqual DEF History
    <2> QED
      BY <1>1, <1>4, <2>6 DEF g, k
  <1>5. CASE ~ (f <= Len(h) + 1)
    <2>1. Len(Warm(k)) = 0 /\ Len(Warm(h)) = 0
      BY <1>1, <1>2, <1>3, <1>5
    <2>2. Warm(k) = Warm(h)
      BY <1>3, <2>1, SeqEqual DEF History
    <2> QED
      BY <1>1, <1>5, <2>2 DEF k
  <1> QED
    BY <1>4, <1>5

\* How much a part knows depends only on the steps it has seen.
LEMMA ExpectedPart ==
  ASSUME trainer \in Configs, NEW part \in Parts, NEW h \in History
  PROVE  Expected(part, h) \in History /\ Len(Expected(part, h)) = Length(part, Len(h))
  BY WarmPart DEF Expected, Length, History

(* A part learns from a step if it is one that learns, and warm.           *)
LEMMA ExpectedStep ==
  ASSUME trainer \in Configs, NEW part \in Parts, NEW h \in History, NEW n \in 1 .. Len(h)
  PROVE  LET idle   == part = "manifest" \/ (part \in Learners /\ n < Warmup)
             before == Expected(part, SubSeq(h, 1, n - 1))
         IN  /\ Expected(part, SubSeq(h, 1, n)) = IF idle THEN before ELSE Append(before, h[n])
             /\ Length(part, n) = IF idle THEN Length(part, n - 1) ELSE Length(part, n - 1) + 1
  <1> DEFINE g == SubSeq(h, 1, n - 1)
  <1>1. /\ g \in History /\ Len(g) = n - 1 /\ h[n] \in Nat \ {0} /\ n \in Nat \ {0}
        /\ Len(h) \in Nat
    BY Prefix, ElementOfSeq DEF History
  <1>2. SubSeq(h, 1, n) = Append(g, h[n])
    BY PrefixStep
  <1>3. Warmup \in Nat /\ FirstWarm = IF Warmup > 1 THEN Warmup ELSE 1
    BY Config DEF FirstWarm
  <1> HIDE DEF g
  <1>4. Warm(SubSeq(h, 1, n)) = IF n < Warmup THEN Warm(g) ELSE Append(Warm(g), h[n])
    <2>1. Warm(Append(g, h[n])) = IF Len(g) + 1 >= Warmup THEN Append(Warm(g), h[n]) ELSE Warm(g)
      BY <1>1, WarmStep
    <2>2. Len(g) + 1 >= Warmup <=> ~ (n < Warmup)
      BY <1>1, <1>3
    <2> QED
      BY <1>2, <2>1, <2>2
  <1>5. "manifest" \notin Learners
    BY PartsDiffer
  <1>6. Expected(part, SubSeq(h, 1, n))
          = IF part = "manifest" \/ (part \in Learners /\ n < Warmup)
            THEN Expected(part, g) ELSE Append(Expected(part, g), h[n])
    BY <1>2, <1>4, <1>5 DEF Expected
  <1>7. Length(part, n)
          = IF part = "manifest" \/ (part \in Learners /\ n < Warmup)
            THEN Length(part, n - 1) ELSE Length(part, n - 1) + 1
    BY <1>1, <1>3, <1>5 DEF Length
  <1> QED
    BY <1>6, <1>7 DEF g

-----------------------------------------------------------------------------
(* Numbers.                                                                *)
LEMMA NextMultiple ==
  ASSUME NEW f \in Nat \ {0}, NEW t \in Nat, t % f = 0
  PROVE  (t + f) % f = 0
  <1> DEFINE q == t \div f
             p == (t + f) \div f
             r == (t + f) % f
  <1>1. q \in Int /\ p \in Int /\ r \in 0 .. f - 1 /\ t = f * q /\ t + f = f * p + r
    OBVIOUS
  <1> HIDE DEF q, p, r
  <1>2. r = f * (q + 1 - p)
    BY <1>1
  <1>3. CASE q + 1 - p >= 1
    <2>1. f * (q + 1 - p) >= f
      BY <1>1, <1>3
    <2> QED
      BY <1>1, <1>2, <2>1
  <1>4. CASE q + 1 - p <= -1
    <2>1. f * (q + 1 - p) <= -f
      BY <1>1, <1>4
    <2> QED
      BY <1>1, <1>2, <2>1
  <1>5. CASE q + 1 - p = 0
    BY <1>1, <1>2, <1>5 DEF r
  <1> QED
    BY <1>1, <1>3, <1>4, <1>5

(* A resumed epoch and the epochs after it hold the steps that are left.   *)
LEMMA ResumedEpochSuffices ==
  ASSUME NEW s \in Nat \ {0}
  PROVE  /\ LeftAfter(s) \in Nat
         /\ TotalSteps <= s + LeftAfter(s) + EpochLen * (Epochs - 1)
  <1> DEFINE r == s % EpochLen
  <1>1. /\ TotalSteps \in Nat \ {0} /\ EpochLen \in Nat \ {0} /\ Epochs \in Nat \ {0}
        /\ TotalSteps <= EpochLen * Epochs
    BY Bounds
  <1>2. r \in 0 .. EpochLen - 1
    BY <1>1
  <1>3. r <= s
    <2>1. CASE s < EpochLen
      BY <1>1, <2>1
    <2>2. CASE s >= EpochLen
      BY <1>2, <2>2, <1>1
    <2> QED
      BY <1>1, <2>1, <2>2
  <1>4. r = 0 => s >= EpochLen
    <2>1. s < EpochLen => r = s
      BY <1>1
    <2> QED
      BY <1>1, <2>1
  <1>5. LeftAfter(s) = IF r = 0 THEN 0 ELSE EpochLen - r
    BY DEF LeftAfter
  <1>6. EpochLen * (Epochs - 1) = EpochLen * Epochs - EpochLen
    BY <1>1
  <1>7. EpochLen * Epochs \in Nat
    BY <1>1
  <1> HIDE DEF r
  <1> QED
    BY <1>1, <1>2, <1>3, <1>4, <1>5, <1>6, <1>7

-----------------------------------------------------------------------------
(* The steps.                                                              *)
LEMMA Initially == Init => IInv
  <1> SUFFICES ASSUME Init PROVE IInv
    OBVIOUS
  <1>1. trainer \in Configs /\ Len(Files) \in Nat \ {0}
    BY FilesInOrder DEF Init
  <1>2. TypeOK
    BY <1>1 DEF Init, TypeOK, Nothing, Empty, Closed, NoStep, History, Unreadable
  <1>3. FoldersAgree /\ HistoriesRecorded /\ MemAgrees /\ Supplied
    BY PartsDiffer DEF Init, FoldersAgree, HistoriesRecorded, Recorded, MemAgrees, Supplied, Empty, Nothing, Unreadable
  <1>4. TracesApart /\ Saving /\ KeptInOrder
    BY DEF Init, TracesApart, Saving, KeptInOrder, ToBeSaved
  <1>5. WithinSteps
    BY PartsDiffer DEF Init, WithinSteps, Empty
  <1>6. Tracking /\ TrackedIsWhole /\ TrackedIsReadable
    <2>1. 0 % trainer.save_freq = 0 /\ trainer.save_freq \in Nat \ {0}
      BY <1>1, Config
    <2>2. tracker = 0 /\ tracker \notin Steps /\ phase = "down" /\ reached = 0
      BY DEF Init, NoStep, Steps
    <2> QED
      BY <2>1, <2>2 DEF Tracking, TrackedIsWhole, TrackedIsReadable
  <1> QED
    BY <1>2, <1>3, <1>4, <1>5, <1>6 DEF IInv

\* MemAgrees after a step, part by part.
LEMMA MemAgreesAfter ==
  ASSUME trainer' = trainer,
         \A part \in Parts : \E n :
           /\ Seen(part)' = n
           /\ Len(mem'[part]) = Length(part, n)
           /\ Automatic => mem'[part] = Expected(part, SubSeq(mem'["data"], 1, n)),
         phase' \in {"prepare", "update"} => mem'["data"][step'] = run'
  PROVE  MemAgrees'
  <1>1. ASSUME NEW part \in Parts
        PROVE  /\ Len(mem'[part]) = Length(part, Seen(part))'
               /\ Automatic' => mem'[part] = Expected(part, SubSeq(mem["data"], 1, Seen(part)))'
    <2>1. PICK n : /\ Seen(part)' = n
                   /\ Len(mem'[part]) = Length(part, n)
                   /\ Automatic => mem'[part] = Expected(part, SubSeq(mem'["data"], 1, n))
      OBVIOUS
    <2>2. Length(part, Seen(part))' = Length(part, n)
      BY <2>1 DEF Length, FirstWarm, Warmup
    <2>3. Expected(part, SubSeq(mem["data"], 1, Seen(part)))' = Expected(part, SubSeq(mem'["data"], 1, n))
      BY <2>1 DEF Expected, Warm, Warmup
    <2>4. Automatic' <=> Automatic
      BY DEF Automatic
    <2> QED
      BY <2>1, <2>2, <2>3, <2>4
  <1> QED
    BY <1>1 DEF MemAgrees

\* A running job's step is one of the modelled ones.
LEMMA StepInRange == IInv /\ phase # "down" => step \in Steps
  <1> SUFFICES ASSUME IInv, phase # "down" PROVE step \in Steps
    OBVIOUS
  <1>1. /\ step \in Nat \ {0} /\ step <= TotalSteps + run - 1 /\ run <= MaxRuns
    BY DEF IInv, WithinSteps
  <1>2. run \in Nat /\ TotalSteps \in Nat /\ MaxRuns \in Nat
    BY Bounds DEF IInv, TypeOK
  <1>3. step <= TotalSteps + MaxRuns - 1
    BY <1>1, <1>2
  <1> QED
    BY <1>1, <1>2, <1>3 DEF Steps

(* A run begins, from nothing (s = 0) or from a folder.                    *)
LEMMA StartStep ==
  ASSUME IInv, NEW s \in Steps \cup {0}, NEW learnt \in [Parts -> History], trainer' = trainer,
         phase = "down", run < MaxRuns, Started(s, learnt),
         s = 0 => learnt = Nothing /\ left' = EpochLen,
         s # 0 => Readable(s) /\ learnt = folder[s] /\ left' = LeftAfter(s),
         Automatic => s = tracker
  PROVE  IInv'
  <1>1. /\ phase' = "draw" /\ step' = s + 1 /\ mem' = learnt /\ epochs' = 1 /\ run' = run + 1
        /\ kept' = kept /\ file' = file /\ folder' = folder /\ trace' = trace
        /\ tracker' = tracker /\ reached' = reached
    BY DEF Started
  <1>2. /\ TypeOK /\ trainer \in Configs /\ run \in Nat /\ s \in Nat
        /\ TotalSteps \in Nat \ {0} /\ MaxRuns \in Nat \ {0} /\ EpochLen \in Nat \ {0} /\ Epochs \in Nat \ {0}
    BY Bounds DEF IInv, TypeOK, Steps
  <1>3. /\ left' \in Nat
        /\ TotalSteps <= s + left' + EpochLen * (Epochs - 1)
    <2>1. CASE s = 0
      <3>1. EpochLen * Epochs = EpochLen + EpochLen * (Epochs - 1)
        BY <1>2
      <3>2. EpochLen * (Epochs - 1) \in Int /\ TotalSteps <= EpochLen * Epochs
        BY <1>2, Bounds
      <3> QED
        BY <1>2, <2>1, <3>1, <3>2
    <2>2. CASE s # 0
      BY <1>2, <2>2, ResumedEpochSuffices
    <2> QED
      BY <2>1, <2>2
  <1>4. TypeOK'
    BY <1>1, <1>2, <1>3 DEF TypeOK
  <1>5. MemAgrees'
    <2>1. FirstWarm \in Nat \ {0} /\ Len(learnt["data"]) \in Nat
      BY <1>2, Config, PartsDiffer DEF History
    <2>2. ASSUME NEW part \in Parts
          PROVE  /\ Len(learnt[part]) = Length(part, s)
                 /\ Automatic => learnt[part] = Expected(part, SubSeq(learnt["data"], 1, s))
      <3>1. CASE s = 0
        <4>1. learnt[part] = <<>> /\ learnt["data"] = <<>> /\ <<>> \in History
          BY <3>1, PartsDiffer DEF Nothing, History
        <4>2. Length(part, 0) = 0
          BY <2>1 DEF Length
        <4>3. SubSeq(<<>>, 1, 0) = <<>> /\ SubSeq(<<>>, FirstWarm, 0) = <<>>
          BY <2>1, SubSeqEmpty
        <4>4. Warm(<<>>) = <<>>
          BY <4>3 DEF Warm, FirstWarm
        <4> QED
          BY <3>1, <4>1, <4>2, <4>3, <4>4 DEF Expected
      <3>2. CASE s # 0
        <4>1. /\ s \in Steps /\ learnt = folder[s]
              /\ \A p \in Parts : folder[s][p] \notin Unreadable
          BY <3>2 DEF Readable, Unreadable
        <4>2. \A p \in Parts : Len(learnt[p]) = Length(p, s)
          BY <4>1 DEF IInv, FoldersAgree
        <4>3. Len(learnt["data"]) = s /\ learnt["data"] \in History
          BY <4>2, PartsDiffer DEF Length
        <4>4. SubSeq(learnt["data"], 1, s) = learnt["data"]
          BY <4>3, SubSeqFull DEF History
        <4>5. Automatic => learnt[part] = Expected(part, learnt["data"])
          BY <4>1 DEF IInv, TrackedIsWhole
        <4> QED
          BY <4>2, <4>4, <4>5
      <3> QED
        BY <3>1, <3>2
    <2>3. \A part : Seen(part)' = s
      BY <1>1, <1>2 DEF Seen
    <2>4. \A part \in Parts : Length(part, s)' = Length(part, s)
      BY DEF Length, FirstWarm, Warmup
    <2>5. \A part, h : Expected(part, h)' = Expected(part, h)
      BY DEF Expected, Warm, Warmup
    <2>6. Automatic' <=> Automatic
      BY DEF Automatic
    <2> QED
      BY <1>1, <2>2, <2>3, <2>4, <2>5, <2>6 DEF MemAgrees, Length, Expected, Warm, FirstWarm, Warmup
  <1>6. FoldersAgree'
    BY <1>1 DEF IInv, FoldersAgree, Length, FirstWarm, Warmup
  <1>7. HistoriesRecorded'
    <2>1. Recorded(learnt["data"], trace, trainer.every_n_steps)
      <3>1. CASE s = 0
        BY <3>1, PartsDiffer DEF Nothing, Recorded
      <3>2. CASE s # 0
        BY <3>2, PartsDiffer DEF IInv, HistoriesRecorded, Readable, Unreadable
      <3> QED
        BY <3>1, <3>2
    <2>2. \A t \in Steps : folder[t]["data"] \notin Unreadable =>
            Recorded(folder[t]["data"], trace, trainer.every_n_steps)
      BY DEF IInv, HistoriesRecorded
    <2>3. mem'["data"] = learnt["data"] /\ folder' = folder /\ trace' = trace /\ trainer' = trainer
      BY <1>1
    <2> QED
      BY <2>1, <2>2, <2>3 DEF HistoriesRecorded, Recorded
  <1>8. TracesApart'
    <2>1. \A t \in Steps : \A i \in 1 .. Len(trace[t]) : trace[t][i] \in Nat /\ trace[t][i] <= run
      BY <1>2, ElementOfSeq DEF IInv, TracesApart, TypeOK
    <2> QED
      BY <1>1, <1>2, <2>1 DEF IInv, TracesApart
  <1>9. WithinSteps'
    <2>1. s <= TotalSteps + run - 1
      <3>1. CASE s = 0
        BY <1>2, <3>1
      <3>2. CASE s # 0
        <4>1. s <= TotalSteps + run - 1
          BY <3>2, PartsDiffer DEF IInv, WithinSteps, Readable
        <4> QED
          BY <1>2, <4>1
      <3> QED
        BY <3>1, <3>2
    <2>2. ASSUME NEW t \in Steps, folder[t]["data"] # Missing PROVE t <= TotalSteps + (run + 1) - 1
      <3>1. t \in Int /\ t <= TotalSteps + run - 1
        BY <2>2 DEF IInv, WithinSteps, Steps
      <3> QED
        BY <1>2, <3>1
    <2>3. /\ s + 1 \in Nat \ {0} /\ s + 1 <= TotalSteps + (run + 1) - 1
          /\ run + 1 <= MaxRuns /\ run + 1 > 0
      BY <1>2, <2>1
    <2> QED
      BY <1>1, <2>2, <2>3 DEF WithinSteps
  <1>10. Saving'
    BY <1>1 DEF IInv, Saving
  <1>11. KeptInOrder'
    <2>1. \A wg \in WGs : kept'[wg] = <<>>
      BY <1>1 DEF IInv, KeptInOrder
    <2> QED
      BY <1>1, <2>1 DEF KeptInOrder
  <1>12. Tracking'
    <2>1. ~ LastFile' /\ (Automatic' <=> Automatic)
      BY <1>1 DEF LastFile, Automatic
    <2>2. trainer.save_freq \in Nat \ {0}
      BY <1>2, Config
    <2>3. Automatic => tracker # TornStep /\ tracker < s + 1 /\ s + 1 <= tracker + trainer.save_freq
      BY <1>2, <2>2 DEF TornStep
    <2> QED
      BY <1>1, <2>1, <2>3 DEF IInv, Tracking
  <1>13. TrackedIsWhole'
    BY <1>1 DEF IInv, TrackedIsWhole, Expected, Warm, Warmup, Automatic
  <1>14. TrackedIsReadable'
    BY <1>1 DEF IInv, TrackedIsReadable, Readable, Automatic
  <1>15. Supplied'
    <2>1. Seen("data")' = s
      BY <1>1, <1>2 DEF Seen
    <2>2. 1 <= Epochs
      BY <1>2
    <2>3. TotalSteps <= Seen("data")' + left' + EpochLen * (Epochs - epochs')
      BY <1>1, <1>3, <2>1, Zenon
    <2> QED
      BY <1>1, <2>2, <2>3 DEF Supplied
  <1> QED
    BY <1>4, <1>5, <1>6, <1>7, <1>8, <1>9, <1>10, <1>11, <1>12, <1>13, <1>14, <1>15 DEF IInv

\* Without a checkpoint all parts start empty.
LEMMA StartFreshStep == IInv /\ StartFresh /\ trainer' = trainer => IInv'
  <1> SUFFICES ASSUME IInv, StartFresh, trainer' = trainer PROVE IInv'
    OBVIOUS
  <1>1. Nothing \in [Parts -> History]
    BY DEF Nothing, History
  <1>2. phase = "down" /\ run < MaxRuns /\ Started(0, Nothing) /\ left' = EpochLen
    BY DEF StartFresh
  <1>3. Automatic => 0 = tracker
    BY DEF StartFresh, NoStep
  <1> QED
    BY <1>1, <1>2, <1>3, StartStep

\* All parts loaded from one folder have seen the same data.
LEMMA ResumeStep ==
  ASSUME IInv, NEW s \in Steps, Resume(s), trainer' = trainer
  PROVE  IInv'
  <1>1. /\ phase = "down" /\ run < MaxRuns /\ Started(s, folder[s]) /\ left' = LeftAfter(s)
        /\ Readable(s) /\ (Automatic => s = tracker)
    BY DEF Resume, FirstStep, Loaded
  <1>2. folder[s] \in [Parts -> History]
    <2>1. folder[s] \in [Parts -> History \cup Unreadable]
      BY DEF IInv, TypeOK
    <2> QED
      BY <1>1, <2>1 DEF Readable, Unreadable
  <1>3. s # 0 /\ s \in Steps \cup {0}
    BY DEF Steps
  <1> QED
    BY <1>1, <1>2, <1>3, StartStep

\* A new epoch refills the iterator and touches nothing else.
LEMMA NextEpochStep == IInv /\ NextEpoch /\ trainer' = trainer => IInv'
  <1> SUFFICES ASSUME IInv, NextEpoch, trainer' = trainer PROVE IInv'
    OBVIOUS
  <1>1. /\ phase = "draw" /\ left = 0 /\ step' = step /\ mem' = mem /\ kept' = kept /\ file' = file
        /\ folder' = folder /\ trace' = trace /\ tracker' = tracker /\ run' = run /\ reached' = reached
        /\ phase' \in {"draw", "ended"}
    BY DEF NextEpoch
  <1>2. /\ TypeOK /\ trainer \in Configs /\ epochs \in Nat /\ step \in Nat
        /\ EpochLen \in Nat \ {0} /\ Epochs \in Nat \ {0} /\ TotalSteps \in Nat \ {0}
    BY Bounds DEF IInv, TypeOK
  <1>3. \A part : Seen(part)' = Seen(part) /\ Seen(part) = step - 1
    BY <1>1 DEF Seen
  <1>4. TypeOK'
    BY <1>1, <1>2 DEF NextEpoch, TypeOK
  <1>5. MemAgrees'
    BY <1>1, <1>3 DEF IInv, MemAgrees, Length, Expected, Warm, FirstWarm, Warmup, Automatic
  <1>6. FoldersAgree' /\ HistoriesRecorded' /\ TracesApart' /\ WithinSteps' /\ Saving'
    BY <1>1 DEF IInv, FoldersAgree, HistoriesRecorded, Recorded, TracesApart, WithinSteps, Saving,
                Length, FirstWarm, Warmup
  <1>7. KeptInOrder'
    <2>1. \A wg : ToBeSaved(wg)' => ToBeSaved(wg)
      BY <1>1 DEF ToBeSaved
    <2> QED
      BY <1>1, <2>1 DEF IInv, KeptInOrder, Automatic
  <1>8. Tracking' /\ TrackedIsWhole' /\ TrackedIsReadable'
    BY <1>1 DEF IInv, Tracking, TrackedIsWhole, TrackedIsReadable, LastFile, Readable,
                Expected, Warm, Warmup, Automatic
  <1>9. Supplied'
    <2>1. epochs <= Epochs /\ TotalSteps <= step - 1 + 0 + EpochLen * (Epochs - epochs)
      BY <1>1, <1>3 DEF IInv, Supplied
    <2>2. CASE epochs < Epochs
      <3>1. epochs' = epochs + 1 /\ left' = EpochLen /\ phase' = "draw"
        BY <2>2, <1>1 DEF NextEpoch
      <3>2. EpochLen + EpochLen * (Epochs - (epochs + 1)) = EpochLen * (Epochs - epochs)
        BY <1>2
      <3>3. EpochLen * (Epochs - (epochs + 1)) \in Int
        BY <1>2
      <3>4. TotalSteps <= step - 1 + EpochLen + EpochLen * (Epochs - (epochs + 1))
        BY <1>2, <2>1, <3>2, <3>3
      <3> QED
        BY <1>2, <1>3, <2>2, <3>1, <3>4 DEF Supplied
    <2>3. CASE ~ (epochs < Epochs)
      <3>1. epochs' = epochs /\ left' = left /\ phase' = "ended" /\ epochs = Epochs
        BY <1>2, <2>1, <2>3 DEF NextEpoch
      <3> QED
        BY <1>1, <1>3, <2>1, <3>1 DEF Supplied
    <2> QED
      BY <2>2, <2>3
  <1> QED
    BY <1>4, <1>5, <1>6, <1>7, <1>8, <1>9 DEF IInv

\* A crash leaves the disk as it is.
LEMMA CrashStep == IInv /\ Crash /\ trainer' = trainer => IInv'
  <1> SUFFICES ASSUME IInv, Crash, trainer' = trainer PROVE IInv'
    OBVIOUS
  <1>1. /\ phase' = "down" /\ step' = 0 /\ epochs' = 0 /\ left' = 0 /\ mem' = Nothing
        /\ kept' = [wg \in WGs |-> <<>>] /\ file' = Closed
        /\ folder' = folder /\ trace' = trace /\ tracker' = tracker /\ run' = run /\ reached' = reached
    BY DEF Crash
  <1>2. TypeOK'
    BY <1>1, FilesInOrder DEF IInv, TypeOK, Nothing, History, Closed
  <1>3. MemAgrees' /\ FoldersAgree' /\ TracesApart' /\ WithinSteps' /\ Saving' /\ Supplied'
    BY <1>1 DEF IInv, MemAgrees, FoldersAgree, TracesApart, WithinSteps, Saving, Supplied,
                Length, FirstWarm, Warmup
  <1>4. HistoriesRecorded'
    <2>1. mem'["data"] = <<>>
      BY <1>1, PartsDiffer DEF Nothing
    <2> QED
      BY <1>1, <2>1 DEF IInv, HistoriesRecorded, Recorded
  <1>5. KeptInOrder'
    BY <1>1 DEF KeptInOrder, ToBeSaved
  <1>6. Tracking' /\ TrackedIsWhole' /\ TrackedIsReadable'
    BY <1>1 DEF IInv, Tracking, TrackedIsWhole, TrackedIsReadable, LastFile, Readable,
                Expected, Warm, Warmup, Automatic
  <1> QED
    BY <1>2, <1>3, <1>4, <1>5, <1>6 DEF IInv

\* Drawing a batch dumps its events before any part learns from it.
LEMMA DrawStep == IInv /\ Draw /\ trainer' = trainer => IInv'
  <1> SUFFICES ASSUME IInv, Draw, trainer' = trainer PROVE IInv'
    OBVIOUS
  <1> DEFINE h     == mem["data"]
             dumps == step % trainer.every_n_steps = 0
  <1>1. /\ phase = "draw" /\ phase' = "prepare" /\ left > 0 /\ left' = left - 1
        /\ mem' = [mem EXCEPT !["data"] = Append(@, run)]
        /\ trace' = IF dumps THEN [trace EXCEPT ![step] = Append(@, run)] ELSE trace
        /\ step' = step /\ epochs' = epochs /\ kept' = kept /\ file' = file /\ folder' = folder
        /\ tracker' = tracker /\ run' = run /\ reached' = reached
    BY DEF Draw, Dumped
  <1>2. /\ TypeOK /\ trainer \in Configs /\ run \in Nat \ {0} /\ left \in Nat
        /\ mem \in [Parts -> History] /\ trace \in [Steps -> Seq(Nat)] /\ h \in History
        /\ step \in Nat \ {0} /\ step <= TotalSteps + run - 1 /\ run <= MaxRuns
    <2>1. /\ TypeOK /\ trainer \in Configs /\ run \in Nat /\ left \in Nat
          /\ mem \in [Parts -> History] /\ trace \in [Steps -> Seq(Nat)]
      BY DEF IInv, TypeOK
    <2>2. h \in History
      BY <2>1, PartsDiffer
    <2>3. step \in Nat \ {0} /\ step <= TotalSteps + run - 1 /\ run <= MaxRuns /\ run > 0
      BY <1>1 DEF IInv, WithinSteps
    <2> QED
      BY <2>1, <2>2, <2>3
  <1>3. step \in Steps
    BY <1>2, Bounds DEF Steps
  <1>4. \A part \in Parts : mem'[part] = IF part = "data" THEN Append(h, run) ELSE mem[part]
    BY <1>1, <1>2
  <1>5. \A s \in Steps : trace'[s] = IF s = step /\ dumps THEN Append(trace[s], run) ELSE trace[s]
    BY <1>1, <1>2
  <1>6. /\ Append(h, run) \in History /\ Len(Append(h, run)) = Len(h) + 1
        /\ Append(h, run)[Len(h) + 1] = run
        /\ \A i \in 1 .. Len(h) : Append(h, run)[i] = h[i]
        /\ Len(h) \in Nat
    BY <1>2, AppendProperties DEF History
  <1>7. \A s \in Steps :
          /\ Len(trace[s]) \in Nat
          /\ Append(trace[s], run) \in Seq(Nat)
          /\ Len(Append(trace[s], run)) = Len(trace[s]) + 1
          /\ Append(trace[s], run)[Len(trace[s]) + 1] = run
          /\ \A i \in 1 .. Len(trace[s]) : Append(trace[s], run)[i] = trace[s][i]
    <2> SUFFICES ASSUME NEW s \in Steps
                 PROVE  /\ Len(trace[s]) \in Nat
                        /\ Append(trace[s], run) \in Seq(Nat)
                        /\ Len(Append(trace[s], run)) = Len(trace[s]) + 1
                        /\ Append(trace[s], run)[Len(trace[s]) + 1] = run
                        /\ \A i \in 1 .. Len(trace[s]) : Append(trace[s], run)[i] = trace[s][i]
      OBVIOUS
    <2>1. trace[s] \in Seq(Nat) /\ run \in Nat
      BY <1>2
    <2> QED
      BY <2>1, AppendProperties
  <1>8. Len(h) = step - 1
    BY <1>1, PartsDiffer DEF IInv, MemAgrees, Length, Seen
  <1> HIDE DEF h, dumps
  <1>9. TypeOK'
    <2>1. mem' \in [Parts -> History]
      BY <1>1, <1>2, <1>6 DEF h
    <2>2. trace' \in [Steps -> Seq(Nat)]
      BY <1>1, <1>2, <1>3, <1>7
    <2> QED
      BY <1>1, <1>2, <2>1, <2>2 DEF TypeOK
  <1>10. MemAgrees'
    <2>1. mem'["data"] = Append(h, run) /\ h = mem["data"]
      BY <1>4, PartsDiffer DEF h
    <2>2. SubSeq(Append(h, run), 1, step - 1) = h /\ SubSeq(h, 1, step - 1) = h
          /\ SubSeq(Append(h, run), 1, step) = Append(h, run)
      <3>1. SubSeq(Append(h, run), 1, Len(h)) = h
        BY <1>2, PrefixOfAppend
      <3>2. SubSeq(h, 1, Len(h)) = h
        BY <1>2, SubSeqFull DEF History
      <3>3. SubSeq(Append(h, run), 1, Len(Append(h, run))) = Append(h, run)
        BY <1>6, SubSeqFull DEF History
      <3>4. Len(Append(h, run)) = step
        BY <1>2, <1>6, <1>8
      <3> QED
        BY <1>8, <3>1, <3>2, <3>3, <3>4
    <2>3. ASSUME NEW part \in Parts
          PROVE  LET n == IF part = "data" THEN step ELSE step - 1
                 IN  /\ Seen(part)' = n
                     /\ Len(mem'[part]) = Length(part, n)
                     /\ Automatic => mem'[part] = Expected(part, SubSeq(mem'["data"], 1, n))
      <3>1. CASE part = "data"
        <4>1. Seen(part)' = step /\ mem'[part] = Append(h, run)
          BY <1>1, <1>4, <3>1 DEF Seen
        <4>2. part \notin Learners
          BY <3>1, PartsDiffer
        <4>3. Len(mem'[part]) = step
          BY <1>2, <1>6, <1>8, <4>1
        <4> QED
          BY <2>1, <2>2, <3>1, <4>1, <4>2, <4>3 DEF Length, Expected
      <3>2. CASE part # "data"
        <4>1. Seen(part)' = step - 1 /\ Seen(part) = step - 1 /\ mem'[part] = mem[part]
          BY <1>1, <1>4, <3>2 DEF Seen
        <4> QED
          BY <1>1, <2>1, <2>2, <3>2, <4>1 DEF IInv, MemAgrees
      <3> QED
        BY <3>1, <3>2
    <2>4. mem'["data"][step] = run
      BY <1>2, <1>6, <1>8, <2>1
    <2>5. \A part \in Parts : \E n :
            /\ Seen(part)' = n
            /\ Len(mem'[part]) = Length(part, n)
            /\ Automatic => mem'[part] = Expected(part, SubSeq(mem'["data"], 1, n))
      BY <2>3
    <2> QED
      BY <1>1, <2>4, <2>5, MemAgreesAfter
  <1>11. FoldersAgree' /\ WithinSteps' /\ Saving'
    BY <1>1 DEF IInv, FoldersAgree, WithinSteps, Saving, Length, FirstWarm, Warmup
  <1>12. ASSUME NEW g, NEW n, Recorded(g, trace, n) PROVE Recorded(g, trace', n)
    <2> SUFFICES ASSUME NEW i \in 1 .. Len(g), i % n = 0
                 PROVE  \E j \in 1 .. Len(trace'[i]) : trace'[i][j] = g[i]
      BY <1>12 DEF Recorded
    <2>1. i \in Steps /\ \E j \in 1 .. Len(trace[i]) : trace[i][j] = g[i]
      BY <1>12 DEF Recorded
    <2>2. PICK j \in 1 .. Len(trace[i]) : trace[i][j] = g[i]
      BY <2>1
    <2>3. CASE i = step /\ dumps
      <3>1. trace'[i] = Append(trace[i], run)
        BY <1>5, <2>1, <2>3
      <3>2. j \in 1 .. Len(trace'[i]) /\ trace'[i][j] = trace[i][j]
        BY <1>7, <2>1, <3>1
      <3> QED
        BY <2>2, <3>2
    <2>4. CASE ~ (i = step /\ dumps)
      BY <1>5, <2>1, <2>2, <2>4
    <2> QED
      BY <2>3, <2>4
  <1>13. HistoriesRecorded'
    <2> DEFINE n == trainer.every_n_steps
    <2>1. Recorded(h, trace', n)
      BY <1>12 DEF IInv, HistoriesRecorded, h
    <2>2. \A s \in Steps : folder[s]["data"] \notin Unreadable => Recorded(folder[s]["data"], trace', n)
      BY <1>12 DEF IInv, HistoriesRecorded
    <2>3. Recorded(Append(h, run), trace', n)
      <3> SUFFICES ASSUME NEW i \in 1 .. Len(h) + 1
                   PROVE  /\ i \in Steps
                          /\ i % n = 0 => \E j \in 1 .. Len(trace'[i]) : trace'[i][j] = Append(h, run)[i]
        BY <1>6 DEF Recorded
      <3>1. CASE i \in 1 .. Len(h)
        BY <1>6, <2>1, <3>1 DEF Recorded
      <3>2. CASE i = step
        <4>1. CASE i % n = 0
          <5>1. trace'[i] = Append(trace[i], run)
            BY <1>3, <1>5, <3>2, <4>1 DEF dumps
          <5>2. Len(trace[i]) + 1 \in 1 .. Len(trace'[i]) /\ trace'[i][Len(trace[i]) + 1] = run
            BY <1>3, <1>7, <3>2, <5>1
          <5>3. Append(h, run)[i] = run
            BY <1>2, <1>6, <1>8, <3>2
          <5> QED
            BY <1>3, <3>2, <5>2, <5>3
        <4>2. CASE i % n # 0
          BY <1>3, <3>2, <4>2
        <4> QED
          BY <4>1, <4>2
      <3> QED
        BY <1>2, <1>6, <1>8, <3>1, <3>2
    <2>4. mem'["data"] = Append(h, run)
      BY <1>4, PartsDiffer
    <2> QED
      BY <1>1, <2>2, <2>3, <2>4 DEF HistoriesRecorded
  <1>14. TracesApart'
    <2>1. ASSUME NEW s \in Steps
          PROVE  /\ \A i, j \in 1 .. Len(trace[s]) : trace[s][i] = trace[s][j] => i = j
                 /\ \A i \in 1 .. Len(trace[s]) : trace[s][i] <= run
                 /\ s >= step => \A i \in 1 .. Len(trace[s]) : trace[s][i] # run
                 /\ s \in Nat
      BY <1>1 DEF IInv, TracesApart, Steps
    <2>2. ASSUME NEW s \in Steps
          PROVE  /\ \A i, j \in 1 .. Len(trace'[s]) : trace'[s][i] = trace'[s][j] => i = j
                 /\ \A i \in 1 .. Len(trace'[s]) : trace'[s][i] <= run
                 /\ s > step => \A i \in 1 .. Len(trace'[s]) : trace'[s][i] # run
      <3>1. CASE s = step /\ dumps
        <4> DEFINE n == Len(trace[s])
        <4>1. /\ n \in Nat /\ Len(trace'[s]) = n + 1 /\ trace'[s][n + 1] = run
              /\ \A i \in 1 .. n : trace'[s][i] = trace[s][i]
          BY <1>5, <1>7, <3>1
        <4>2. \A i \in 1 .. n + 1 : i \in 1 .. n \/ i = n + 1
          BY <4>1
        <4>3. s >= step /\ ~ (s > step)
          BY <1>2, <3>1
        <4> HIDE DEF n
        <4>4. \A i, j \in 1 .. n : trace[s][i] = trace[s][j] => i = j
          BY <2>1 DEF n
        <4>5. \A i \in 1 .. n : trace[s][i] # run /\ trace[s][i] <= run
          BY <2>1, <4>3 DEF n
        <4>6. \A i, j \in 1 .. n + 1 : trace'[s][i] = trace'[s][j] => i = j
          BY <4>1, <4>2, <4>4, <4>5
        <4>7. ASSUME NEW i \in 1 .. n + 1 PROVE trace'[s][i] <= run
          <5>1. CASE i \in 1 .. n
            BY <4>1, <4>5, <5>1
          <5>2. CASE i = n + 1
            BY <1>2, <4>1, <5>2
          <5> QED
            BY <4>2, <5>1, <5>2
        <4> QED
          BY <4>1, <4>3, <4>6, <4>7
      <3>2. CASE ~ (s = step /\ dumps)
        <4>1. trace'[s] = trace[s]
          BY <1>5, <3>2
        <4>2. s > step => s >= step
          BY <1>2, <2>1
        <4> QED
          BY <2>1, <4>1, <4>2
      <3> QED
        BY <3>1, <3>2
    <2> QED
      BY <1>1, <2>2 DEF TracesApart
  <1>15. KeptInOrder'
    <2>1. \A wg : ToBeSaved(wg)' => ToBeSaved(wg)
      BY <1>1 DEF ToBeSaved
    <2> QED
      BY <1>1, <2>1 DEF IInv, KeptInOrder, Automatic
  <1>16. Tracking' /\ TrackedIsWhole' /\ TrackedIsReadable'
    BY <1>1 DEF IInv, Tracking, TrackedIsWhole, TrackedIsReadable, LastFile, Readable,
                Expected, Warm, Warmup, Automatic
  <1>17. Supplied'
    <2>1. epochs <= Epochs /\ TotalSteps <= step - 1 + left + EpochLen * (Epochs - epochs)
      BY <1>1 DEF IInv, Supplied, Seen
    <2>2. EpochLen * (Epochs - epochs) \in Int /\ TotalSteps \in Int
      BY <1>2, Bounds DEF TypeOK
    <2>3. TotalSteps <= step + (left - 1) + EpochLen * (Epochs - epochs)
      BY <1>2, <2>1, <2>2
    <2>4. Seen("data")' = step
      BY <1>1 DEF Seen
    <2> QED
      BY <1>1, <2>1, <2>3, <2>4 DEF Supplied
  <1> QED
    BY <1>9, <1>10, <1>11, <1>13, <1>14, <1>15, <1>16, <1>17 DEF IInv

(* A part that takes the step appends the run to what it knew.             *)
LEMMA LearntStep ==
  ASSUME TypeOK, MemAgrees, phase \in {"prepare", "update"}, step \in Nat \ {0},
         NEW part \in Parts, part # "data", Seen(part) = step - 1
  PROVE  LET idle == part = "manifest" \/ (part \in Learners /\ step < Warmup)
             next == IF idle THEN mem[part] ELSE Append(mem[part], run)
         IN  /\ Len(next) = Length(part, step)
             /\ Automatic => next = Expected(part, SubSeq(mem["data"], 1, step))
  <1> DEFINE h    == mem["data"]
             idle == part = "manifest" \/ (part \in Learners /\ step < Warmup)
  <1>1. /\ trainer \in Configs /\ h \in History /\ mem[part] \in History
    BY PartsDiffer DEF TypeOK
  <1>2. Len(h) = step /\ h[step] = run
    BY PartsDiffer DEF MemAgrees, Length, Seen
  <1>3. step \in 1 .. Len(h) /\ run \in Nat \ {0}
    BY <1>1, <1>2, ElementOfSeq DEF History
  <1>4. /\ Len(mem[part]) = Length(part, step - 1)
        /\ Automatic => mem[part] = Expected(part, SubSeq(h, 1, step - 1))
    BY DEF MemAgrees
  <1>5. /\ Expected(part, SubSeq(h, 1, step)) =
             IF idle THEN Expected(part, SubSeq(h, 1, step - 1))
             ELSE Append(Expected(part, SubSeq(h, 1, step - 1)), run)
        /\ Length(part, step) = IF idle THEN Length(part, step - 1) ELSE Length(part, step - 1) + 1
    BY <1>1, <1>2, <1>3, ExpectedStep
  <1>6. Len(Append(mem[part], run)) = Len(mem[part]) + 1
    BY <1>1, <1>3, AppendProperties DEF History
  <1> QED
    BY <1>4, <1>5, <1>6

\* Only the controller sees the batch here.
LEMMA PrepareStep == IInv /\ Prepare /\ trainer' = trainer => IInv'
  <1> SUFFICES ASSUME IInv, Prepare, trainer' = trainer PROVE IInv'
    OBVIOUS
  <1>1. /\ phase = "prepare" /\ phase' = "update"
        /\ mem' = [mem EXCEPT !["controller"] = Append(@, run)]
        /\ step' = step /\ epochs' = epochs /\ left' = left /\ kept' = kept /\ file' = file
        /\ folder' = folder /\ trace' = trace /\ tracker' = tracker /\ run' = run /\ reached' = reached
    BY DEF Prepare
  <1>2. TypeOK /\ MemAgrees /\ trainer \in Configs /\ mem \in [Parts -> History] /\ run \in Nat
    BY DEF IInv, TypeOK
  <1>3. step \in Nat \ {0} /\ run \in Nat \ {0}
    BY <1>1, <1>2 DEF IInv, WithinSteps
  <1>4. \A part \in Parts :
          mem'[part] = IF part = "controller" THEN Append(mem[part], run) ELSE mem[part]
    BY <1>1, <1>2
  <1>5. TypeOK'
    <2>1. Append(mem["controller"], run) \in History
      BY <1>2, <1>3, PartsDiffer, AppendProperties DEF History
    <2>2. mem' \in [Parts -> History]
      BY <1>1, <1>2, <2>1
    <2> QED
      BY <1>1, <1>2, <2>2 DEF TypeOK
  <1>6. MemAgrees'
    <2>1. mem'["data"] = mem["data"]
      BY <1>4, PartsDiffer
    <2>2. ASSUME NEW part \in Parts
          PROVE  \E n :
                   /\ Seen(part)' = n
                   /\ Len(mem'[part]) = Length(part, n)
                   /\ Automatic => mem'[part] = Expected(part, SubSeq(mem'["data"], 1, n))
      <3>1. CASE part = "controller"
        <4>1. Seen(part) = step - 1 /\ Seen(part)' = step /\ part # "data"
          BY <1>1, <3>1 DEF Seen
        <4>2. part \notin Learners /\ part # "manifest"
          BY <3>1, PartsDiffer
        <4>3. mem'[part] = Append(mem[part], run)
          BY <1>4, <3>1
        <4>4. /\ Len(mem'[part]) = Length(part, step)
              /\ Automatic => mem'[part] = Expected(part, SubSeq(mem["data"], 1, step))
          BY <1>1, <1>2, <1>3, <4>1, <4>2, <4>3, LearntStep
        <4> QED
          BY <2>1, <4>1, <4>4
      <3>2. CASE part # "controller"
        <4>1. Seen(part)' = Seen(part)
          BY <1>1, <3>2 DEF Seen
        <4> QED
          BY <1>1, <1>2, <1>4, <2>1, <3>2, <4>1 DEF MemAgrees
      <3> QED
        BY <3>1, <3>2
    <2>3. mem'["data"][step'] = run'
      BY <1>1, <1>2, <2>1 DEF MemAgrees
    <2> QED
      BY <2>2, <2>3, MemAgreesAfter
  <1>7. FoldersAgree' /\ WithinSteps' /\ Saving' /\ TracesApart'
    BY <1>1 DEF IInv, FoldersAgree, WithinSteps, Saving, TracesApart, Length, FirstWarm, Warmup
  <1>8. HistoriesRecorded'
    <2>1. mem'["data"] = mem["data"]
      BY <1>4, PartsDiffer
    <2> QED
      BY <1>1, <2>1 DEF IInv, HistoriesRecorded
  <1>9. KeptInOrder'
    <2>1. \A wg : ToBeSaved(wg)' => ToBeSaved(wg)
      BY <1>1 DEF ToBeSaved
    <2> QED
      BY <1>1, <2>1 DEF IInv, KeptInOrder, Automatic
  <1>10. Tracking' /\ TrackedIsWhole' /\ TrackedIsReadable'
    BY <1>1 DEF IInv, Tracking, TrackedIsWhole, TrackedIsReadable, LastFile, Readable,
                Expected, Warm, Warmup, Automatic
  <1>11. Supplied'
    <2>1. Seen("data")' = Seen("data")
      BY <1>1 DEF Seen
    <2> QED
      BY <1>1, <2>1 DEF IInv, Supplied
  <1> QED
    BY <1>5, <1>6, <1>7, <1>8, <1>9, <1>10, <1>11 DEF IInv

\* The learners catch up with the data.
LEMMA TrainStep == IInv /\ Train /\ trainer' = trainer => IInv'
  <1> SUFFICES ASSUME IInv, Train, trainer' = trainer PROVE IInv'
    OBVIOUS
  <1>1. /\ phase = "update"
        /\ mem' = [part \in Parts |->
                     IF part \in Learning THEN Append(mem[part], run) ELSE mem[part]]
        /\ reached' = IF step > reached THEN step ELSE reached
        /\ epochs' = epochs /\ left' = left /\ kept' = kept /\ file' = file
        /\ folder' = folder /\ trace' = trace /\ tracker' = tracker /\ run' = run
    BY DEF Train
  <1>2. /\ TypeOK /\ MemAgrees /\ trainer \in Configs /\ mem \in [Parts -> History]
        /\ run \in Nat /\ reached \in Nat /\ TotalSteps \in Nat \ {0}
    BY Bounds DEF IInv, TypeOK
  <1>3. step \in Nat \ {0} /\ run \in Nat \ {0} /\ step <= TotalSteps + run - 1
    BY <1>1, <1>2 DEF IInv, WithinSteps
  <1>4. /\ Warmup \in Nat /\ trainer.save_freq \in Nat \ {0}
        /\ Learning = IF step >= Warmup THEN Learners ELSE {}
    BY <1>2, Config DEF Learning, Learners
  <1>5. \/ SaveDue /\ phase' = "save" /\ step' = step
        \/ ~ SaveDue /\ phase' = "draw" /\ step' = step + 1 /\ step < TotalSteps
    BY <1>2, <1>3 DEF Train, AfterStep, IsLast, SaveDue
  <1>6. \A part \in Parts :
          mem'[part] = IF part \in Learning THEN Append(mem[part], run) ELSE mem[part]
    BY <1>1
  <1>7. \A part : Seen(part)' = step
    BY <1>3, <1>5 DEF Seen
  <1>8. mem'["data"] = mem["data"]
    BY <1>4, <1>6, PartsDiffer
  <1>9. TypeOK'
    <2>1. \A part \in Parts : Append(mem[part], run) \in History
      BY <1>2, <1>3, AppendProperties DEF History
    <2>2. mem' \in [Parts -> History]
      BY <1>1, <1>2, <2>1
    <2> QED
      BY <1>1, <1>2, <1>3, <1>5, <2>2 DEF TypeOK
  <1>10. MemAgrees'
    <2>1. ASSUME NEW part \in Parts
          PROVE  /\ Len(mem'[part]) = Length(part, step)
                 /\ Automatic => mem'[part] = Expected(part, SubSeq(mem["data"], 1, step))
      <3>1. CASE part \in {"data", "controller"}
        <4>1. Seen(part) = step /\ mem'[part] = mem[part]
          BY <1>1, <1>4, <1>6, <3>1, PartsDiffer DEF Seen
        <4> QED
          BY <1>1, <1>2, <4>1 DEF MemAgrees
      <3>2. CASE part \notin {"data", "controller"}
        <4>1. Seen(part) = step - 1 /\ part # "data" /\ (part = "manifest" <=> part \notin Learners)
          BY <1>1, <3>2, PartsDiffer DEF Seen
        <4>2. mem'[part] = IF part = "manifest" \/ (part \in Learners /\ step < Warmup)
                           THEN mem[part] ELSE Append(mem[part], run)
          BY <1>3, <1>4, <1>6, <4>1
        <4> QED
          BY <1>1, <1>2, <1>3, <4>1, <4>2, LearntStep
      <3> QED
        BY <3>1, <3>2
    <2>2. \A part \in Parts : \E n :
            /\ Seen(part)' = n
            /\ Len(mem'[part]) = Length(part, n)
            /\ Automatic => mem'[part] = Expected(part, SubSeq(mem'["data"], 1, n))
      BY <1>7, <1>8, <2>1
    <2>3. phase' \notin {"prepare", "update"}
      BY <1>5
    <2> QED
      BY <2>2, <2>3, MemAgreesAfter
  <1>11. FoldersAgree' /\ HistoriesRecorded'
    BY <1>1, <1>8 DEF IInv, FoldersAgree, HistoriesRecorded, Length, FirstWarm, Warmup
  <1>12. WithinSteps'
    <2>1. step' \in Nat \ {0} /\ step' <= TotalSteps + run - 1
      BY <1>2, <1>3, <1>5
    <2> QED
      BY <1>1, <2>1 DEF IInv, WithinSteps
  <1>13. Saving'
    <2>1. file = Closed
      BY <1>1 DEF IInv, Saving
    <2>2. 1 .. Closed.next - 1 = {}
      BY DEF Closed
    <2>3. phase' = "save" => SaveDue'
      BY <1>5 DEF SaveDue, IsLast
    <2> QED
      BY <1>1, <2>1, <2>2, <2>3 DEF Saving
  <1>14. TracesApart'
    <2>1. \A s \in Steps : s \in Nat /\ (s >= step + 1 => s > step)
      BY <1>3 DEF Steps
    <2> QED
      BY <1>1, <1>5, <2>1 DEF IInv, TracesApart
  <1>15. KeptInOrder'
    <2>1. \A wg : ToBeSaved(wg)
      BY <1>1 DEF ToBeSaved
    <2>2. \A wg \in WGs : \A i \in 1 .. Len(kept[wg]) : kept[wg][i] \in Nat
      <3> SUFFICES ASSUME NEW wg \in WGs, NEW i \in 1 .. Len(kept[wg]) PROVE kept[wg][i] \in Nat
        OBVIOUS
      <3>1. kept[wg] \in Seq(Steps)
        BY DEF IInv, TypeOK
      <3>2. kept[wg][i] \in Steps
        BY <3>1, ElementOfSeq
      <3> QED
        BY <3>2 DEF Steps
    <2>3. ASSUME NEW wg \in WGs, NEW i \in 1 .. Len(kept[wg])
          PROVE  /\ kept[wg][i] < step' /\ kept[wg][i] <= step'
                 /\ Automatic => kept[wg][i] <= tracker
      <3>1. kept[wg][i] < step /\ (Automatic => kept[wg][i] <= tracker)
        BY <2>1 DEF IInv, KeptInOrder
      <3>2. kept[wg][i] \in Nat /\ step' \in Nat /\ step <= step'
        BY <1>3, <1>5, <2>2
      <3> QED
        BY <1>3, <3>1, <3>2
    <2> QED
      BY <1>1, <1>5, <2>3 DEF IInv, KeptInOrder, Automatic
  <1>16. Tracking'
    <2> SUFFICES ASSUME Automatic PROVE Tracking'
      BY DEF Tracking, Automatic
    <2>1. ~ LastFile /\ tracker # TornStep /\ tracker < step /\ step <= tracker + trainer.save_freq
          /\ reached <= tracker + trainer.save_freq
          /\ (tracker % trainer.save_freq = 0 \/ tracker >= TotalSteps)
      BY <1>1 DEF IInv, Tracking, LastFile
    <2>2. tracker \in Nat
      BY <1>2, <2>1 DEF TypeOK, Steps, NoStep
    <2>3. reached' <= tracker + trainer.save_freq
      BY <1>1, <2>1
    <2>4. ~ LastFile'
      BY <1>1, <1>5 DEF IInv, Saving, LastFile, Closed
    <2>5. tracker < step' /\ step' <= tracker + trainer.save_freq
      <3>1. CASE step' = step
        BY <2>1, <3>1
      <3>2. CASE ~ SaveDue /\ step' = step + 1 /\ step < TotalSteps
        <4>1. step % trainer.save_freq # 0 /\ tracker % trainer.save_freq = 0
          BY <1>2, <1>3, <2>1, <2>2, <3>2 DEF SaveDue
        <4>2. step # tracker + trainer.save_freq
          BY <1>4, <2>2, <4>1, NextMultiple
        <4> QED
          BY <1>3, <1>4, <2>1, <2>2, <3>2, <4>2
      <3> QED
        BY <1>5, <3>1, <3>2
    <2> QED
      BY <1>1, <2>1, <2>3, <2>4, <2>5 DEF Tracking
  <1>17. TrackedIsWhole' /\ TrackedIsReadable'
    BY <1>1 DEF IInv, TrackedIsWhole, TrackedIsReadable, Readable, Expected, Warm, Warmup, Automatic
  <1>18. Supplied'
    <2>1. Seen("data") = step /\ Seen("data")' = step
      BY <1>1, <1>7 DEF Seen
    <2>2. phase' # "ended"
      BY <1>5
    <2> QED
      BY <1>1, <2>1, <2>2 DEF IInv, Supplied
  <1> QED
    BY <1>9, <1>10, <1>11, <1>12, <1>13, <1>14, <1>15, <1>16, <1>17, <1>18 DEF IInv

(* The directories an actor gives up are those it has kept longest.        *)
LEMMA RotatedAreOldest ==
  ASSUME TypeOK, NEW wg \in WGs
  PROVE  LET n    == Len(Rotated(wg))
             rest == SubSeq(kept[wg], n + 1, Len(kept[wg]))
         IN  /\ n \in 0 .. Len(kept[wg])
             /\ \A i \in 1 .. n : Rotated(wg)[i] = kept[wg][i]
             /\ n = Len(kept[wg]) => n = 0 \/ trainer.max_actor_ckpt_to_keep = 1
             /\ rest \in Seq(Steps) /\ Len(rest) = Len(kept[wg]) - n
             /\ \A i \in 1 .. Len(rest) : rest[i] = kept[wg][n + i]
             /\ \A s \in ToSet(Rotated(wg)) : \E i \in 1 .. n : kept[wg][i] = s
  <1> DEFINE k    == kept[wg]
             keep == trainer.max_actor_ckpt_to_keep
             old  == Rotated(wg)
             n    == Len(old)
             rest == SubSeq(k, n + 1, Len(k))
  <1>1. k \in Seq(Steps) /\ keep \in Nat /\ Len(k) \in Nat
    <2>1. trainer \in Configs /\ k \in Seq(Steps)
      BY DEF TypeOK
    <2> QED
      BY <2>1, Config
  <1>2. \A i \in 1 .. Len(k) : k[i] \in Steps
    BY <1>1, ElementOfSeq
  <1> HIDE DEF k, keep
  <1>3. /\ n \in 0 .. Len(k) /\ old \in Seq(Steps)
        /\ \A i \in 1 .. n : old[i] = k[i]
        /\ n = Len(k) => n = 0 \/ keep = 1
    <2>1. CASE keep > 0 /\ Len(k) >= keep
      <3> DEFINE m == Len(k) - keep + 1
      <3>1. old = SubSeq(k, 1, m)
        BY <2>1 DEF Rotated, k, keep
      <3>2. m \in 1 .. Len(k) /\ (m = Len(k) => keep = 1)
        BY <1>1, <2>1
      <3> HIDE DEF old, m
      <3>3. \A i \in 1 .. m : k[i] \in Steps
        BY <1>1, <1>2, <3>2
      <3>4. /\ SubSeq(k, 1, m) \in Seq(Steps) /\ Len(SubSeq(k, 1, m)) = m
            /\ \A i \in 1 .. m : SubSeq(k, 1, m)[i] = k[i]
        BY <1>1, <3>2, <3>3, SubSeqProperties
      <3> QED
        BY <1>1, <3>1, <3>2, <3>4
    <2>2. CASE ~ (keep > 0 /\ Len(k) >= keep)
      <3>1. old = <<>>
        BY <2>2 DEF Rotated, k, keep
      <3> QED
        BY <1>1, <3>1
    <2> QED
      BY <2>1, <2>2
  <1> HIDE DEF old
  <1>4. /\ rest \in Seq(Steps) /\ Len(rest) = Len(k) - n
        /\ \A i \in 1 .. Len(rest) : rest[i] = k[n + i]
    <2>1. \A i \in n + 1 .. Len(k) : k[i] \in Steps
      BY <1>1, <1>2, <1>3
    <2>2. /\ rest \in Seq(Steps)
          /\ Len(rest) = IF n + 1 <= Len(k) THEN Len(k) - (n + 1) + 1 ELSE 0
          /\ \A i \in 1 .. Len(k) - (n + 1) + 1 : rest[i] = k[n + 1 + i - 1]
      BY <1>1, <1>3, <2>1, SubSeqProperties
    <2>3. Len(rest) = Len(k) - n /\ Len(k) - (n + 1) + 1 = Len(k) - n
      BY <1>1, <1>3, <2>2
    <2>4. \A i \in 1 .. Len(k) - n : n + 1 + i - 1 = n + i
      BY <1>1, <1>3
    <2> HIDE DEF rest
    <2> QED
      BY <2>2, <2>3, <2>4
  <1>5. \A s \in ToSet(old) : \E i \in 1 .. n : k[i] = s
    BY <1>3 DEF ToSet
  <1> QED
    BY <1>3, <1>4, <1>5 DEF k, keep, old

\* Opening a file tears it, and an actor's file rotates older ones away.
LEMMA OpenStep == IInv /\ Open /\ trainer' = trainer => IInv'
  <1> SUFFICES ASSUME IInv, Open, trainer' = trainer PROVE IInv'
    OBVIOUS
  <1> DEFINE name == Files[file.next]
             gone(part, s) == part \in WGs /\ s \in ToSet(Rotated(part))
  <1>1. /\ phase = "save" /\ phase' = "save" /\ ~ file.open /\ file' = [file EXCEPT !.open = TRUE]
        /\ tracker' = IF name = "tracker" THEN TornStep ELSE tracker
        /\ folder' = [s \in Steps |->
             IF gone(name, s) THEN [folder[s] EXCEPT ![name] = Missing]
             ELSE IF s = step /\ name \in Parts \ {"semantic"} THEN [folder[s] EXCEPT ![name] = Torn]
             ELSE folder[s]]
        /\ kept' = IF name \in WGs
                   THEN [kept EXCEPT ![name] = SubSeq(@, Len(Rotated(name)) + 1, Len(@))]
                   ELSE kept
        /\ step' = step /\ epochs' = epochs /\ left' = left /\ mem' = mem
        /\ trace' = trace /\ run' = run /\ reached' = reached
    BY DEF Open
  <1>2. /\ TypeOK /\ trainer \in Configs /\ kept \in [WGs -> Seq(Steps)]
        /\ file \in [next : 1 .. Len(Files), open : BOOLEAN]
        /\ folder \in [Steps -> [Parts -> History \cup Unreadable]] /\ step \in Nat
        /\ tracker \in Steps \cup {NoStep, TornStep}
    BY DEF IInv, TypeOK
  <1>3. /\ file.next \in 1 .. Len(Files) /\ Len(Files) \in Nat \ {0}
        /\ (name \in Parts \/ (name = "tracker" /\ file.next = Len(Files)))
        /\ (name = "tracker" => file.next = Len(Files))
        /\ \A i \in 1 .. file.next - 1 : i \in 1 .. Len(Files) /\ Files[i] # name
    <2>1. file.next \in 1 .. Len(Files) /\ Len(Files) \in Nat \ {0}
      BY <1>2, FilesInOrder
    <2>2. name \in Parts \/ (name = "tracker" /\ file.next = Len(Files))
      BY <2>1, FilesInOrder
    <2>3. name = "tracker" => file.next = Len(Files)
      BY <2>2, PartsDiffer
    <2>4. ASSUME NEW i \in 1 .. file.next - 1 PROVE i \in 1 .. Len(Files) /\ Files[i] # name
      <3>1. i \in 1 .. Len(Files) /\ i # file.next
        BY <2>1
      <3> QED
        BY <2>1, <3>1, FilesInOrder
    <2> QED
      BY <2>1, <2>2, <2>3, <2>4
  <1>4. file' = [next |-> file.next, open |-> TRUE]
    BY <1>1, <1>2
  <1> HIDE DEF name
  <1>5. ASSUME NEW s \in Steps, NEW part \in Parts
        PROVE  \/ folder'[s][part] = folder[s][part]
               \/ /\ part = name /\ folder'[s][part] \in Unreadable
                  /\ s = step \/ gone(name, s)
    <2>1. folder[s] \in [Parts -> History \cup Unreadable]
      BY <1>2
    <2>2. CASE gone(name, s)
      <3>1. folder'[s] = [folder[s] EXCEPT ![name] = Missing]
        BY <1>1, <2>2
      <3> QED
        BY <2>1, <2>2, <3>1 DEF Unreadable
    <2>3. CASE ~ gone(name, s) /\ s = step /\ name \in Parts \ {"semantic"}
      <3>1. folder'[s] = [folder[s] EXCEPT ![name] = Torn]
        BY <1>1, <2>3
      <3> QED
        BY <2>1, <2>3, <3>1 DEF Unreadable
    <2>4. CASE ~ gone(name, s) /\ ~ (s = step /\ name \in Parts \ {"semantic"})
      BY <1>1, <2>4
    <2> QED
      BY <2>2, <2>3, <2>4
  <1>6. name \in WGs => ToBeSaved(name)
    BY <1>1, <1>3 DEF ToBeSaved
  <1>7. \A s \in Steps : gone(name, s) => name \in WGs /\ \E i \in 1 .. Len(Rotated(name)) : kept[name][i] = s
    BY <1>2, RotatedAreOldest
  <1>8. \A wg \in WGs : ToBeSaved(wg)' <=> ToBeSaved(wg)
    BY <1>1, <1>4 DEF ToBeSaved
  <1>9. name \in WGs => name \in Parts \ {"data", "controller", "manifest", "semantic", "hybrid"}
    BY PartsDiffer
  <1>10. TypeOK'
    <2>1. kept' \in [WGs -> Seq(Steps)]
      <3>1. name \in WGs => SubSeq(kept[name], Len(Rotated(name)) + 1, Len(kept[name])) \in Seq(Steps)
        BY <1>2, RotatedAreOldest
      <3> QED
        BY <1>1, <1>2, <3>1
    <2>2. folder' \in [Steps -> [Parts -> History \cup Unreadable]]
      <3>1. ASSUME NEW s \in Steps PROVE folder'[s] \in [Parts -> History \cup Unreadable]
        <4>1. folder[s] \in [Parts -> History \cup Unreadable]
          BY <1>2
        <4> QED
          BY <1>1, <4>1 DEF Unreadable
      <3> QED
        BY <1>1, <3>1
    <2>3. tracker' \in Steps \cup {NoStep, TornStep}
      BY <1>1, <1>2
    <2>4. file' \in [next : 1 .. Len(Files), open : BOOLEAN]
      BY <1>3, <1>4
    <2> QED
      BY <1>1, <1>2, <2>1, <2>2, <2>3, <2>4 DEF TypeOK
  <1>11. MemAgrees'
    <2>1. \A part : Seen(part)' = Seen(part)
      BY <1>1 DEF Seen
    <2> QED
      BY <1>1, <2>1 DEF IInv, MemAgrees, Length, Expected, Warm, FirstWarm, Warmup, Automatic
  <1>12. FoldersAgree'
    <2>1. ASSUME NEW s \in Steps, NEW part \in Parts
          PROVE  folder'[s][part] \in Unreadable \/ Len(folder'[s][part]) = Length(part, s)
      BY <1>5 DEF IInv, FoldersAgree
    <2> QED
      BY <2>1 DEF FoldersAgree, Length, FirstWarm, Warmup
  <1>13. \A s \in Steps : folder'[s]["data"] = folder[s]["data"] \/ (folder'[s]["data"] \in Unreadable /\ s = step)
    BY <1>5, <1>9, PartsDiffer
  <1>14. HistoriesRecorded'
    BY <1>1, <1>13 DEF IInv, HistoriesRecorded
  <1>15. TracesApart'
    BY <1>1 DEF IInv, TracesApart
  <1>16. WithinSteps'
    BY <1>1, <1>13 DEF IInv, WithinSteps
  <1>17. Saving'
    <2>1. ASSUME NEW i \in 1 .. file.next - 1, Files[i] \in Parts
          PROVE  folder'[step][Files[i]] = mem[Files[i]]
      <3>1. step \in Steps
        BY <1>1, StepInRange
      <3>2. folder[step][Files[i]] = mem[Files[i]] /\ Files[i] # name
        BY <1>1, <1>3, <2>1 DEF IInv, Saving
      <3> QED
        BY <1>5, <2>1, <3>1, <3>2
    <2>2. SaveDue'
      BY <1>1 DEF IInv, Saving, SaveDue, IsLast
    <2> QED
      BY <1>1, <1>4, <2>1, <2>2 DEF Saving
  <1>18. KeptInOrder'
    <2> SUFFICES ASSUME NEW wg \in WGs
                 PROVE  /\ \A i, j \in 1 .. Len(kept'[wg]) : i < j => kept'[wg][i] < kept'[wg][j]
                        /\ \A i \in 1 .. Len(kept'[wg]) :
                             /\ kept'[wg][i] <= step
                             /\ ToBeSaved(wg) => kept'[wg][i] < step /\ (Automatic => kept'[wg][i] <= tracker')
      BY <1>1, <1>8 DEF KeptInOrder, Automatic
    <2>1. /\ \A i, j \in 1 .. Len(kept[wg]) : i < j => kept[wg][i] < kept[wg][j]
          /\ \A i \in 1 .. Len(kept[wg]) :
               /\ kept[wg][i] <= step
               /\ ToBeSaved(wg) => kept[wg][i] < step /\ (Automatic => kept[wg][i] <= tracker)
      BY <1>1 DEF IInv, KeptInOrder
    <2>2. ToBeSaved(wg) => tracker' = tracker
      <3>1. PICK i \in 1 .. Len(Files) - 1 : Files[i] = wg
        BY FilesInOrder, PartsDiffer
      <3>2. ToBeSaved(wg) => file.next # Len(Files)
        BY <1>1, <3>1 DEF ToBeSaved
      <3> QED
        BY <1>1, <1>3, <3>2
    <2>3. CASE wg # name
      <3>1. kept'[wg] = kept[wg]
        BY <1>1, <1>2, <2>3
      <3> QED
        BY <2>1, <2>2, <3>1
    <2>4. CASE wg = name
      <3> DEFINE n    == Len(Rotated(wg))
                 rest == SubSeq(kept[wg], n + 1, Len(kept[wg]))
      <3>1. /\ n \in 0 .. Len(kept[wg]) /\ Len(rest) = Len(kept[wg]) - n
            /\ \A i \in 1 .. Len(rest) : rest[i] = kept[wg][n + i]
        BY <1>2, RotatedAreOldest
      <3>2. kept'[wg] = rest
        BY <1>1, <1>2, <2>4
      <3>3. Len(kept[wg]) \in Nat
        BY <1>2
      <3> HIDE DEF n, rest
      <3>4. \A i \in 1 .. Len(rest) : n + i \in 1 .. Len(kept[wg])
        BY <3>1, <3>3
      <3>5. \A i, j \in 1 .. Len(rest) : i < j => n + i < n + j
        BY <3>1
      <3>6. \A i, j \in 1 .. Len(rest) : i < j => rest[i] < rest[j]
        BY <2>1, <3>1, <3>4, <3>5
      <3>7. \A i \in 1 .. Len(rest) :
              /\ rest[i] <= step
              /\ ToBeSaved(wg) => rest[i] < step /\ (Automatic => rest[i] <= tracker)
        BY <2>1, <3>1, <3>4
      <3> QED
        BY <2>2, <3>2, <3>6, <3>7
    <2> QED
      BY <2>3, <2>4
  <1>19. Tracking'
    <2>1. ~ LastFile
      BY <1>1 DEF LastFile
    <2>2. LastFile' <=> name = "tracker"
      BY <1>1, <1>3, <1>4, PartsDiffer, FilesInOrder DEF LastFile, name
    <2> SUFFICES ASSUME Automatic PROVE Tracking'
      BY DEF Tracking, Automatic
    <2>3. /\ tracker # TornStep /\ tracker < step /\ step <= tracker + trainer.save_freq
          /\ reached <= tracker + trainer.save_freq
          /\ (tracker % trainer.save_freq = 0 \/ tracker >= TotalSteps)
      BY <1>1, <2>1 DEF IInv, Tracking
    <2>4. reached <= step + trainer.save_freq
      <3>1. tracker \in Nat /\ reached \in Nat /\ trainer.save_freq \in Nat
        BY <1>2, <2>3, Config DEF TypeOK, Steps, NoStep
      <3> QED
        BY <1>2, <2>3, <3>1
    <2> QED
      BY <1>1, <2>2, <2>3, <2>4 DEF Tracking
  <1>20. Automatic /\ tracker' \in Steps =>
           /\ tracker' = tracker /\ tracker # step
           /\ \A wg \in WGs : ToBeSaved(wg) => \A i \in 1 .. Len(kept[wg]) : kept[wg][i] <= tracker
    <2> SUFFICES ASSUME Automatic, tracker' \in Steps
                 PROVE  /\ tracker' = tracker /\ tracker # step
                        /\ \A wg \in WGs : ToBeSaved(wg) => \A i \in 1 .. Len(kept[wg]) : kept[wg][i] <= tracker
      OBVIOUS
    <2>1. tracker' = tracker
      BY <1>1 DEF TornStep, Steps
    <2>2. tracker < step
      BY <1>1 DEF IInv, Tracking, LastFile
    <2> QED
      BY <1>2, <2>1, <2>2 DEF IInv, KeptInOrder, Steps
  <1>21. TrackedIsWhole'
    <2> SUFFICES ASSUME Automatic, tracker' \in Steps
                 PROVE  /\ folder'[tracker]["data"] \notin Unreadable
                        /\ \A part \in Parts :
                             folder'[tracker][part] \in Unreadable
                             \/ folder'[tracker][part] = Expected(part, folder'[tracker]["data"])
      BY <1>20 DEF TrackedIsWhole, Expected, Warm, Warmup, Automatic
    <2>1. tracker \in Steps /\ tracker # step
      BY <1>20
    <2>2. folder'[tracker]["data"] = folder[tracker]["data"]
      BY <1>13, <2>1
    <2>3. \A part \in Parts : folder'[tracker][part] = folder[tracker][part] \/ folder'[tracker][part] \in Unreadable
      BY <1>5, <2>1
    <2> QED
      BY <2>1, <2>2, <2>3 DEF IInv, TrackedIsWhole
  <1>22. TrackedIsReadable'
    <2> SUFFICES ASSUME Automatic, trainer.max_actor_ckpt_to_keep # 1, tracker' \in Steps, NEW part \in Parts
                 PROVE  folder'[tracker][part] \notin Unreadable
      BY <1>20 DEF TrackedIsReadable, Readable, Unreadable, Automatic
    <2>1. tracker \in Steps /\ tracker # step
      BY <1>20
    <2>2. folder[tracker][part] \notin Unreadable
      BY <2>1 DEF IInv, TrackedIsReadable, Readable, Unreadable
    <2>3. ~ gone(name, tracker)
      <3> SUFFICES ASSUME gone(name, tracker) PROVE FALSE
        OBVIOUS
      <3> DEFINE n == Len(Rotated(name))
                 m == Len(kept[name])
      <3>1. name \in WGs
        OBVIOUS
      <3>2. PICK i \in 1 .. n : kept[name][i] = tracker
        BY <1>7, <2>1
      <3>3. n \in 0 .. m /\ (n = m => n = 0) /\ m \in Nat
        BY <1>2, <3>1, RotatedAreOldest
      <3>4. i < m /\ i \in 1 .. m /\ m \in 1 .. m
        BY <3>2, <3>3
      <3>5. kept[name][i] < kept[name][m]
        BY <3>1, <3>4 DEF IInv, KeptInOrder
      <3>6. kept[name][m] <= tracker
        BY <1>6, <1>20, <3>1, <3>4
      <3>7. kept[name][m] \in Nat /\ tracker \in Nat
        <4>1. kept[name] \in Seq(Steps)
          BY <1>2, <3>1
        <4>2. kept[name][m] \in Steps
          BY <3>4, <4>1, ElementOfSeq
        <4> QED
          BY <2>1, <4>2 DEF Steps
      <3> HIDE DEF n, m
      <3> QED
        BY <3>2, <3>5, <3>6, <3>7
    <2> QED
      BY <1>5, <2>1, <2>2, <2>3
  <1>23. Supplied'
    <2>1. Seen("data")' = Seen("data")
      BY <1>1 DEF Seen
    <2> QED
      BY <1>1, <2>1 DEF IInv, Supplied
  <1> QED
    BY <1>10, <1>11, <1>12, <1>14, <1>15, <1>16, <1>17, <1>18, <1>19, <1>21, <1>22, <1>23 DEF IInv

\* Closing a file completes a part, and at last the tracker.
LEMMA CloseStep == IInv /\ Close /\ trainer' = trainer => IInv'
  <1> SUFFICES ASSUME IInv, Close, trainer' = trainer PROVE IInv'
    OBVIOUS
  <1> DEFINE name == Files[file.next]
             last == file.next = Len(Files)
  <1>1. /\ phase = "save" /\ file.open
        /\ IF name = "tracker" THEN tracker' = step /\ UNCHANGED folder
           ELSE folder' = [folder EXCEPT ![step][name] = mem[name]] /\ UNCHANGED tracker
        /\ kept' = IF name \in WGs THEN [kept EXCEPT ![name] = Append(@, step)] ELSE kept
        /\ IF last
           THEN file' = Closed /\ AfterStep
           ELSE file' = [next |-> file.next + 1, open |-> FALSE] /\ phase' = phase /\ step' = step
        /\ epochs' = epochs /\ left' = left /\ mem' = mem
        /\ trace' = trace /\ run' = run /\ reached' = reached
    BY DEF Close
  <1>2. /\ TypeOK /\ trainer \in Configs /\ kept \in [WGs -> Seq(Steps)]
        /\ file \in [next : 1 .. Len(Files), open : BOOLEAN]
        /\ folder \in [Steps -> [Parts -> History \cup Unreadable]] /\ step \in Nat
        /\ mem \in [Parts -> History]
        /\ tracker \in Steps \cup {NoStep, TornStep} /\ TotalSteps \in Nat \ {0}
    BY Bounds DEF IInv, TypeOK
  <1>3. /\ file.next \in 1 .. Len(Files) /\ Len(Files) \in Nat \ {0}
        /\ (last <=> name = "tracker") /\ (~ last => name \in Parts)
    <2>1. file.next \in 1 .. Len(Files) /\ Len(Files) \in Nat \ {0}
      BY <1>2, FilesInOrder
    <2>2. last => name = "tracker"
      BY FilesInOrder
    <2>3. ~ last => name \in Parts
      BY <2>1, FilesInOrder
    <2> QED
      BY <2>1, <2>2, <2>3, PartsDiffer
  <1>4. step \in Steps /\ step \in Nat \ {0}
    BY <1>1, StepInRange DEF Steps
  <1>5. SaveDue
    BY <1>1 DEF IInv, Saving
  <1> HIDE DEF name
  <1>6. \A part : Seen(part) = step /\ Seen(part)' = step
    <2>1. \/ phase' \in {"save", "done"} /\ step' = step
          \/ phase' = "draw" /\ step' = step + 1
      BY <1>1 DEF AfterStep
    <2>2. step + 1 - 1 = step
      BY <1>2
    <2>3. \A part : Seen(part) = step
      BY <1>1 DEF Seen
    <2>4. \A part : Seen(part)' = step
      <3>1. CASE phase' \in {"save", "done"} /\ step' = step
        <4>1. phase' # "prepare" /\ phase' # "update" /\ phase' # "ended" /\ phase' # "draw"
          BY <3>1
        <4> QED
          BY <3>1, <4>1 DEF Seen
      <3>2. CASE phase' = "draw" /\ step' = step + 1
        <4>1. step' - 1 = step
          <5>1. step' = step + 1 /\ step \in Nat
            BY <3>2, <1>2
          <5> QED
            BY <5>1
        <4>2. phase' = "draw" /\ phase' # "prepare" /\ phase' # "update"
          BY <3>2
        <4> QED
          BY <4>1, <4>2 DEF Seen
      <3> QED
        BY <2>1, <3>1, <3>2
    <2> QED
      BY <2>3, <2>4
  <1>7. MemAgrees'
    <2>1. \A part \in Parts : \E n :
            /\ Seen(part)' = n
            /\ Len(mem'[part]) = Length(part, n)
            /\ Automatic => mem'[part] = Expected(part, SubSeq(mem'["data"], 1, n))
      BY <1>1, <1>6 DEF IInv, MemAgrees
    <2>2. phase' \notin {"prepare", "update"}
      BY <1>1 DEF AfterStep
    <2> QED
      BY <2>1, <2>2, MemAgreesAfter
  <1>8. Supplied'
    <2>1. phase' # "ended"
      BY <1>1 DEF AfterStep
    <2> QED
      BY <1>1, <1>6, <2>1 DEF IInv, Supplied
  <1>9. ASSUME NEW s \in Steps, NEW part \in Parts
        PROVE  folder'[s][part] = IF s = step /\ part = name /\ ~ last THEN mem[part] ELSE folder[s][part]
    <2>1. CASE last
      BY <1>1, <1>3, <2>1
    <2>2. CASE ~ last
      <3>1. folder' = [folder EXCEPT ![step][name] = mem[name]] /\ name \in Parts
        BY <1>1, <1>3, <2>2
      <3>2. folder[s] \in [Parts -> History \cup Unreadable]
        BY <1>2
      <3> QED
        BY <1>2, <2>2, <3>1, <3>2
    <2> QED
      BY <2>1, <2>2
  <1>10. \A part \in Parts : mem[part] \in History /\ Len(mem[part]) = Length(part, step)
    BY <1>1, <1>2, <1>6 DEF IInv, MemAgrees
  <1>11. FoldersAgree'
    <2>1. ASSUME NEW s \in Steps, NEW part \in Parts
          PROVE  folder'[s][part] \in Unreadable \/ Len(folder'[s][part]) = Length(part, s)
      BY <1>9, <1>10 DEF IInv, FoldersAgree
    <2> QED
      BY <2>1 DEF FoldersAgree, Length, FirstWarm, Warmup
  <1>12. \A s \in Steps : folder'[s]["data"] = folder[s]["data"] \/ (folder'[s]["data"] = mem["data"] /\ s = step)
    BY <1>9, PartsDiffer
  <1>13. HistoriesRecorded'
    BY <1>1, <1>12 DEF IInv, HistoriesRecorded
  <1>14. folder' \in [Steps -> [Parts -> History \cup Unreadable]]
    <2>1. CASE last
      BY <1>1, <1>2, <1>3, <2>1
    <2>2. CASE ~ last
      <3>1. folder' = [folder EXCEPT ![step][name] = mem[name]] /\ name \in Parts
        BY <1>1, <1>3, <2>2
      <3>2. [folder[step] EXCEPT ![name] = mem[name]] \in [Parts -> History \cup Unreadable]
        BY <1>2, <1>4, <3>1
      <3> QED
        BY <1>2, <3>1, <3>2
    <2> QED
      BY <2>1, <2>2
  <1>15. kept' \in [WGs -> Seq(Steps)]
    <2>1. name \in WGs => Append(kept[name], step) \in Seq(Steps)
      BY <1>2, <1>4, AppendProperties
    <2> QED
      BY <1>1, <1>2, <2>1
  <1>16. TypeOK' /\ WithinSteps' /\ TracesApart' /\ KeptInOrder' /\ Saving' /\ Tracking' /\ TrackedIsWhole' /\ TrackedIsReadable'
    <2>1. CASE ~ last
      <3>1. /\ file' = [next |-> file.next + 1, open |-> FALSE] /\ phase' = "save" /\ step' = step
            /\ tracker' = tracker /\ name \in Parts
        BY <1>1, <1>3, <2>1
      <3>2. file' \in [next : 1 .. Len(Files), open : BOOLEAN]
        BY <1>3, <2>1, <3>1
      <3>3. TypeOK'
        BY <1>1, <1>2, <1>14, <1>15, <3>1, <3>2 DEF TypeOK
      <3>4. WithinSteps'
        BY <1>1, <1>12, <3>1 DEF IInv, WithinSteps
      <3>5. TracesApart'
        BY <1>1, <3>1 DEF IInv, TracesApart
      <3>6. Saving'
        <4>1. ASSUME NEW i \in 1 .. file.next, Files[i] \in Parts
              PROVE  folder'[step][Files[i]] = mem[Files[i]]
          <5>1. i \in 1 .. file.next - 1 \/ i = file.next
            BY <1>3
          <5>2. i = file.next => Files[i] = name
            BY DEF name
          <5>3. i \in 1 .. file.next - 1 => folder[step][Files[i]] = mem[Files[i]]
            BY <1>1, <4>1 DEF IInv, Saving
          <5> QED
            BY <1>4, <1>9, <2>1, <4>1, <5>1, <5>2, <5>3
        <4>2. SaveDue'
          BY <1>5, <3>1 DEF SaveDue, IsLast
        <4>3. file'.next - 1 = file.next /\ phase' = "save"
          BY <1>3, <3>1
        <4>4. \A i \in 1 .. file'.next - 1 : Files[i] \in Parts => folder'[step'][Files[i]] = mem'[Files[i]]
          BY <1>1, <3>1, <4>1, <4>3
        <4> QED
          BY <4>2, <4>3, <4>4 DEF Saving
      <3>7. KeptInOrder'
        <4> SUFFICES ASSUME NEW wg \in WGs
                     PROVE  /\ \A i, j \in 1 .. Len(kept'[wg]) : i < j => kept'[wg][i] < kept'[wg][j]
                            /\ \A i \in 1 .. Len(kept'[wg]) :
                                 /\ kept'[wg][i] <= step
                                 /\ ToBeSaved(wg)' => kept'[wg][i] < step /\ (Automatic => kept'[wg][i] <= tracker)
          BY <3>1 DEF KeptInOrder, Automatic
        <4>1. /\ \A i, j \in 1 .. Len(kept[wg]) : i < j => kept[wg][i] < kept[wg][j]
              /\ \A i \in 1 .. Len(kept[wg]) :
                   /\ kept[wg][i] <= step
                   /\ ToBeSaved(wg) => kept[wg][i] < step /\ (Automatic => kept[wg][i] <= tracker)
          BY <1>1 DEF IInv, KeptInOrder
        <4>2. ToBeSaved(wg)' => \A i \in 1 .. file.next : Files[i] # wg
          <5>1. file'.next - 1 = file.next /\ phase' = "save"
            BY <1>3, <3>1
          <5>2. ToBeSaved(wg)' => \A i \in 1 .. file'.next - 1 : Files[i] # wg
            BY <5>1 DEF ToBeSaved
          <5> QED
            BY <5>1, <5>2
        <4>3. ToBeSaved(wg)' => ToBeSaved(wg) /\ wg # name
          <5>1. /\ \A i \in 1 .. file.next - 1 : i \in 1 .. file.next
                /\ file.next \in 1 .. file.next
            BY <1>3
          <5> QED
            BY <1>1, <4>2, <5>1 DEF ToBeSaved, name
        <4>4. CASE wg # name
          <5>1. kept'[wg] = kept[wg]
            BY <1>1, <1>2, <4>4
          <5> QED
            BY <4>1, <4>3, <5>1
        <4>5. CASE wg = name
          <5> DEFINE n == Len(kept[wg])
          <5>1. /\ n \in Nat /\ Len(kept'[wg]) = n + 1 /\ kept'[wg][n + 1] = step
                /\ \A i \in 1 .. n : kept'[wg][i] = kept[wg][i]
            <6>1. kept'[wg] = Append(kept[wg], step)
              BY <1>1, <1>2, <4>5
            <6> QED
              BY <1>2, <1>4, <6>1, AppendProperties
          <5>2. ToBeSaved(wg)
            <6>1. ASSUME NEW i \in 1 .. file.next - 1 PROVE Files[i] # wg
              <7>1. i \in 1 .. Len(Files) /\ i # file.next
                BY <1>3
              <7> QED
                BY <1>3, <4>5, <7>1, FilesInOrder DEF name
            <6> QED
              BY <1>1, <6>1 DEF ToBeSaved
          <5>3. \A i \in 1 .. n : kept[wg][i] < step
            BY <4>1, <5>2
          <5>4. \A i \in 1 .. n + 1 : i \in 1 .. n \/ i = n + 1
            BY <5>1
          <5>5. \A i, j \in 1 .. n : i < j => kept[wg][i] < kept[wg][j]
            BY <4>1
          <5>6. \A i \in 1 .. n : kept[wg][i] <= step
            BY <4>1
          <5> HIDE DEF n
          <5>7. \A i, j \in 1 .. n + 1 : i < j => kept'[wg][i] < kept'[wg][j]
            <6> SUFFICES ASSUME NEW i \in 1 .. n + 1, NEW j \in 1 .. n + 1, i < j
                         PROVE  kept'[wg][i] < kept'[wg][j]
              OBVIOUS
            <6>1. i \in 1 .. n
              BY <5>1
            <6> QED
              BY <5>1, <5>3, <5>4, <5>5, <6>1
          <5>8. \A i \in 1 .. n + 1 : kept'[wg][i] <= step
            <6>1. step <= step
              BY <1>2
            <6> QED
              BY <5>1, <5>4, <5>6, <6>1
          <5> QED
            BY <4>3, <4>5, <5>1, <5>7, <5>8
        <4> QED
          BY <4>4, <4>5
      <3>8. Tracking'
        <4>1. ~ LastFile /\ ~ LastFile'
          BY <2>1, <3>1 DEF LastFile
        <4> QED
          BY <1>1, <3>1, <4>1 DEF IInv, Tracking, Automatic
      <3>9. Automatic /\ tracker \in Steps => tracker # step
        <4> SUFFICES ASSUME Automatic, tracker \in Steps PROVE tracker # step
          OBVIOUS
        <4>1. tracker < step
          BY <1>1, <2>1 DEF IInv, Tracking, LastFile
        <4> QED
          BY <1>2, <4>1
      <3>10. Automatic /\ tracker \in Steps => \A part \in Parts : folder'[tracker][part] = folder[tracker][part]
        BY <1>9, <3>9
      <3>11. TrackedIsWhole'
        BY <3>1, <3>10, PartsDiffer DEF IInv, TrackedIsWhole, Expected, Warm, Warmup, Automatic
      <3>12. TrackedIsReadable'
        BY <3>1, <3>10 DEF IInv, TrackedIsReadable, Readable, Automatic
      <3> QED
        BY <3>3, <3>4, <3>5, <3>6, <3>7, <3>8, <3>11, <3>12
    <2>2. CASE last
      <3>1. /\ file' = Closed /\ tracker' = step /\ folder' = folder /\ name = "tracker"
            /\ kept' = kept
            /\ \/ phase' = "done" /\ step' = step
               \/ phase' = "draw" /\ step' = step + 1 /\ step < TotalSteps
        <4>1. name = "tracker" /\ name \notin WGs
          BY <1>3, <2>2, PartsDiffer
        <4> QED
          BY <1>1, <1>2, <2>2, <4>1 DEF AfterStep, IsLast
      <3>2. file' \in [next : 1 .. Len(Files), open : BOOLEAN]
        BY <1>3, <3>1 DEF Closed
      <3>3. TypeOK'
        BY <1>1, <1>2, <1>4, <3>1, <3>2 DEF TypeOK
      <3>4. WithinSteps'
        <4>1. /\ step <= TotalSteps + run - 1 /\ run <= MaxRuns /\ run > 0 /\ run \in Nat
          BY <1>1 DEF IInv, WithinSteps, TypeOK
        <4>2. step' \in Nat \ {0} /\ step' <= TotalSteps + run - 1
          BY <1>2, <1>4, <3>1, <4>1
        <4> QED
          BY <1>1, <3>1, <4>1, <4>2 DEF IInv, WithinSteps
      <3>5. TracesApart'
        <4>1. \A s \in Steps : s \in Nat /\ (s >= step + 1 => s > step)
          BY <1>2 DEF Steps
        <4> QED
          BY <1>1, <3>1, <4>1 DEF IInv, TracesApart
      <3>6. Saving'
        BY <3>1 DEF Saving
      <3>7. KeptInOrder'
        <4>1. ASSUME NEW wg \in WGs, NEW i \in 1 .. Len(kept[wg])
              PROVE  kept[wg][i] <= step /\ kept[wg][i] < step + 1
          <5>1. kept[wg][i] <= step
            BY <1>1 DEF IInv, KeptInOrder
          <5>2. kept[wg] \in Seq(Steps)
            BY <1>2
          <5>3. kept[wg][i] \in Nat
            <6>1. kept[wg][i] \in Steps
              BY <5>2, ElementOfSeq
            <6> QED
              BY <6>1 DEF Steps
          <5> QED
            BY <1>2, <5>1, <5>3
        <4>2. \A wg : ToBeSaved(wg)' => phase' = "draw"
          BY <3>1 DEF ToBeSaved
        <4>3. ASSUME NEW wg \in WGs, NEW i \in 1 .. Len(kept[wg]), phase' = "draw"
              PROVE  kept[wg][i] < step' /\ kept[wg][i] <= step' /\ kept[wg][i] <= tracker'
          <5>1. step' = step + 1
            BY <3>1, <4>3
          <5>2. kept[wg] \in Seq(Steps)
            BY <1>2
          <5>3. kept[wg][i] \in Nat
            <6>1. kept[wg][i] \in Steps
              BY <5>2, ElementOfSeq
            <6> QED
              BY <6>1 DEF Steps
          <5> QED
            BY <1>2, <3>1, <4>1, <5>1, <5>3
        <4> QED
          BY <3>1, <4>2, <4>3 DEF IInv, KeptInOrder
      <3>8. Tracking'
        <4> SUFFICES ASSUME Automatic PROVE Tracking'
          BY DEF Tracking, Automatic
        <4>1. ~ LastFile'
          BY <3>1 DEF LastFile
        <4>2. reached <= step + trainer.save_freq
          BY <1>1, <2>2 DEF IInv, Tracking, LastFile
        <4>3. step % trainer.save_freq = 0 \/ step >= TotalSteps
          BY <1>5 DEF SaveDue, IsLast
        <4>4. trainer.save_freq \in Nat \ {0}
          BY <1>2, Config
        <4>5. phase' = "draw" => step' = step + 1 /\ step < step + 1 /\ step + 1 <= step + trainer.save_freq
          BY <1>2, <3>1, <4>4
        <4>6. step # TornStep
          BY <1>2 DEF TornStep
        <4>7. phase' \in {"draw", "done"}
          BY <3>1
        <4> QED
          BY <1>1, <3>1, <4>1, <4>2, <4>3, <4>5, <4>6, <4>7 DEF Tracking
      <3>9. \A part \in Parts : folder[step][part] = mem[part]
        <4> SUFFICES ASSUME NEW part \in Parts PROVE folder[step][part] = mem[part]
          OBVIOUS
        <4>1. PICK i \in 1 .. Len(Files) - 1 : Files[i] = part
          BY FilesInOrder
        <4> QED
          BY <1>1, <2>2, <4>1 DEF IInv, Saving
      <3>10. \A part \in Parts : mem[part] \notin Unreadable
        <4>1. Missing \notin History /\ Torn \notin History
          <5>1. Missing[1] \notin Nat \ {0} /\ Torn[1] \notin Nat \ {0} /\ Len(Missing) = 1 /\ Len(Torn) = 1
            BY DEF Missing, Torn
          <5>2. ASSUME NEW h \in History, Len(h) = 1 PROVE h[1] \in Nat \ {0}
            BY <5>2, ElementOfSeq DEF History
          <5> QED
            BY <5>1, <5>2
        <4> QED
          BY <1>10, <4>1 DEF Unreadable
      <3>11. TrackedIsWhole'
        <4> SUFFICES ASSUME Automatic
                     PROVE  /\ folder[step]["data"] \notin Unreadable
                            /\ \A part \in Parts : folder[step][part] = Expected(part, folder[step]["data"])
          BY <3>1 DEF TrackedIsWhole, Expected, Warm, Warmup, Automatic
        <4>1. Len(mem["data"]) = step /\ mem["data"] \in History
          BY <1>10, PartsDiffer DEF Length
        <4>2. SubSeq(mem["data"], 1, step) = mem["data"]
          BY <4>1, SubSeqFull DEF History
        <4>3. \A part \in Parts : mem[part] = Expected(part, mem["data"])
          BY <1>1, <1>6, <4>2 DEF IInv, MemAgrees
        <4> QED
          BY <3>9, <3>10, <4>3, PartsDiffer
      <3>12. TrackedIsReadable'
        BY <3>1, <3>9, <3>10 DEF TrackedIsReadable, Readable, Unreadable
      <3> QED
        BY <3>3, <3>4, <3>5, <3>6, <3>7, <3>8, <3>11, <3>12
    <2> QED
      BY <2>1, <2>2
  <1> QED
    BY <1>7, <1>8, <1>11, <1>13, <1>16 DEF IInv

\* Every step keeps the invariant.
LEMMA Inductive == IInv /\ [Next]_vars => IInv'
  <1> SUFFICES ASSUME IInv, [Next]_vars PROVE IInv'
    OBVIOUS
  <1>1. CASE StartFresh /\ trainer' = trainer
    BY <1>1, StartFreshStep
  <1>2. ASSUME NEW s \in Steps, Resume(s), trainer' = trainer PROVE IInv'
    BY <1>2, ResumeStep
  <1>3. CASE NextEpoch /\ trainer' = trainer
    BY <1>3, NextEpochStep
  <1>4. CASE Draw /\ trainer' = trainer
    BY <1>4, DrawStep
  <1>5. CASE Prepare /\ trainer' = trainer
    BY <1>5, PrepareStep
  <1>6. CASE Train /\ trainer' = trainer
    BY <1>6, TrainStep
  <1>7. CASE Open /\ trainer' = trainer
    BY <1>7, OpenStep
  <1>8. CASE Close /\ trainer' = trainer
    BY <1>8, CloseStep
  <1>9. CASE Crash /\ trainer' = trainer
    BY <1>9, CrashStep
  <1>10. CASE UNCHANGED vars
    <2>1. TypeOK' /\ WithinSteps' /\ TracesApart' /\ HistoriesRecorded'
      BY <1>10 DEF vars, IInv, TypeOK, WithinSteps, TracesApart, HistoriesRecorded
    <2>2. FoldersAgree'
      BY <1>10 DEF vars, IInv, FoldersAgree, Length, FirstWarm, Warmup
    <2>3. \A part : Seen(part)' = Seen(part)
      BY <1>10 DEF vars, Seen
    <2>4. MemAgrees' /\ Supplied'
      BY <1>10, <2>3 DEF vars, IInv, MemAgrees, Supplied, Length, Expected, Warm, FirstWarm, Warmup, Automatic
    <2>5. Saving' /\ Tracking'
      BY <1>10 DEF vars, IInv, Saving, SaveDue, IsLast, Tracking, LastFile, Automatic
    <2>6. KeptInOrder'
      <3>1. \A wg : ToBeSaved(wg)' <=> ToBeSaved(wg)
        BY <1>10 DEF vars, ToBeSaved
      <3> QED
        BY <1>10, <3>1 DEF vars, IInv, KeptInOrder, Automatic
    <2>7. TrackedIsWhole' /\ TrackedIsReadable'
      BY <1>10 DEF vars, IInv, TrackedIsWhole, TrackedIsReadable, Readable, Expected, Warm, Warmup, Automatic
    <2> QED
      BY <2>1, <2>2, <2>4, <2>5, <2>6, <2>7 DEF IInv
  <1> QED
    BY <1>1, <1>2, <1>3, <1>4, <1>5, <1>6, <1>7, <1>8, <1>9, <1>10 DEF Next

(* Memory, files, rotation lists, tracker and epochs agree in every        *)
(* reachable state, between and inside the writes of a save included.      *)
THEOREM Invariance == Spec => []IInv
  BY Initially, Inductive, PTL DEF Spec

(* Every step writes files, directories and histories that exist: no save  *)
(* leaves the range of steps, no list of kept directories or open file     *)
(* runs out of its bounds, whatever is resumed after whatever crash.       *)
THEOREM TypeCorrect == Spec => []TypeOK
  <1>1. IInv => TypeOK
    BY DEF IInv
  <1> QED
    BY <1>1, Invariance, PTL

(* Actors, scorer, controller and update counter resume at one step and,   *)
(* with automatic resume, in one state that a run has really been in,      *)
(* whose events are on disk once each.                                     *)
THEOREM LineagesAgree == Spec => []LineageAgrees
  <1>1. ASSUME IInv PROVE LineageAgrees
    <2>1. TypeOK /\ MemAgrees /\ trainer \in Configs
      BY <1>1 DEF IInv, TypeOK
    <2>2. StepsAgree /\ (Automatic => Lineage)
      <3> SUFFICES ASSUME phase = "draw" PROVE StepsAgree /\ (Automatic => Lineage)
        BY DEF StepsAgree, Lineage
      <3> DEFINE h == mem["data"]
      <3>1. \A part \in Parts : /\ Len(mem[part]) = Length(part, step - 1)
                                /\ Automatic => mem[part] = Expected(part, SubSeq(h, 1, step - 1))
        BY <2>1 DEF MemAgrees, Seen
      <3>2. h \in History /\ Len(h) = step - 1 /\ Len(mem["controller"]) = step - 1
        BY <2>1, <3>1, PartsDiffer DEF TypeOK, Length
      <3>3. SubSeq(h, 1, step - 1) = h
        BY <3>2, SubSeqFull DEF History
      <3>4. \A part \in Learners :
              /\ part \in Parts /\ Len(mem[part]) = Len(Warm(h))
              /\ Automatic => mem[part] = Warm(h)
        BY <2>1, <3>1, <3>2, <3>3, WarmPart, PartsDiffer DEF Length, Expected
      <3>5. Automatic => mem["controller"] = h
        BY <3>1, <3>3, PartsDiffer DEF Expected
      <3> QED
        BY <3>2, <3>4, <3>5 DEF StepsAgree, Lineage, Learners
    <2>3. TraceIsKept
      <3> SUFFICES ASSUME NEW s \in 1 .. Len(mem["data"]), s % trainer.every_n_steps = 0
                   PROVE  Cardinality({i \in 1 .. Len(trace[s]) : trace[s][i] = mem["data"][s]}) = 1
        BY DEF TraceIsKept
      <3>1. s \in Steps /\ \E j \in 1 .. Len(trace[s]) : trace[s][j] = mem["data"][s]
        BY <1>1 DEF IInv, HistoriesRecorded, Recorded
      <3>2. PICK j \in 1 .. Len(trace[s]) : trace[s][j] = mem["data"][s]
        BY <3>1
      <3>3. \A i \in 1 .. Len(trace[s]) : trace[s][i] = trace[s][j] => i = j
        BY <1>1, <3>1 DEF IInv, TracesApart
      <3>4. {i \in 1 .. Len(trace[s]) : trace[s][i] = mem["data"][s]} = {j}
        BY <3>2, <3>3
      <3> QED
        BY <3>4, FS_Singleton
    <2> QED
      BY <2>2, <2>3 DEF LineageAgrees
  <1> QED
    BY <1>1, Invariance, PTL

(* The tracked folder loads at every instant of a save, rotation and       *)
(* crash, if more than one directory is kept.                              *)
THEOREM TrackedReadable == Spec => []TrackedIsReadable
  <1>1. IInv => TrackedIsReadable
    BY DEF IInv
  <1> QED
    BY <1>1, Invariance, PTL

(* An automatic restart begins less than save_freq steps behind the last   *)
(* step any run has trained, after any number of crashes.                  *)
THEOREM LossBounded == Spec => []BoundedLoss
  <1>1. ASSUME IInv, Automatic, phase = "draw" PROVE step > reached - trainer.save_freq
    <2>1. tracker # TornStep /\ tracker < step /\ reached <= tracker + trainer.save_freq
      BY <1>1 DEF IInv, Tracking, LastFile
    <2>2. tracker \in Nat /\ step \in Nat /\ reached \in Nat /\ trainer.save_freq \in Nat
      <3>1. trainer \in Configs
        BY <1>1 DEF IInv, TypeOK
      <3> QED
        BY <1>1, <2>1, <3>1, Config DEF IInv, TypeOK, Steps, NoStep
    <2> QED
      BY <2>1, <2>2
  <1>2. IInv => BoundedLoss
    BY <1>1 DEF BoundedLoss
  <1> QED
    BY <1>2, Invariance, PTL

(* The epoch loop of no run, resumed wherever, is exhausted before the     *)
(* last step.                                                              *)
THEOREM EndsLate == Spec => []EndsAtLastStep
  <1>1. ASSUME IInv, phase = "ended" PROVE step > TotalSteps
    <2>1. left = 0 /\ epochs = Epochs /\ TotalSteps <= step - 1 + left + EpochLen * (Epochs - epochs)
      BY <1>1 DEF IInv, Supplied, Seen
    <2>2. EpochLen * (Epochs - Epochs) = 0 /\ TotalSteps \in Nat /\ step \in Nat
      BY <1>1, Bounds DEF IInv, TypeOK
    <2>3. TotalSteps <= step - 1 + 0 + 0
      BY <2>1, <2>2
    <2> QED
      BY <2>2, <2>3
  <1>2. IInv => EndsAtLastStep
    BY <1>1 DEF EndsAtLastStep
  <1> QED
    BY <1>2, Invariance, PTL

=============================================================================
