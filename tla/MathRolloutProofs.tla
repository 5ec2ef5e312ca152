--------------------------- MODULE MathRolloutProofs ---------------------------
(***************************************************************************)
(* Proofs about the math task, for every finite batch, any number of       *)
(* rounds, environment steps and tries, any grouping of the rows and any   *)
(* verdict texts, with both agents configured: first about MathOrchestra,  *)
(* then, on top of that, about MathRollout and DynamicSampling.            *)
(***************************************************************************)
EXTENDS DynamicSampling, FiniteSetTheorems, SequenceTheorems, TLAPS

BothAgents == SolverAgent \in Agents /\ VerifierAgent \in Agents

-----------------------------------------------------------------------------
(* The inductive invariant.  LegalChain and AnswerIsJudged only speak of a *)
(* run that has returned; while it is under way the buffer holds the whole *)
(* rounds so far, an unapproved row has taken part in every call, and an   *)
(* approved one in all calls up to the verdict on the answer it holds.     *)
Alternation ==
  \A p \in 1 .. Len(buffer) :
    buffer[p].agent_id = IF p % 2 = 1 THEN SolverAgent ELSE VerifierAgent

Rounds ==
  /\ pc = "idle" => active = {}
  /\ pc = "solver" => Len(buffer) = 2 * loop_i
  /\ pc = "verifier" => Len(buffer) = 2 * loop_i + 1 /\ loop_i # MaxLoop - 1
  /\ pc \in {"label", "returned"} =>
       \/ Len(buffer) = 2 * loop_i + 1 /\ loop_i = MaxLoop - 1
       \/ Len(buffer) = 2 * loop_i + 2 /\ loop_i # MaxLoop - 1 /\ approved = Rows
  /\ pc \in {"solver", "verifier"} => active \ approved # {}
  /\ pc = "returned" => stop_reason = StopReasonOf

\* The last call of the dialogue the row has had so far.
LastCall(r) == IF text_actions[r] = Len(buffer) THEN Len(buffer) ELSE text_actions[r] + 1

\* Before its first call the row holds nothing; after it, its latest answer.
HoldsAnswer(r) ==
  IF Len(buffer) = 0
  THEN text_actions[r] = 0 /\ r \notin approved
  ELSE /\ text_actions[r] \in 1 .. Len(buffer)
       /\ text_actions[r] % 2 = 1
       /\ CallsOf(r) = 1 .. LastCall(r)

\* An approved row has had its verdict, any other is not behind the batch.
VerdictGiven(r) ==
  IF r \in approved
  THEN /\ text_actions[r] < Len(buffer)
       /\ buffer[text_actions[r] + 1].decision[r] # "reject"
  ELSE Len(buffer) <= text_actions[r] + 1

\* Every verdict but the approving one is a rejection.
RejectedBefore(r) ==
  \A p \in 1 .. Len(buffer) :
    /\ p % 2 = 0
    /\ p <= text_actions[r] + 1
    /\ p = text_actions[r] + 1 => r \notin approved
    => buffer[p].decision[r] = "reject"

RowInv(r) == HoldsAnswer(r) /\ VerdictGiven(r) /\ RejectedBefore(r)

IInv ==
  /\ TypeOK
  /\ Alternation
  /\ Rounds
  /\ \A r \in active : RowInv(r)

-----------------------------------------------------------------------------
\* Type correctness needs one more fact: the last round has no Verifier half.
TypeInv == TypeOK /\ (pc = "verifier" => loop_i # MaxLoop - 1)

LEMMA TypeInit == Init => TypeInv
  BY MaxLoopAssumption DEF Init, TypeInv, TypeOK

LEMMA EntryTypes ==
  ASSUME TypeOK
  PROVE  /\ SolverEntry \in Entries
         /\ \A response \in VerifierResponses : VerifierEntry(response) \in Entries
  <1>1. /\ loop_i \in 0 .. MaxLoop - 1 /\ approved \subseteq Rows
        /\ SolverMask \subseteq Rows /\ VerifierMask \subseteq Rows
    BY DEF TypeOK, SolverMask, VerifierMask
  <1>2. [r \in Rows |-> {}] \in [Rows -> Responses]
    BY DEF Responses, Tags
  <1>3. [r \in Rows |-> "not_applicable"] \in [Rows -> Decisions]
    BY DEF Decisions
  <1>4. ASSUME NEW response \in VerifierResponses
        PROVE  /\ response \in [Rows -> Responses]
               /\ UpdateApproved(approved, VerifierMask, response) \subseteq Rows
               /\ ParsedVerdict(VerifierMask, response) \in [Rows -> Decisions]
    BY <1>1 DEF VerifierResponses, UpdateApproved, ParsedVerdict, Decisions
  <1> QED
    BY <1>1, <1>2, <1>3, <1>4 DEF Entries, SolverEntry, VerifierEntry

LEMMA TypeStep == TypeInv /\ [Next]_orchVars => TypeInv'
  <1> SUFFICES ASSUME TypeInv, [Next]_orchVars PROVE TypeInv'
    OBVIOUS
  <1> USE DEF TypeInv
  <1>1. ASSUME NEW mask \in (SUBSET Rows) \ {{}}, Run(mask) PROVE TypeInv'
    BY <1>1, MaxLoopAssumption DEF Run, TypeOK
  <1>2. CASE SolverTurn
    <2>1. buffer' \in Seq(Entries)
      <3>1. buffer \in Seq(Entries) /\ SolverEntry \in Entries
        BY EntryTypes DEF TypeOK
      <3>2. buffer' = Append(buffer, SolverEntry) \/ buffer' = buffer
        BY <1>2 DEF SolverTurn
      <3> QED
        BY <3>1, <3>2
    <2>2. text_actions' \in [Rows -> Nat]
      BY <1>2 DEF SolverTurn, TypeOK
    <2> QED
      BY <1>2, <2>1, <2>2 DEF SolverTurn, TypeOK, LastRound
  <1>3. ASSUME NEW response \in VerifierResponses, VerifierTurn(response) PROVE TypeInv'
    <2>1. approved' \subseteq Rows
      BY <1>3 DEF VerifierTurn, TypeOK, UpdateApproved, VerifierMask
    <2>2. buffer' \in Seq(Entries)
      <3>1. buffer \in Seq(Entries) /\ VerifierEntry(response) \in Entries
        BY EntryTypes DEF TypeOK
      <3>2. buffer' = Append(buffer, VerifierEntry(response)) \/ buffer' = buffer
        BY <1>3 DEF VerifierTurn
      <3> QED
        BY <3>1, <3>2
    <2>3. loop_i' \in 0 .. MaxLoop - 1
      BY <1>3, MaxLoopAssumption DEF VerifierTurn, NextRound, TypeOK
    <2> QED
      BY <1>3, <2>1, <2>2, <2>3 DEF VerifierTurn, NextRound, TypeOK
  <1>4. CASE Label
    BY <1>4 DEF Label, TypeOK, StopReasonOf, StopReasons
  <1>5. CASE UNCHANGED orchVars
    BY <1>5 DEF orchVars, TypeOK
  <1> QED
    BY <1>1, <1>2, <1>3, <1>4, <1>5 DEF Next, Step

(* The variables of every reachable state have their types, whichever      *)
(* agents the orchestra is configured with; in particular the loop counter *)
(* of run() never leaves 0 .. max_loop_num - 1.                            *)
THEOREM TypeCorrect == Spec => []TypeOK
  <1>1. TypeInv => TypeOK
    BY DEF TypeInv
  <1> QED
    BY TypeInit, TypeStep, <1>1, PTL DEF Spec

-----------------------------------------------------------------------------
\* What an appended entry changes.
LEMMA AppendedEntry ==
  ASSUME NEW S, NEW s \in Seq(S), NEW e \in S
  PROVE  /\ Len(Append(s, e)) = Len(s) + 1
         /\ Append(s, e)[Len(s) + 1] = e
         /\ \A p \in 1 .. Len(s) : Append(s, e)[p] = s[p]
  OBVIOUS

LEMMA Parity ==
  /\ \A k \in Nat : (2 * k) % 2 = 0 /\ (2 * k + 1) % 2 = 1
  /\ \A k \in Nat : k % 2 \in {0, 1} /\ (k % 2 = 1 <=> (k + 1) % 2 = 0)
  OBVIOUS

LEMMA CallsStep ==
  ASSUME TypeOK, NEW e \in Entries, buffer' = Append(buffer, e), NEW r
  PROVE  CallsOf(r)' = CallsOf(r) \cup (IF r \in e.mask THEN {Len(buffer) + 1} ELSE {})
  <1>1. buffer \in Seq(Entries) /\ Len(buffer) \in Nat
    BY DEF TypeOK
  <1>2. /\ Len(buffer') = Len(buffer) + 1
        /\ buffer'[Len(buffer) + 1] = e
        /\ \A p \in 1 .. Len(buffer) : buffer'[p] = buffer[p]
    BY <1>1, AppendedEntry
  <1>3. 1 .. Len(buffer') = (1 .. Len(buffer)) \cup {Len(buffer) + 1}
    BY <1>1, <1>2
  <1> QED
    BY <1>2, <1>3, <1>1 DEF CallsOf

\* One appended entry keeps the agents alternating.
LEMMA AlternationStep ==
  ASSUME TypeOK, Alternation, NEW e \in Entries, buffer' = Append(buffer, e),
         e.agent_id = IF (Len(buffer) + 1) % 2 = 1 THEN SolverAgent ELSE VerifierAgent
  PROVE  Alternation'
  <1>1. buffer \in Seq(Entries) /\ Len(buffer) \in Nat
    BY DEF TypeOK
  <1>2. /\ Len(buffer') = Len(buffer) + 1
        /\ buffer'[Len(buffer) + 1] = e
        /\ \A p \in 1 .. Len(buffer) : buffer'[p] = buffer[p]
    BY <1>1, AppendedEntry
  <1> QED
    BY <1>1, <1>2 DEF Alternation

-----------------------------------------------------------------------------
\* A row that is not called keeps its own part of the invariant.
LEMMA QuietRow ==
  ASSUME TypeOK, NEW r, RowInv(r), r \in approved,
         NEW e \in Entries, buffer' = Append(buffer, e), r \notin e.mask,
         text_actions'[r] = text_actions[r], r \in approved',
         text_actions[r] \in Nat
  PROVE  RowInv(r)'
  <1> DEFINE a == text_actions[r]
             n == Len(buffer)
  <1>1. buffer \in Seq(Entries) /\ n \in Nat
    BY DEF TypeOK
  <1>2. /\ Len(buffer') = n + 1
        /\ \A p \in 1 .. n : buffer'[p] = buffer[p]
    BY <1>1, AppendedEntry
  <1>3. n > 0 /\ a \in 1 .. n /\ a % 2 = 1 /\ a < n /\ CallsOf(r) = 1 .. (a + 1)
    BY <1>1 DEF RowInv, HoldsAnswer, VerdictGiven, RejectedBefore, LastCall
  <1>4. CallsOf(r)' = 1 .. (a + 1)
    BY <1>3, CallsStep
  <1>5. buffer'[a + 1].decision[r] # "reject"
    BY <1>1, <1>2, <1>3 DEF RowInv, HoldsAnswer, VerdictGiven, RejectedBefore, LastCall
  <1>6. ASSUME NEW p \in 1 .. Len(buffer'),
               p % 2 = 0, p <= a + 1, p = a + 1 => r \notin approved'
        PROVE  buffer'[p].decision[r] = "reject"
    <2>1. p \in 1 .. n /\ p # a + 1
      BY <1>1, <1>2, <1>3, <1>6
    <2> QED
      BY <2>1, <1>2, <1>6 DEF RowInv, HoldsAnswer, VerdictGiven, RejectedBefore, LastCall
  <1>7. HoldsAnswer(r)'
    BY <1>1, <1>2, <1>3, <1>4 DEF HoldsAnswer, LastCall
  <1>8. VerdictGiven(r)'
    BY <1>1, <1>2, <1>3, <1>5 DEF VerdictGiven
  <1>9. RejectedBefore(r)'
    BY <1>6 DEF RejectedBefore
  <1> QED
    BY <1>7, <1>8, <1>9 DEF RowInv

LEMMA SolverKeeps ==
  ASSUME BothAgents, IInv, SolverTurn
  PROVE  Alternation' /\ Rounds' /\ \A r \in active : RowInv(r)'
  <1> DEFINE n == Len(buffer)
  <1>1. /\ TypeOK /\ buffer \in Seq(Entries) /\ n \in Nat /\ loop_i \in Nat
        /\ SolverEntry \in Entries
    BY EntryTypes DEF IInv, TypeOK
  <1>2. n = 2 * loop_i /\ SolverCalled
    BY DEF IInv, Rounds, SolverTurn, SolverCalled, SolverMask, BothAgents
  <1>3. /\ buffer' = Append(buffer, SolverEntry)
        /\ approved' = approved /\ active' = active /\ loop_i' = loop_i
        /\ text_actions' = [r \in Rows |-> IF r \in SolverMask THEN n + 1 ELSE text_actions[r]]
    BY <1>2 DEF SolverTurn
  <1>4. /\ Len(buffer') = n + 1
        /\ \A p \in 1 .. n : buffer'[p] = buffer[p]
    BY <1>1, <1>3, AppendedEntry
  <1>5. n % 2 = 0 /\ (n + 1) % 2 = 1
    BY <1>1, <1>2, Parity
  <1>6. Alternation'
    BY <1>1, <1>3, <1>5, AlternationStep DEF IInv, SolverEntry
  <1>7. Rounds'
    BY <1>1, <1>2, <1>3, <1>4, MaxLoopAssumption DEF IInv, Rounds, SolverTurn, LastRound
  <1>8. ASSUME NEW r \in active PROVE RowInv(r)'
    <2> DEFINE a == text_actions[r]
    <2>1. r \in Rows /\ a \in Nat /\ RowInv(r)
      BY DEF IInv, TypeOK
    <2>2. CASE r \in approved
      BY <2>1, <2>2, <1>1, <1>3, QuietRow DEF SolverEntry, SolverMask
    <2>3. CASE r \notin approved
      <3>1. r \in SolverMask /\ text_actions'[r] = n + 1
        BY <2>1, <2>3, <1>3 DEF SolverMask
      <3>2. n > 0 => a + 1 = n
        <4>1. SUFFICES ASSUME n > 0 PROVE a + 1 = n
          OBVIOUS
        <4>2. a \in 1 .. n /\ a % 2 = 1 /\ n <= a + 1
          BY <4>1, <2>1, <2>3 DEF RowInv, HoldsAnswer, VerdictGiven, RejectedBefore, LastCall
        <4> QED
          BY <4>2, <1>5, <1>1, <2>1
      <3>3. CallsOf(r) = 1 .. n
        <4>1. CASE n = 0
          BY <4>1 DEF CallsOf
        <4>2. CASE n > 0
          BY <4>2, <3>2, <2>1, <1>1 DEF RowInv, HoldsAnswer, VerdictGiven, RejectedBefore, LastCall
        <4> QED
          BY <4>1, <4>2, <1>1
      <3>4. CallsOf(r)' = 1 .. (n + 1)
        <4>1. CallsOf(r)' = CallsOf(r) \cup {n + 1}
          BY <1>1, <1>3, <3>1, CallsStep DEF SolverEntry
        <4> QED
          BY <4>1, <3>3, <1>1
      <3>5. ASSUME NEW p \in 1 .. (n + 1), p % 2 = 0
            PROVE  buffer'[p].decision[r] = "reject"
        <4>1. p \in 1 .. n /\ n > 0
          BY <3>5, <1>5, <1>1
        <4> QED
          BY <4>1, <3>2, <3>5, <2>1, <2>3, <1>1, <1>4 DEF RowInv, HoldsAnswer, VerdictGiven, RejectedBefore, LastCall
      <3>6. Len(buffer') = n + 1 /\ n + 1 # 0 /\ n + 1 \in 1 .. n + 1 /\ r \notin approved'
        BY <1>1, <1>3, <1>4, <2>3
      <3>7. HoldsAnswer(r)'
        BY <1>5, <3>1, <3>4, <3>6 DEF HoldsAnswer, LastCall
      <3>8. VerdictGiven(r)'
        BY <1>1, <3>1, <3>6 DEF VerdictGiven
      <3>9. RejectedBefore(r)'
        BY <3>5, <3>6 DEF RejectedBefore
      <3> QED
        BY <3>7, <3>8, <3>9 DEF RowInv
    <2> QED
      BY <2>2, <2>3
  <1> QED
    BY <1>6, <1>7, <1>8

LEMMA VerifierKeeps ==
  ASSUME BothAgents, IInv, NEW response \in VerifierResponses, VerifierTurn(response)
  PROVE  Alternation' /\ Rounds' /\ \A r \in active : RowInv(r)'
  <1> DEFINE n == Len(buffer)
             e == VerifierEntry(response)
  <1>1. /\ TypeOK /\ buffer \in Seq(Entries) /\ n \in Nat /\ loop_i \in Nat
        /\ e \in Entries
    BY EntryTypes DEF IInv, TypeOK
  <1>2. n = 2 * loop_i + 1 /\ loop_i # MaxLoop - 1 /\ VerifierCalled
    BY DEF IInv, Rounds, VerifierTurn, VerifierCalled, VerifierMask, BothAgents
  <1>3. /\ buffer' = Append(buffer, e)
        /\ approved' = UpdateApproved(approved, VerifierMask, response)
        /\ active' = active /\ text_actions' = text_actions
    BY <1>2 DEF VerifierTurn
  <1>4. /\ Len(buffer') = n + 1
        /\ buffer'[n + 1] = e
        /\ \A p \in 1 .. n : buffer'[p] = buffer[p]
    BY <1>1, <1>3, AppendedEntry
  <1>5. n % 2 = 1 /\ (n + 1) % 2 = 0
    BY <1>1, <1>2, Parity
  <1>6. Alternation'
    BY <1>1, <1>3, <1>5, AlternationStep DEF IInv, VerifierEntry
  <1>7. Rounds'
    <2>1. approved' # Rows => active \ approved' # {}
      BY <1>1, <1>3 DEF UpdateApproved, VerifierMask, TypeOK
    <2> QED
      BY <2>1, <1>1, <1>2, <1>3, <1>4 DEF Rounds, VerifierTurn, NextRound
  <1>8. ASSUME NEW r \in active PROVE RowInv(r)'
    <2> DEFINE a == text_actions[r]
    <2>1. r \in Rows /\ a \in Nat /\ RowInv(r)
      BY DEF IInv, TypeOK
    <2>2. CASE r \in approved
      <3>1. r \in approved' /\ r \notin e.mask /\ text_actions'[r] = text_actions[r]
        BY <2>2, <1>3 DEF UpdateApproved, VerifierEntry, VerifierMask
      <3> QED
        BY <2>1, <2>2, <3>1, <1>1, <1>3, QuietRow
    <2>3. CASE r \notin approved
      <3>1. r \in VerifierMask /\ r \in e.mask
        BY <2>3 DEF VerifierMask, VerifierEntry
      <3>2. n > 0 /\ a = n
        <4>1. n > 0
          BY <1>1, <1>2
        <4>2. a \in 1 .. n /\ a % 2 = 1 /\ n <= a + 1
          BY <4>1, <2>1, <2>3 DEF RowInv, HoldsAnswer, VerdictGiven, RejectedBefore, LastCall
        <4> QED
          BY <4>1, <4>2, <1>5, <1>1, <2>1
      <3>3. CallsOf(r)' = 1 .. (n + 1)
        <4>1. CallsOf(r) = 1 .. n
          BY <3>2, <2>1 DEF RowInv, HoldsAnswer, VerdictGiven, RejectedBefore, LastCall
        <4>2. CallsOf(r)' = CallsOf(r) \cup {n + 1}
          BY <1>1, <1>3, <3>1, CallsStep
        <4> QED
          BY <4>1, <4>2, <1>1
      <3>4. buffer'[n + 1].decision[r] = "reject" <=> r \notin approved'
        BY <1>3, <1>4, <2>1, <2>3, <3>1 DEF VerifierEntry, ParsedVerdict, UpdateApproved
      <3>5. ASSUME NEW p \in 1 .. n, p % 2 = 0
            PROVE  buffer'[p].decision[r] = "reject"
        BY <3>5, <3>2, <2>1, <2>3, <1>1, <1>4, <1>5 DEF RowInv, HoldsAnswer, VerdictGiven, RejectedBefore, LastCall
      <3> QED
        BY <3>2, <3>3, <3>4, <3>5, <1>1, <1>3, <1>4, <1>5 DEF RowInv, HoldsAnswer, VerdictGiven, RejectedBefore, LastCall
    <2> QED
      BY <2>2, <2>3
  <1> QED
    BY <1>6, <1>7, <1>8

-----------------------------------------------------------------------------
LEMMA InvInit == Init => IInv
  BY TypeInit DEF Init, IInv, TypeInv, Alternation, Rounds

LEMMA InvStep ==
  ASSUME BothAgents, IInv, [Next]_orchVars
  PROVE  IInv'
  <1>1. TypeOK'
    <2>1. TypeInv
      BY DEF IInv, TypeInv, Rounds
    <2> QED
      BY <2>1, TypeStep DEF TypeInv
  <1>2. ASSUME NEW mask \in (SUBSET Rows) \ {{}}, Run(mask)
        PROVE  Alternation' /\ Rounds' /\ \A r \in active' : RowInv(r)'
    <2>1. /\ buffer' = <<>> /\ Len(buffer') = 0 /\ approved' = {} /\ loop_i' = 0
          /\ pc' = "solver" /\ active' = mask /\ text_actions' = [r \in Rows |-> 0]
      BY <1>2 DEF Run
    <2>2. Alternation' /\ Rounds'
      <3>1. Alternation'
        BY <2>1 DEF Alternation
      <3>2. active' \ approved' # {}
        BY <2>1, <1>2
      <3>3. Len(buffer') = 2 * loop_i'
        BY <2>1
      <3> QED
        BY <2>1, <3>1, <3>2, <3>3 DEF Rounds
    <2>3. ASSUME NEW r \in active' PROVE RowInv(r)'
      <3>1. r \in Rows /\ text_actions'[r] = 0
        BY <2>1, <2>3
      <3> QED
        BY <2>1, <3>1 DEF RowInv, HoldsAnswer, VerdictGiven, RejectedBefore
    <2> QED
      BY <2>2, <2>3
  <1>3. CASE SolverTurn
    <2>1. active' = active
      BY <1>3 DEF SolverTurn
    <2> QED
      BY <1>1, <1>3, <2>1, SolverKeeps DEF IInv
  <1>4. ASSUME NEW response \in VerifierResponses, VerifierTurn(response) PROVE IInv'
    <2>1. active' = active
      BY <1>4 DEF VerifierTurn
    <2> QED
      BY <1>1, <1>4, <2>1, VerifierKeeps DEF IInv
  <1>5. CASE Label
    <2>1. /\ active' = active /\ loop_i' = loop_i /\ approved' = approved
          /\ text_actions' = text_actions /\ buffer' = buffer
          /\ pc = "label" /\ pc' = "returned" /\ stop_reason' = StopReasonOf
      BY <1>5 DEF Label
    <2>2. Rounds'
      BY <2>1 DEF IInv, Rounds, StopReasonOf
    <2>3. Alternation' /\ \A r \in active' : RowInv(r)'
      BY <2>1 DEF IInv, Alternation, RowInv, HoldsAnswer, LastCall, VerdictGiven,
                  RejectedBefore, CallsOf
    <2> QED
      BY <1>1, <2>2, <2>3 DEF IInv
  <1>6. CASE UNCHANGED orchVars
    <2>1. /\ active' = active /\ loop_i' = loop_i /\ approved' = approved /\ pc' = pc
          /\ text_actions' = text_actions /\ buffer' = buffer /\ stop_reason' = stop_reason
      BY <1>6 DEF orchVars
    <2>2. Rounds'
      BY <2>1 DEF IInv, Rounds, StopReasonOf
    <2>3. Alternation' /\ \A r \in active' : RowInv(r)'
      BY <2>1 DEF IInv, Alternation, RowInv, HoldsAnswer, LastCall, VerdictGiven,
                  RejectedBefore, CallsOf
    <2> QED
      BY <1>1, <2>2, <2>3 DEF IInv
  <1> QED
    BY <1>1, <1>2, <1>3, <1>4, <1>5, <1>6 DEF Next, Step, IInv

-----------------------------------------------------------------------------
\* What the invariant says of an active row once the run has returned.
LEMMA Returned ==
  ASSUME IInv, pc = "returned", NEW r \in active
  PROVE  /\ text_actions[r] \in 1 .. Len(buffer) /\ text_actions[r] % 2 = 1
         /\ CallsOf(r) = 1 .. LastCall(r)
         /\ r \in Rows /\ stop_reason = StopReasonOf
         /\ IF r \in approved
            THEN /\ text_actions[r] < Len(buffer)
                 /\ buffer[text_actions[r] + 1].decision[r] # "reject"
            ELSE text_actions[r] = Len(buffer) /\ Len(buffer) = 2 * MaxLoop - 1
         /\ Len(buffer) \in 1 .. 2 * MaxLoop - 1
  <1> DEFINE n == Len(buffer)
             a == text_actions[r]
  <1>1. /\ r \in Rows /\ loop_i \in 0 .. MaxLoop - 1 /\ n \in Nat /\ MaxLoop \in Nat
        /\ a \in Nat
    BY MaxLoopAssumption DEF IInv, TypeOK
  <1>2. \/ n = 2 * loop_i + 1 /\ loop_i = MaxLoop - 1
        \/ n = 2 * loop_i + 2 /\ loop_i # MaxLoop - 1 /\ approved = Rows
    BY DEF IInv, Rounds
  <1>3. n \in 1 .. 2 * MaxLoop - 1
    BY <1>1, <1>2
  <1>4. HoldsAnswer(r) /\ VerdictGiven(r)
    BY DEF IInv, RowInv
  <1>5. a \in 1 .. n /\ a % 2 = 1 /\ CallsOf(r) = 1 .. LastCall(r)
    BY <1>1, <1>3, <1>4 DEF HoldsAnswer
  <1>6. r \notin approved => a = n /\ n = 2 * MaxLoop - 1
    <2>1. SUFFICES ASSUME r \notin approved PROVE a = n /\ n = 2 * MaxLoop - 1
      OBVIOUS
    <2>2. n = 2 * loop_i + 1 /\ loop_i = MaxLoop - 1
      BY <1>1, <1>2, <2>1
    <2>3. n <= a + 1
      BY <1>4, <2>1 DEF VerdictGiven
    <2> QED
      BY <1>1, <1>5, <2>2, <2>3, Parity
  <1>7. r \in approved => a < n /\ buffer[a + 1].decision[r] # "reject"
    BY <1>4 DEF VerdictGiven
  <1>8. stop_reason = StopReasonOf
    BY DEF IInv, Rounds
  <1> QED
    BY <1>1, <1>3, <1>5, <1>6, <1>7, <1>8

LEMMA AlternationOfCalls ==
  ASSUME IInv, NEW p \in 1 .. Len(buffer)
  PROVE  SolverCall(p) <=> p % 2 = 1
  BY DEF IInv, Alternation, SolverCall, SolverAgent, VerifierAgent

LEMMA InvLegalChain == IInv => LegalChain
  <1> SUFFICES ASSUME IInv, pc = "returned", NEW r \in active
               PROVE  \E n \in 1 .. 2 * MaxLoop - 1 :
                        /\ CallsOf(r) = 1 .. n
                        /\ \A p \in 1 .. n : SolverCall(p) <=> p % 2 = 1
                        /\ n % 2 = 0 \/ n = 2 * MaxLoop - 1
    BY DEF LegalChain
  <1> DEFINE a == text_actions[r]
             n == LastCall(r)
  <1>1. MaxLoop \in Nat /\ Len(buffer) \in Nat /\ a \in Nat
    BY Returned, MaxLoopAssumption DEF IInv, TypeOK
  <1>2. n \in 1 .. Len(buffer) /\ Len(buffer) <= 2 * MaxLoop - 1
    BY <1>1, Returned DEF LastCall
  <1>3. n % 2 = 0 \/ n = 2 * MaxLoop - 1
    <2>1. CASE r \in approved
      <3>1. n = a + 1 /\ a % 2 = 1
        BY <1>1, <2>1, Returned DEF LastCall
      <3> QED
        BY <1>1, <3>1, Parity
    <2>2. CASE r \notin approved
      BY <2>2, Returned DEF LastCall
    <2> QED
      BY <2>1, <2>2
  <1>4. \A p \in 1 .. n : SolverCall(p) <=> p % 2 = 1
    BY <1>1, <1>2, AlternationOfCalls
  <1>5. CallsOf(r) = 1 .. n
    BY Returned
  <1> HIDE DEF n
  <1> QED
    BY <1>1, <1>2, <1>3, <1>4, <1>5

LEMMA InvAnswerIsJudged == IInv => AnswerIsJudged
  <1> SUFFICES ASSUME IInv, pc = "returned", NEW r \in active
               PROVE  LET a == text_actions[r] IN
                      /\ a \in CallsOf(r) /\ SolverCall(a)
                      /\ \A p \in CallsOf(r) : SolverCall(p) => p <= a
                      /\ IF stop_reason[r] = "verifier_approved"
                         THEN /\ a + 1 \in CallsOf(r) /\ ~ SolverCall(a + 1)
                              /\ buffer[a + 1].decision[r] # "reject"
                         ELSE \A p \in CallsOf(r) :
                                ~ SolverCall(p) => buffer[p].decision[r] = "reject"
    BY DEF AnswerIsJudged
  <1> DEFINE a == text_actions[r]
             n == Len(buffer)
  <1>1. n \in Nat /\ a \in 1 .. n /\ a % 2 = 1 /\ (a + 1) % 2 = 0
    <2>1. n \in Nat /\ a \in 1 .. n /\ a % 2 = 1
      BY Returned DEF IInv, TypeOK
    <2> QED
      BY <2>1, Parity
  <1>2. CallsOf(r) \subseteq 1 .. n /\ CallsOf(r) = 1 .. LastCall(r)
    BY Returned DEF CallsOf
  <1>3. a \in CallsOf(r) /\ SolverCall(a)
    BY <1>1, <1>2, AlternationOfCalls DEF LastCall
  <1>4. \A p \in CallsOf(r) : SolverCall(p) => p <= a
    BY <1>1, <1>2, AlternationOfCalls DEF LastCall
  <1>5. stop_reason[r] = "verifier_approved" <=> r \in approved
    BY Returned DEF StopReasonOf
  <1>6. CASE r \in approved
    <2>1. a < n /\ buffer[a + 1].decision[r] # "reject"
      BY <1>6, Returned
    <2>2. a + 1 \in CallsOf(r) /\ ~ SolverCall(a + 1)
      BY <1>1, <1>2, <2>1, AlternationOfCalls DEF LastCall
    <2> QED
      BY <1>3, <1>4, <1>5, <1>6, <2>1, <2>2
  <1>7. CASE r \notin approved
    <2>1. a = n
      BY <1>7, Returned
    <2>2. ASSUME NEW p \in CallsOf(r), ~ SolverCall(p)
          PROVE  buffer[p].decision[r] = "reject"
      <3>1. p \in 1 .. n /\ p % 2 = 0
        BY <1>1, <1>2, <2>2, AlternationOfCalls, Parity
      <3> QED
        BY <1>1, <1>7, <2>1, <3>1 DEF IInv, RowInv, RejectedBefore
    <2> QED
      BY <1>3, <1>4, <1>5, <1>7, <2>2
  <1> QED
    BY <1>6, <1>7

-----------------------------------------------------------------------------
(* Every run that returns leaves each active row with a complete dialogue: *)
(* whole rounds up to the accepting Verifier, or all rounds with a bare    *)
(* Solver at the end, for any batch and any number of rounds.              *)
THEOREM ChainsAreLegal == ASSUME BothAgents PROVE Spec => []LegalChain
  <1>1. IInv /\ [Next]_orchVars => IInv'
    BY InvStep
  <1> QED
    BY InvInit, <1>1, InvLegalChain, PTL DEF Spec

(* The action handed back for a row is its latest answer; the recorded     *)
(* stop reason tells whether the verdict on that answer let it pass.       *)
THEOREM AnswersAreJudged == ASSUME BothAgents PROVE Spec => []AnswerIsJudged
  <1>1. IInv /\ [Next]_orchVars => IInv'
    BY InvStep
  <1> QED
    BY InvInit, <1>1, InvAnswerIsJudged, PTL DEF Spec

\* What an entry of the buffer may not do to the rows already approved.
LEMMA EntrySparesApproved ==
  ASSUME TypeOK, NEW r \in approved, NEW e \in Entries, r \notin e.mask,
         buffer' = Append(buffer, e),
         NEW p \in (Len(buffer) + 1) .. Len(buffer')
  PROVE  r \notin (buffer'[p]).mask
  <1>1. buffer \in Seq(Entries) /\ Len(buffer) \in Nat
    BY DEF TypeOK
  <1>2. Len(buffer') = Len(buffer) + 1 /\ buffer'[Len(buffer) + 1] = e
    BY <1>1, AppendedEntry
  <1>3. p = Len(buffer) + 1
    BY <1>1, <1>2
  <1> QED
    BY <1>2, <1>3

LEMMA ApprovalStep ==
  ASSUME TypeInv, [Next]_orchVars
  PROVE  [ApprovalKept]_orchVars
  <1> SUFFICES ASSUME pc \in {"solver", "verifier", "label"}, Step
               PROVE  /\ approved \subseteq approved'
                      /\ \A r \in active \cap approved :
                           /\ text_actions'[r] = text_actions[r]
                           /\ \A p \in (Len(buffer) + 1) .. Len(buffer') :
                                r \notin (buffer'[p]).mask
    BY DEF ApprovalKept, Next, Run
  <1>1. /\ TypeOK /\ text_actions \in [Rows -> Nat] /\ Len(buffer) \in Nat
        /\ active \subseteq Rows
    BY DEF TypeInv, TypeOK
  <1>2. CASE SolverTurn
    <2>1. approved' = approved
      BY <1>2 DEF SolverTurn
    <2>2. \A r \in active \cap approved : text_actions'[r] = text_actions[r] /\ r \notin SolverMask
      BY <1>1, <1>2 DEF SolverTurn, SolverMask
    <2>3. CASE buffer' = Append(buffer, SolverEntry)
      BY <1>1, <2>1, <2>2, <2>3, EntryTypes, EntrySparesApproved DEF SolverEntry
    <2>4. CASE buffer' = buffer
      BY <1>1, <2>1, <2>2, <2>4
    <2> QED
      BY <1>2, <2>3, <2>4 DEF SolverTurn
  <1>3. ASSUME NEW response \in VerifierResponses, VerifierTurn(response)
        PROVE  /\ approved \subseteq approved'
               /\ \A r \in active \cap approved :
                    /\ text_actions'[r] = text_actions[r]
                    /\ \A p \in (Len(buffer) + 1) .. Len(buffer') :
                         r \notin (buffer'[p]).mask
    <2>1. approved \subseteq approved' /\ text_actions' = text_actions
      BY <1>3 DEF VerifierTurn, UpdateApproved
    <2>2. \A r \in active \cap approved : r \notin VerifierMask
      BY DEF VerifierMask
    <2>3. CASE buffer' = Append(buffer, VerifierEntry(response))
      BY <1>1, <2>1, <2>2, <2>3, EntryTypes, EntrySparesApproved DEF VerifierEntry
    <2>4. CASE buffer' = buffer
      BY <1>1, <2>1, <2>4
    <2> QED
      BY <1>3, <2>3, <2>4 DEF VerifierTurn
  <1>4. CASE Label
    BY <1>1, <1>4 DEF Label
  <1> QED
    BY <1>2, <1>3, <1>4 DEF Step

(* Inside a run approval is final, whichever agents are configured: an     *)
(* approved row stays approved, is never called for again, and keeps the   *)
(* action it holds.                                                        *)
THEOREM ApprovalIsFinal == Spec => ApprovedRowsAreFinal
  <1>1. TypeInv /\ [Next]_orchVars => [ApprovalKept]_orchVars
    BY ApprovalStep
  <1> QED
    BY TypeInit, TypeStep, <1>1, PTL DEF Spec, ApprovedRowsAreFinal

-----------------------------------------------------------------------------
(* The batched run seen from one row.                                      *)
Dialogue(r) == INSTANCE MathChain WITH
  phase  <- PhaseOf(r),
  turns  <- Cardinality(CallsOf(r)),
  answer <- text_actions[r]

\* A row that is not yet approved has taken part in every call.
LEMMA Pending ==
  ASSUME IInv, NEW r \in active \ approved
  PROVE  CallsOf(r) = 1 .. Len(buffer) /\ Cardinality(CallsOf(r)) = Len(buffer)
  <1> DEFINE n == Len(buffer)
             a == text_actions[r]
  <1>1. n \in Nat /\ a \in Nat
    BY DEF IInv, TypeOK
  <1>2. CASE n = 0
    BY <1>2, FS_EmptySet DEF CallsOf
  <1>3. CASE n > 0
    <2>1. a \in 1 .. n /\ a % 2 = 1 /\ n <= a + 1 /\ CallsOf(r) = 1 .. LastCall(r)
      BY <1>1, <1>3 DEF IInv, RowInv, HoldsAnswer, VerdictGiven
    <2>2. a = n \/ a + 1 = n
      BY <1>1, <2>1
    <2>3. LastCall(r) = n
      BY <2>2 DEF LastCall
    <2> QED
      BY <1>1, <1>3, <2>1, <2>3, FS_Interval
  <1> QED
    BY <1>1, <1>2, <1>3

\* An entry that calls the row adds one turn to its dialogue, any other none.
LEMMA TurnTaken ==
  ASSUME IInv, NEW e \in Entries, buffer' = Append(buffer, e), NEW r
  PROVE  /\ r \notin e.mask => CallsOf(r)' = CallsOf(r)
         /\ r \in e.mask /\ r \in active \ approved => Cardinality(CallsOf(r)') = Len(buffer) + 1
  <1>1. TypeOK /\ Len(buffer) \in Nat
    BY DEF IInv, TypeOK
  <1>2. CallsOf(r)' = CallsOf(r) \cup (IF r \in e.mask THEN {Len(buffer) + 1} ELSE {})
    BY <1>1, CallsStep
  <1>3. ASSUME r \in e.mask, r \in active \ approved
        PROVE  Cardinality(CallsOf(r)') = Len(buffer) + 1
    <2>1. CallsOf(r)' = 1 .. (Len(buffer) + 1)
      BY <1>1, <1>2, <1>3, Pending
    <2> QED
      BY <1>1, <2>1, FS_Interval
  <1> QED
    BY <1>2, <1>3

\* A new run begins every dialogue, or leaves the row out.
LEMMA DialogueBegins ==
  ASSUME IInv, NEW r \in Rows, NEW mask \in (SUBSET Rows) \ {{}}, Run(mask)
  PROVE  Dialogue(r)!Begin
  <1>1. MaxLoop \in Nat \ {0}
    BY MaxLoopAssumption
  <1>2. PhaseOf(r) # "running"
    <2>1. CASE pc = "idle"
      BY <2>1 DEF IInv, Rounds, PhaseOf
    <2>2. CASE pc = "returned" /\ r \in active \ approved
      <3>1. Len(buffer) = 2 * MaxLoop - 1
        BY <2>2, Returned
      <3> QED
        BY <2>2, <3>1, Pending DEF PhaseOf
    <2>3. CASE r \notin active \/ r \in approved
      BY <2>3 DEF PhaseOf
    <2> QED
      BY <2>1, <2>2, <2>3 DEF Run
  <1>3. Cardinality(CallsOf(r)') = 0 /\ approved' = {} /\ text_actions'[r] = 0
    <2>1. buffer' = <<>> /\ Len(buffer') = 0
      BY DEF Run
    <2>2. CallsOf(r)' = {}
      BY <2>1 DEF CallsOf
    <2> QED
      BY <2>2, FS_EmptySet DEF Run
  <1>4. PhaseOf(r)' \in {"running", "waiting"}
    BY <1>1, <1>3 DEF PhaseOf
  <1> QED
    BY <1>2, <1>3, <1>4 DEF Dialogue!Begin

\* The Solver's call is the turn of the rows in its mask.
LEMMA DialogueSolves ==
  ASSUME BothAgents, IInv, NEW r \in Rows, SolverTurn
  PROVE  Dialogue(r)!Solve \/ UNCHANGED Dialogue(r)!chainVars
  <1> DEFINE n == Len(buffer)
  <1>1. n \in Nat /\ loop_i \in Nat /\ MaxLoop \in Nat \ {0} /\ SolverEntry \in Entries
    BY MaxLoopAssumption, EntryTypes DEF IInv, TypeOK
  <1>2. n = 2 * loop_i /\ SolverCalled
    BY DEF IInv, Rounds, SolverTurn, SolverCalled, SolverMask, BothAgents
  <1>3. /\ buffer' = Append(buffer, SolverEntry) /\ SolverEntry.mask = SolverMask
        /\ approved' = approved /\ active' = active
        /\ text_actions'[r] = IF r \in SolverMask THEN n + 1 ELSE text_actions[r]
    BY <1>2 DEF SolverTurn, SolverEntry
  <1>4. CASE r \notin SolverMask
    <2>1. CallsOf(r)' = CallsOf(r)
      BY <1>1, <1>3, <1>4, TurnTaken
    <2>2. PhaseOf(r)' = PhaseOf(r)
      BY <1>3, <2>1 DEF PhaseOf
    <2> QED
      BY <1>3, <1>4, <2>1, <2>2 DEF Dialogue!chainVars
  <1>5. CASE r \in SolverMask
    <2>1. r \in active \ approved
      BY <1>5 DEF SolverMask
    <2>2. Cardinality(CallsOf(r)) = n /\ Cardinality(CallsOf(r)') = n + 1
      BY <1>1, <1>3, <1>5, <2>1, Pending, TurnTaken
    <2>3. n # 2 * MaxLoop - 1 /\ n % 2 = 0
      BY <1>1, <1>2, Parity
    <2>4. PhaseOf(r) = "running"
      BY <2>1, <2>2, <2>3 DEF PhaseOf
    <2>5. PhaseOf(r)' = IF n + 1 = 2 * MaxLoop - 1 THEN "ended" ELSE "running"
      BY <1>3, <2>1, <2>2 DEF PhaseOf
    <2>6. text_actions'[r] = n + 1
      BY <1>3, <1>5
    <2> QED
      BY <2>2, <2>3, <2>4, <2>5, <2>6 DEF Dialogue!Solve
  <1> QED
    BY <1>4, <1>5

\* So is the Verifier's; its verdict may end the dialogue.
LEMMA DialogueVerifies ==
  ASSUME BothAgents, IInv, NEW r \in Rows,
         NEW response \in VerifierResponses, VerifierTurn(response)
  PROVE  Dialogue(r)!Verify \/ UNCHANGED Dialogue(r)!chainVars
  <1> DEFINE n == Len(buffer)
             e == VerifierEntry(response)
  <1>1. n \in Nat /\ loop_i \in Nat /\ MaxLoop \in Nat \ {0} /\ e \in Entries
    BY MaxLoopAssumption, EntryTypes DEF IInv, TypeOK
  <1>2. n = 2 * loop_i + 1 /\ loop_i # MaxLoop - 1 /\ VerifierCalled
    BY DEF IInv, Rounds, VerifierTurn, VerifierCalled, VerifierMask, BothAgents
  <1>3. /\ buffer' = Append(buffer, e) /\ e.mask = VerifierMask
        /\ approved' = UpdateApproved(approved, VerifierMask, response)
        /\ active' = active /\ text_actions' = text_actions
    BY <1>2 DEF VerifierTurn, VerifierEntry
  <1>4. CASE r \notin VerifierMask
    <2>1. CallsOf(r)' = CallsOf(r)
      BY <1>1, <1>3, <1>4, TurnTaken
    <2>2. r \in active => r \in approved /\ r \in approved'
      BY <1>3, <1>4 DEF VerifierMask, UpdateApproved
    <2>3. PhaseOf(r)' = PhaseOf(r)
      BY <1>3, <2>1, <2>2 DEF PhaseOf
    <2> QED
      BY <1>3, <2>1, <2>3 DEF Dialogue!chainVars
  <1>5. CASE r \in VerifierMask
    <2>1. r \in active \ approved
      BY <1>5 DEF VerifierMask
    <2>2. Cardinality(CallsOf(r)) = n /\ Cardinality(CallsOf(r)') = n + 1
      BY <1>1, <1>3, <1>5, <2>1, Pending, TurnTaken
    <2>3. n # 2 * MaxLoop - 1 /\ n % 2 = 1
      BY <1>1, <1>2, Parity
    <2>4. PhaseOf(r) = "running"
      BY <2>1, <2>2, <2>3 DEF PhaseOf
    <2>5. PhaseOf(r)' \in {"running", "ended"}
      BY <1>3, <2>1 DEF PhaseOf
    <2> QED
      BY <1>3, <2>2, <2>3, <2>4, <2>5 DEF Dialogue!Verify
  <1> QED
    BY <1>4, <1>5

\* Every step of the batch is a step of the row's dialogue, or invisible.
LEMMA DialogueStep ==
  ASSUME BothAgents, IInv, [Next]_orchVars, NEW r \in Rows
  PROVE  [Dialogue(r)!Next]_(Dialogue(r)!chainVars)
  <1>1. CASE \E mask \in (SUBSET Rows) \ {{}} : Run(mask)
    BY <1>1, DialogueBegins DEF Dialogue!Next
  <1>2. CASE SolverTurn
    BY <1>2, DialogueSolves DEF Dialogue!Next
  <1>3. CASE \E response \in VerifierResponses : VerifierTurn(response)
    BY <1>3, DialogueVerifies DEF Dialogue!Next
  <1>4. CASE Label \/ UNCHANGED orchVars
    <2>1. UNCHANGED <<active, approved, buffer, text_actions>>
      BY <1>4 DEF Label, orchVars
    <2> QED
      BY <2>1 DEF Dialogue!chainVars, PhaseOf, CallsOf
  <1> QED
    BY <1>1, <1>2, <1>3, <1>4 DEF Next, Step

(* Batching changes nothing for a row, in a batch of any size: the first   *)
(* state is the start of its own Solver/Verifier dialogue (MathChain), and *)
(* every step of run() is a step of that dialogue or invisible to the row. *)
THEOREM RowsImplementChains ==
  ASSUME BothAgents
  PROVE  Spec => /\ \A r \in Rows : Dialogue(r)!Init
                 /\ [][\A r \in Rows : [Dialogue(r)!Next]_(Dialogue(r)!chainVars)]_orchVars
  <1>1. Init => \A r \in Rows : Dialogue(r)!Init
    <2> SUFFICES ASSUME Init, NEW r \in Rows PROVE Dialogue(r)!Init
      OBVIOUS
    <2>1. Len(buffer) = 0 /\ active = {} /\ text_actions[r] = 0
      BY DEF Init
    <2>2. CallsOf(r) = {}
      BY <2>1 DEF CallsOf
    <2> QED
      BY <2>1, <2>2, FS_EmptySet DEF Dialogue!Init, PhaseOf
  <1>2. IInv /\ [Next]_orchVars => IInv'
    BY InvStep
  <1>3. IInv /\ [Next]_orchVars
        => [\A r \in Rows : [Dialogue(r)!Next]_(Dialogue(r)!chainVars)]_orchVars
    BY DialogueStep
  <1> QED
    BY <1>1, <1>2, <1>3, InvInit, PTL DEF Spec

-----------------------------------------------------------------------------
(* From here on MathRollout and DynamicSampling, on top of the invariant   *)
(* of the orchestra.                                                       *)

\* The verdict as the scorer's replay reads it.
Passes(response) == "approve" \in response \/ "reject" \notin response

-----------------------------------------------------------------------------
(* The inductive invariant.  A rollout of the math task takes one          *)
(* environment step, so that it is one run of the orchestra over all rows; *)
(* what the readers see of it must already be true of its buffer.          *)

\* The two parsers agree on every verdict in the buffer.
Verdicts ==
  \A p \in 1 .. Len(buffer), r \in Rows :
    buffer[p].agent_id = VerifierAgent /\ r \in buffer[p].mask =>
      (Passes(buffer[p].response[r]) <=> buffer[p].decision[r] # "reject")

NothingCollected == is_done = {} /\ total = [r \in Rows |-> <<>>] /\ episode_rewards = [r \in Rows |-> 0]

\* One environment step, over all rows, has been collected.
StepCollected ==
  /\ pc = "returned" /\ active = Rows /\ graded = text_actions
  /\ episode_rewards \in [Rows -> {0, 1}]
  /\ total = [r \in Rows |-> StepEvents(r, episode_rewards, Rows)]

RolloutInv ==
  /\ phase \in {"loop", "orchestra", "gather", "gathered"}
  /\ phase = "loop" => pc \in {"idle", "returned"} /\ NothingCollected
  /\ phase = "orchestra" => pc # "idle" /\ active = Rows /\ NothingCollected
  /\ phase \in {"gather", "gathered"} => StepCollected
  /\ phase = "gathered" => trajectory = [r \in Rows |-> Finalized(total[r])]

RInv == IInv /\ Verdicts /\ RolloutInv

-----------------------------------------------------------------------------
(* The events of a complete chain of n calls, with the reward of its row.  *)
Answer(n) == IF n % 2 = 1 THEN n ELSE n - 1

Owns(e) == e.is_env_action
Ends(e) == e.env_done

LegalLength(n) == n \in 1 .. 2 * MaxLoop - 1 /\ (n % 2 = 0 \/ n = 2 * MaxLoop - 1)

CompleteChain(events, n, reward) ==
  /\ LegalLength(n)
  /\ Len(events) = n /\ events # <<>>
  /\ \A i \in 1 .. n :
       /\ events[i].agent_id = IF i % 2 = 1 THEN SolverAgent ELSE VerifierAgent
       /\ Owns(events[i]) <=> i = n
       /\ Ends(events[i]) <=> i = n
       /\ events[i].env_action_owner = IF i = n THEN events[i].agent_id ELSE Nobody
       /\ events[i].env_reward = IF i = n THEN reward ELSE 0
       /\ events[i].position = i
       /\ events[i].submitted = Answer(n)
       /\ events[i].transition = n
       /\ i % 2 = 0 => (Passes(events[i].response) <=> i = n)

\* The last call owns the transition.
LEMMA EventOwned ==
  ASSUME NEW r, NEW p, NEW reward, NEW done
  PROVE  /\ Owns(EventOf(r, p, reward, done)) <=> TerminalPosition(r) = p
         /\ Ends(EventOf(r, p, reward, done)) <=> TerminalPosition(r) = p /\ r \in done
  <1>1. Owns(EventOf(r, p, reward, done)) <=> TerminalPosition(r) = p
    BY DEF EventOf, Owns
  <1>2. Ends(EventOf(r, p, reward, done)) <=> TerminalPosition(r) = p /\ r \in done
    BY DEF EventOf, Ends
  <1> QED
    BY <1>1, <1>2

\* The names the chain contract compares.
LEMMA AgentsDiffer ==
  SolverAgent # VerifierAgent /\ Nobody \notin {SolverAgent, VerifierAgent}
  BY DEF SolverAgent, VerifierAgent, Nobody

\* The last of the first n numbers.
LEMMA LastOfInterval ==
  ASSUME NEW n \in Nat \ {0}
  PROVE  LastOf(1 .. n) = n
  <1>1. n \in 1 .. n /\ \A q \in 1 .. n : q <= n
    OBVIOUS
  <1>2. \A p \in 1 .. n : (\A q \in 1 .. n : q <= p) => p = n
    OBVIOUS
  <1> QED
    BY <1>1, <1>2 DEF LastOf

\* The last odd one of them.
LEMMA LastOdd ==
  ASSUME NEW n \in Nat \ {0}
  PROVE  LastOf({p \in 1 .. n : p % 2 = 1}) = Answer(n)
  <1> DEFINE S == {p \in 1 .. n : p % 2 = 1}
  <1>1. Answer(n) \in S
    BY DEF Answer
  <1>2. \A q \in S : q <= Answer(n)
    BY DEF Answer
  <1> HIDE DEF S
  <1>3. \A p \in S : (\A q \in S : q <= p) => p = Answer(n)
    <2> TAKE p \in S
    <2> HAVE \A q \in S : q <= p
    <2>1. p \in Nat /\ Answer(n) \in Nat
      BY <1>1 DEF S
    <2>2. Answer(n) <= p /\ p <= Answer(n)
      BY <1>1, <1>2
    <2> QED
      BY <2>1, <2>2
  <1>4. LastOf(S) = Answer(n)
    BY <1>1, <1>3, <1>2 DEF LastOf
  <1> QED
    BY <1>4 DEF S

\* A chain that ends with a verdict submits the call before it.
LEMMA VerdictAfter ==
  ASSUME NEW a \in Nat, a % 2 = 1
  PROVE  Answer(a + 1) = a
  <1>1. (a + 1) % 2 = 0
    OBVIOUS
  <1> QED
    BY <1>1 DEF Answer

\* The k-th of the first n calls.
LEMMA KthCall ==
  ASSUME NEW r, NEW n \in Nat, CallsOf(r) = 1 .. n, NEW k \in 1 .. n
  PROVE  Call(r, k) = k
  <1>1. ASSUME NEW p \in 1 .. n PROVE Cardinality({q \in 1 .. n : q <= p}) = p
    <2>1. {q \in 1 .. n : q <= p} = 1 .. p
      OBVIOUS
    <2>2. Cardinality(1 .. p) = p
      BY FS_Interval
    <2> QED
      BY <2>1, <2>2
  <1> QED
    BY <1>1 DEF Call

\* When the run has returned, the calls of a row are a complete chain.
LEMMA RowReturned ==
  ASSUME IInv, Verdicts, pc = "returned", NEW r \in active
  PROVE  \E n : /\ LegalLength(n) /\ CallsOf(r) = 1 .. n /\ n <= Len(buffer)
                /\ text_actions[r] = Answer(n)
                /\ \A i \in 1 .. n : i % 2 = 0 => (Passes(buffer[i].response[r]) <=> i = n)
  <1> DEFINE a == text_actions[r]
             n == LastCall(r)
  <1>1. /\ MaxLoop \in Nat \ {0} /\ Len(buffer) \in Nat /\ a \in 1 .. Len(buffer) /\ a % 2 = 1
        /\ Len(buffer) \in 1 .. 2 * MaxLoop - 1 /\ r \in Rows /\ CallsOf(r) = 1 .. n
    BY Returned, MaxLoopAssumption DEF IInv, TypeOK
  <1>2. r \in approved => a < Len(buffer) /\ n = a + 1 /\ buffer[a + 1].decision[r] # "reject"
    BY <1>1, Returned DEF LastCall
  <1>3. r \notin approved => a = Len(buffer) /\ n = a /\ n = 2 * MaxLoop - 1
    BY <1>1, Returned DEF LastCall
  <1> HIDE DEF n
  <1>4. n \in 1 .. Len(buffer) /\ (n = a \/ n = a + 1) /\ a = Answer(n)
    <2>1. CASE r \in approved
      <3>1. a \in Nat /\ a % 2 = 1 /\ n = a + 1 /\ a < Len(buffer) /\ Len(buffer) \in Nat
        BY <1>1, <1>2, <2>1
      <3>2. Answer(n) = a
        BY <3>1, VerdictAfter
      <3> QED
        BY <3>1, <3>2
    <2>2. CASE r \notin approved
      <3>1. n = a /\ n % 2 = 1 /\ n \in 1 .. Len(buffer)
        BY <1>1, <1>3, <2>2
      <3>2. Answer(n) = n
        BY <3>1 DEF Answer
      <3> QED
        BY <3>1, <3>2
    <2> QED
      BY <2>1, <2>2
  <1>5. LegalLength(n)
    <2>1. CASE r \in approved
      <3>1. (a + 1) % 2 = 0
        BY <1>1, Parity
      <3> QED
        BY <1>1, <1>2, <1>4, <2>1, <3>1 DEF LegalLength
    <2>2. CASE r \notin approved
      BY <1>1, <1>3, <2>2 DEF LegalLength
    <2> QED
      BY <2>1, <2>2
  <1>6. ASSUME NEW i \in 1 .. n, i % 2 = 0
        PROVE  Passes(buffer[i].response[r]) <=> i = n
    <2>1. i \in 1 .. Len(buffer) /\ i \in CallsOf(r)
      BY <1>1, <1>4
    <2>2. r \in buffer[i].mask /\ buffer[i].agent_id = VerifierAgent
      BY <1>6, <2>1 DEF IInv, Alternation, CallsOf
    <2>3. Passes(buffer[i].response[r]) <=> buffer[i].decision[r] # "reject"
      BY <1>1, <2>1, <2>2 DEF Verdicts
    <2>4. CASE r \in approved
      <3>1. i <= a + 1
        BY <1>1, <1>2, <2>4
      <3>2. i # a + 1 => buffer[i].decision[r] = "reject"
        BY <1>6, <2>1, <3>1 DEF IInv, RowInv, RejectedBefore
      <3> QED
        BY <1>2, <2>3, <2>4, <3>2
    <2>5. CASE r \notin approved
      <3>1. i <= a + 1 /\ i # n
        BY <1>1, <1>3, <1>6, <2>5
      <3>2. buffer[i].decision[r] = "reject"
        BY <1>6, <2>1, <2>5, <3>1 DEF IInv, RowInv, RejectedBefore
      <3> QED
        BY <2>3, <3>1, <3>2
    <2> QED
      BY <2>4, <2>5
  <1>7. n <= Len(buffer)
    BY <1>4
  <1> QED
    BY <1>1, <1>4, <1>5, <1>6, <1>7

\* The events recorded of the run are a complete chain of their row.
LEMMA EventsOfReturned ==
  ASSUME IInv, Verdicts, pc = "returned", active = Rows, NEW r \in Rows,
         NEW reward \in [Rows -> {0, 1}]
  PROVE  \E n : /\ CompleteChain(StepEvents(r, reward, Rows), n, reward[r])
                /\ text_actions[r] = Answer(n)
  <1>1. PICK n : /\ LegalLength(n) /\ CallsOf(r) = 1 .. n /\ n <= Len(buffer)
                 /\ text_actions[r] = Answer(n)
                 /\ \A i \in 1 .. n : i % 2 = 0 => (Passes(buffer[i].response[r]) <=> i = n)
    BY RowReturned
  <1>2. n \in Nat \ {0} /\ MaxLoop \in Nat \ {0} /\ Len(buffer) \in Nat
    BY <1>1, MaxLoopAssumption DEF LegalLength, IInv, TypeOK
  <1>3. TerminalPosition(r) = n
    BY <1>1, <1>2, LastOfInterval DEF TerminalPosition
  <1>4. SubmittedPosition(r) = Answer(n)
    <2>1. \A p \in 1 .. n : SolverCall(p) <=> p % 2 = 1
      BY <1>1, <1>2, AlternationOfCalls
    <2>2. {p \in CallsOf(r) : SolverCall(p)} = {p \in 1 .. n : p % 2 = 1}
      BY <1>1, <2>1
    <2> QED
      BY <1>2, <2>2, LastOdd DEF SubmittedPosition
  <1> DEFINE e == StepEvents(r, reward, Rows)
  <1>5. e = [k \in 1 .. n |-> EventOf(r, Call(r, k), reward, Rows)]
    <2>1. Cardinality(CallsOf(r)) = n
      BY <1>1, <1>2, FS_Interval
    <2> QED
      BY <2>1 DEF StepEvents
  <1>6. Len(e) = n /\ e # <<>>
    BY <1>2, <1>5
  <1>7. \A i \in 1 .. n : e[i] = EventOf(r, i, reward, Rows)
    BY <1>1, <1>2, <1>5, KthCall
  <1>8. \A i \in 1 .. n : buffer[i].agent_id = IF i % 2 = 1 THEN SolverAgent ELSE VerifierAgent
    BY <1>1, <1>2 DEF IInv, Alternation
  <1> HIDE DEF e
  <1>9. ASSUME NEW i \in 1 .. n
        PROVE  /\ e[i].agent_id = IF i % 2 = 1 THEN SolverAgent ELSE VerifierAgent
               /\ Owns(e[i]) <=> i = n
               /\ Ends(e[i]) <=> i = n
               /\ e[i].env_action_owner = IF i = n THEN e[i].agent_id ELSE Nobody
               /\ e[i].env_reward = IF i = n THEN reward[r] ELSE 0
               /\ e[i].position = i
               /\ e[i].submitted = Answer(n)
               /\ e[i].transition = n
               /\ i % 2 = 0 => (Passes(e[i].response) <=> i = n)
    <2> DEFINE x == EventOf(r, i, reward, Rows)
    <2>0. e[i] = x
      BY <1>7
    <2>1. e[i].agent_id = buffer[i].agent_id /\ e[i].response = buffer[i].response[r]
      BY <2>0 DEF EventOf
    <2>2. Owns(e[i]) <=> i = n
      BY <1>3, <2>0, EventOwned
    <2>3. Ends(e[i]) <=> i = n
      BY <1>3, <2>0, EventOwned
    <2>4. e[i].env_action_owner = IF i = n THEN e[i].agent_id ELSE Nobody
      BY <1>3, <2>0, <2>1 DEF EventOf
    <2>5. e[i].env_reward = IF i = n THEN reward[r] ELSE 0
      BY <1>3, <2>0 DEF EventOf
    <2>6. e[i].position = i /\ e[i].submitted = Answer(n) /\ e[i].transition = n
      BY <1>3, <1>4, <2>0 DEF EventOf
    <2>7. i % 2 = 0 => (Passes(e[i].response) <=> i = n)
      BY <1>1, <2>1
    <2> QED
      BY <1>8, <2>1, <2>2, <2>3, <2>4, <2>5, <2>6, <2>7
  <1>10. CompleteChain(e, n, reward[r])
    BY <1>1, <1>6, <1>9 DEF CompleteChain
  <1> QED
    BY <1>1, <1>10 DEF e

-----------------------------------------------------------------------------
(* The readers.                                                            *)

\* Halves and remainders.
LEMMA Halves ==
  ASSUME NEW i \in Nat
  PROVE  /\ i \div 2 \in Nat /\ i % 2 \in {0, 1}
         /\ i = 2 * (i \div 2) + (i % 2)
  OBVIOUS

\* Every second one of the numbers below i.
LEMMA EverySecond ==
  ASSUME NEW i \in Nat \ {0}
  PROVE  Cardinality({j \in 1 .. i - 1 : j % 2 = i % 2}) = (i - 1) \div 2
  <1> DEFINE S == {j \in 1 .. i - 1 : j % 2 = i % 2}
             m == (i - 1) \div 2
             f == [k \in 1 .. m |-> i - 2 * k]
  <1>1. m \in Nat /\ 2 * m <= i - 1 /\ i - 1 <= 2 * m + 1
    <2>1. i - 1 \in Nat
      OBVIOUS
    <2> QED
      BY <2>1, Halves
  <1> HIDE DEF m
  <1>2. ASSUME NEW k \in 1 .. m PROVE i - 2 * k \in S
    <2>1. i - 2 * k \in 1 .. i - 1
      BY <1>1
    <2>2. (i - 2 * k) % 2 = i % 2
      BY <1>1
    <2> QED
      BY <2>1, <2>2
  <1>3. ASSUME NEW j \in S PROVE \E k \in 1 .. m : j = i - 2 * k
    <2>1. j \in Nat /\ j < i /\ j % 2 = i % 2 /\ j > 0
      OBVIOUS
    <2>2. /\ j \div 2 \in Nat /\ j = 2 * (j \div 2) + (j % 2) /\ j % 2 \in {0, 1}
          /\ i \div 2 \in Nat /\ i = 2 * (i \div 2) + (i % 2)
      BY <2>1, Halves
    <2> DEFINE k == i \div 2 - j \div 2
    <2>3. k \in Int /\ j = i - 2 * k
      BY <2>1, <2>2
    <2>4. k \in 1 .. m
      BY <1>1, <2>1, <2>3
    <2> QED
      BY <2>3, <2>4
  <1> HIDE DEF S
  <1>4. f \in Bijection(1 .. m, S)
    <2>1. f \in [1 .. m -> S]
      BY <1>2
    <2>2. \A k, l \in 1 .. m : f[k] = f[l] => k = l
      BY <1>1
    <2>3. \A j \in S : \E k \in 1 .. m : f[k] = j
      BY <1>3
    <2> HIDE DEF f
    <2> QED
      BY <2>1, <2>2, <2>3 DEF Bijection, Injection, IsInjective, Surjection
  <1>5. IsFiniteSet(1 .. m) /\ Cardinality(1 .. m) = m
    BY <1>1, FS_Interval
  <1>6. Cardinality(S) = m
    BY <1>4, <1>5, FS_Bijection DEF ExistsBijection
  <1> QED
    BY <1>6 DEF S, m

\* The chain contract of the event trace accepts a complete chain.
LEMMA ChainAccepted ==
  ASSUME NEW events, NEW n, NEW reward \in {0, 1}, CompleteChain(events, n, reward)
  PROVE  ~ ChainRaises(events)
  <1>1. /\ n \in Nat \ {0} /\ MaxLoop \in Nat \ {0} /\ n <= 2 * MaxLoop - 1
        /\ n % 2 = 0 \/ n = 2 * MaxLoop - 1
        /\ Len(events) = n /\ events # <<>>
    BY MaxLoopAssumption DEF CompleteChain, LegalLength
  <1>2. \A i \in 1 .. n :
          /\ events[i].agent_id = IF i % 2 = 1 THEN SolverAgent ELSE VerifierAgent
          /\ events[i].env_action_owner = IF i = n THEN events[i].agent_id ELSE Nobody
          /\ events[i].env_reward = IF i = n THEN reward ELSE 0
          /\ events[i].position = i
          /\ events[i].submitted = Answer(n)
          /\ events[i].transition = n
    BY DEF CompleteChain
  <1>3. [i \in 1 .. n |-> Kind(events[i])] \in AllowedChains
    <2> DEFINE kinds(l) == [i \in 1 .. l |-> IF i % 2 = 1 THEN "math_solution" ELSE "math_verifier"]
               k == IF n % 2 = 0 THEN n \div 2 ELSE MaxLoop
    <2>1. [i \in 1 .. n |-> Kind(events[i])] = kinds(n)
      <3>1. \A i \in 1 .. n :
              Kind(events[i]) = IF i % 2 = 1 THEN "math_solution" ELSE "math_verifier"
        BY <1>2, AgentsDiffer DEF Kind
      <3> QED
        BY <3>1
    <2>2. k \in 1 .. MaxLoop /\ n = IF k < MaxLoop THEN 2 * k ELSE 2 * k - 1
      <3>1. n \div 2 \in Nat /\ n = 2 * (n \div 2) + (n % 2) /\ n % 2 \in {0, 1}
        BY <1>1, Halves
      <3> QED
        BY <1>1, <3>1
    <2> HIDE DEF k
    <2>3. kinds(n) = kinds(IF k < MaxLoop THEN 2 * k ELSE 2 * k - 1)
      BY <2>2
    <2>4. kinds(IF k < MaxLoop THEN 2 * k ELSE 2 * k - 1) \in AllowedChains
      BY <2>2 DEF AllowedChains
    <2> QED
      BY <2>1, <2>3, <2>4
  <1>4. {i \in 1 .. n : events[i].is_env_action} = {n}
    <2>1. \A i \in 1 .. n : Owns(events[i]) <=> i = n
      BY DEF CompleteChain
    <2>2. {i \in 1 .. n : Owns(events[i])} = {n}
      BY <1>1, <2>1
    <2> QED
      BY <2>2 DEF Owns
  <1>5. {i \in 1 .. n : events[i].env_done} = {n}
    <2>1. \A i \in 1 .. n : Ends(events[i]) <=> i = n
      BY DEF CompleteChain
    <2>2. {i \in 1 .. n : Ends(events[i])} = {n}
      BY <1>1, <2>1
    <2> QED
      BY <2>2 DEF Ends
  <1>6. ~ \E i \in 1 .. n - 1 : events[i].env_action_owner # Nobody \/ events[i].env_reward # 0
    BY <1>1, <1>2
  <1>7. /\ n \in 1 .. n /\ 1 \in 1 .. n
        /\ events[n].env_action_owner = events[n].agent_id /\ events[n].env_reward \in {0, 1}
        /\ events[1].transition = events[n].position
    BY <1>1, <1>2
  <1>8. \E i \in 1 .. n : events[i].position = events[1].submitted /\ events[i].agent_id = SolverAgent
    <2>1. Answer(n) \in 1 .. n /\ Answer(n) % 2 = 1
      BY <1>1 DEF Answer
    <2> QED
      BY <1>2, <1>7, <2>1
  <1> QED
    BY <1>1, <1>3, <1>4, <1>5, <1>6, <1>7, <1>8 DEF ChainRaises

\* A finalized trajectory t of the events.
ReadBack(t, events, n, reward) ==
  /\ Len(t) = n /\ n \in Nat \ {0} /\ Answer(n) \in {n, n - 1} \cap (1 .. n)
  /\ \A i \in 1 .. n :
       /\ t[i].agent_id = IF i % 2 = 1 THEN SolverAgent ELSE VerifierAgent
       /\ t[i].response = events[i].response
       /\ t[i].env_reward = IF i = n THEN reward ELSE 0
       /\ t[i].position = i
       /\ t[i].role_event_index = (i - 1) \div 2
       /\ t[i].submitted_solution = Answer(n)
       /\ t[i].transition_owner = n

\* What finalizing makes of a complete chain.
LEMMA FinalizedChain ==
  ASSUME NEW events, NEW n, NEW reward \in {0, 1}, CompleteChain(events, n, reward)
  PROVE  ReadBack(Finalized(events), events, n, reward)
  <1> DEFINE t == Finalized(events)
  <1>1. /\ n \in Nat \ {0} /\ Len(events) = n
        /\ \A i \in 1 .. n :
             /\ events[i].agent_id = IF i % 2 = 1 THEN SolverAgent ELSE VerifierAgent
             /\ events[i].env_reward = IF i = n THEN reward ELSE 0
             /\ events[i].position = i
             /\ events[i].submitted = Answer(n)
    BY MaxLoopAssumption DEF CompleteChain, LegalLength
  <1>2. Len(t) = n
    BY <1>1 DEF Finalized
  <1>3. Answer(n) \in {n, n - 1} \cap (1 .. n)
    BY <1>1 DEF Answer
  <1>4. IndexOfPosition(events, events[1].submitted) = Answer(n)
    <2>1. events[1].submitted = Answer(n)
      BY <1>1
    <2>2. \A i \in 1 .. n : events[i].position = Answer(n) <=> i = Answer(n)
      BY <1>1
    <2> QED
      BY <1>1, <1>3, <2>1, <2>2 DEF IndexOfPosition
  <1>5. ASSUME NEW i \in 1 .. n PROVE RoleIndex(events, i) = (i - 1) \div 2
    <2>1. \A j \in 1 .. i - 1 : events[j].agent_id = events[i].agent_id <=> j % 2 = i % 2
      <3> TAKE j \in 1 .. i - 1
      <3>1. j \in 1 .. n /\ j % 2 \in {0, 1} /\ i % 2 \in {0, 1}
        BY <1>1
      <3> QED
        BY <1>1, <3>1, AgentsDiffer
    <2>2. {j \in 1 .. i - 1 : events[j].agent_id = events[i].agent_id} = {j \in 1 .. i - 1 : j % 2 = i % 2}
      BY <2>1
    <2>3. i \in Nat \ {0}
      BY <1>1
    <2> QED
      BY <2>2, <2>3, EverySecond DEF RoleIndex
  <1>6. ASSUME NEW i \in 1 .. n
        PROVE  /\ t[i].agent_id = IF i % 2 = 1 THEN SolverAgent ELSE VerifierAgent
               /\ t[i].response = events[i].response
               /\ t[i].env_reward = IF i = n THEN reward ELSE 0
               /\ t[i].position = i
               /\ t[i].role_event_index = (i - 1) \div 2
               /\ t[i].submitted_solution = Answer(n)
               /\ t[i].transition_owner = n
    BY <1>1, <1>4, <1>5 DEF Finalized
  <1> QED
    BY <1>1, <1>2, <1>3, <1>6 DEF ReadBack

\* The scorer's replay of the stop rule ends where a complete chain does.
LEMMA ReplayAccepted ==
  ASSUME NEW events, NEW n, NEW reward \in {0, 1}, CompleteChain(events, n, reward)
  PROVE  ~ ReplayRaises(Finalized(events))
  <1> DEFINE t == Finalized(events)
  <1>1. /\ Len(t) = n /\ n \in Nat \ {0}
        /\ \A i \in 1 .. n :
             /\ t[i].agent_id = IF i % 2 = 1 THEN SolverAgent ELSE VerifierAgent
             /\ t[i].response = events[i].response
             /\ t[i].role_event_index = (i - 1) \div 2
    <2>1. ReadBack(t, events, n, reward)
      BY FinalizedChain
    <2> QED
      BY <2>1 DEF ReadBack
  <1>2. MaxLoop \in Nat \ {0} /\ n <= 2 * MaxLoop - 1 /\ (n % 2 = 0 \/ n = 2 * MaxLoop - 1)
    BY MaxLoopAssumption DEF CompleteChain, LegalLength
  <1>3. \A i \in 1 .. n : i % 2 = 0 => (Passes(events[i].response) <=> i = n)
    BY DEF CompleteChain
  <1> HIDE DEF t
  <1>4. ASSUME NEW i \in 1 .. n PROVE ReplayTerminal(t[i]) <=> i = n
    <2>1. i \in Nat \ {0} /\ i <= n /\ i % 2 \in {0, 1}
      BY <1>1
    <2>2. CASE i % 2 = 1
      <3>1. (i - 1) \div 2 + 1 = MaxLoop <=> i = 2 * MaxLoop - 1
        <4>1. i - 1 \in Nat /\ (i - 1) % 2 = 0
          BY <2>1, <2>2
        <4>2. i - 1 = 2 * ((i - 1) \div 2) /\ (i - 1) \div 2 \in Nat
          BY <4>1, Halves
        <4> QED
          BY <1>2, <2>1, <4>2
      <3>2. i = 2 * MaxLoop - 1 <=> i = n
        <4>1. i = n => n % 2 # 0
          BY <2>2
        <4> QED
          BY <1>1, <1>2, <2>1, <4>1
      <3>3. t[i].agent_id = SolverAgent /\ t[i].role_event_index = (i - 1) \div 2
        BY <1>1, <2>2
      <3> QED
        BY <3>1, <3>2, <3>3 DEF ReplayTerminal
    <2>3. CASE i % 2 = 0
      <3>1. t[i].agent_id # SolverAgent /\ t[i].response = events[i].response
        BY <1>1, <2>3, AgentsDiffer
      <3>2. ReplayTerminal(t[i]) <=> Passes(events[i].response)
        BY <3>1 DEF ReplayTerminal, Passes
      <3> QED
        BY <1>3, <2>3, <3>2
    <2> QED
      BY <2>1, <2>2, <2>3
  <1>5. \A i \in 1 .. n : t[i].agent_id = SolverAgent <=> i % 2 = 1
    BY <1>1, AgentsDiffer
  <1>6. ~ ReplayRaises(t)
    <2>1. \A i \in 1 .. n : t[i].role_event_index = (i - 1) \div 2
      BY <1>1
    <2> QED
      BY <1>1, <1>4, <1>5, <2>1 DEF ReplayRaises, ReplayTerminal
  <1> QED
    BY <1>6 DEF t

\* The outcome of a complete chain is attached to the answer it judged.
LEMMA Credited ==
  ASSUME NEW events, NEW n, NEW reward \in {0, 1}, CompleteChain(events, n, reward)
  PROVE  LET t == Finalized(events) IN
         /\ t[t[Len(t)].submitted_solution].position = Answer(n)
         /\ t[t[Len(t)].transition_owner].env_reward = reward
         /\ \A i \in 1 .. Len(t) - 1 : t[i].env_reward = 0
         /\ Answer(n) \in {t[Len(t)].position, t[Len(t)].position - 1}
  <1> DEFINE t == Finalized(events)
  <1>1. ReadBack(t, events, n, reward)
    BY FinalizedChain
  <1> HIDE DEF t
  <1>2. /\ Len(t) = n /\ n \in 1 .. n /\ n \in Nat
        /\ t[n].submitted_solution = Answer(n) /\ t[n].transition_owner = n /\ t[n].position = n
        /\ t[n].env_reward = reward
        /\ Answer(n) \in {n, n - 1} /\ t[Answer(n)].position = Answer(n)
    BY <1>1 DEF ReadBack
  <1>3. \A i \in 1 .. n - 1 : t[i].env_reward = 0
    BY <1>1 DEF ReadBack
  <1>4. /\ t[t[Len(t)].submitted_solution].position = Answer(n)
        /\ t[t[Len(t)].transition_owner].env_reward = reward
        /\ \A i \in 1 .. Len(t) - 1 : t[i].env_reward = 0
        /\ Answer(n) \in {t[Len(t)].position, t[Len(t)].position - 1}
    BY <1>2, <1>3
  <1> QED
    BY <1>4 DEF t

-----------------------------------------------------------------------------
(* One step.                                                               *)

\* The recorded decision is the verdict as it was obeyed.
LEMMA VerdictsStep ==
  ASSUME IInv, IInv', Verdicts, [Next]_orchVars
  PROVE  Verdicts'
  <1>1. TypeOK /\ buffer \in Seq(Entries) /\ Len(buffer) \in Nat
    BY DEF IInv, TypeOK
  <1>2. CASE buffer' = buffer
    BY <1>2 DEF Verdicts
  <1>3. CASE buffer' = <<>>
    BY <1>3 DEF Verdicts
  <1>4. ASSUME NEW e \in Entries, buffer' = Append(buffer, e),
               \A r \in Rows : e.agent_id = VerifierAgent /\ r \in e.mask =>
                 (Passes(e.response[r]) <=> e.decision[r] # "reject")
        PROVE  Verdicts'
    <2>1. /\ Len(buffer') = Len(buffer) + 1
          /\ buffer'[Len(buffer) + 1] = e
          /\ \A p \in 1 .. Len(buffer) : buffer'[p] = buffer[p]
      BY <1>1, <1>4, AppendedEntry
    <2>2. SUFFICES ASSUME NEW p \in 1 .. Len(buffer'), NEW r \in Rows,
                          buffer'[p].agent_id = VerifierAgent, r \in buffer'[p].mask
                   PROVE  Passes(buffer'[p].response[r]) <=> buffer'[p].decision[r] # "reject"
      BY DEF Verdicts
    <2>3. CASE p \in 1 .. Len(buffer)
      BY <2>1, <2>2, <2>3 DEF Verdicts
    <2>4. CASE p = Len(buffer) + 1
      BY <1>4, <2>1, <2>2, <2>4
    <2> QED
      BY <1>1, <2>1, <2>3, <2>4
  <1>5. CASE SolverTurn
    <2>1. SolverEntry.agent_id # VerifierAgent /\ SolverEntry \in Entries
      BY <1>1, EntryTypes, AgentsDiffer DEF SolverEntry
    <2> QED
      BY <1>2, <1>4, <1>5, <2>1 DEF SolverTurn
  <1>6. ASSUME NEW response \in VerifierResponses, VerifierTurn(response) PROVE Verdicts'
    <2> DEFINE e == VerifierEntry(response)
    <2>1. e \in Entries
      BY <1>1, EntryTypes
    <2>2. ASSUME NEW r \in Rows, r \in e.mask
          PROVE  Passes(e.response[r]) <=> e.decision[r] # "reject"
      <3>1. e.response = response /\ e.mask = VerifierMask
            /\ e.decision = ParsedVerdict(VerifierMask, response)
        BY DEF VerifierEntry
      <3>2. r \in VerifierMask /\ e.response[r] = response[r]
            /\ e.decision[r] = IF "approve" \in response[r] THEN "approve"
                               ELSE IF "reject" \in response[r] THEN "reject" ELSE "invalid"
        BY <2>2, <3>1 DEF ParsedVerdict
      <3> QED
        BY <3>2 DEF Passes
    <2>3. buffer' = Append(buffer, e) \/ buffer' = buffer
      BY <1>6 DEF VerifierTurn
    <2> HIDE DEF e
    <2> QED
      BY <1>2, <1>4, <2>1, <2>2, <2>3
  <1>7. ASSUME NEW mask \in (SUBSET Rows) \ {{}}, Run(mask) PROVE Verdicts'
    BY <1>3, <1>7 DEF Run
  <1>8. CASE Label \/ UNCHANGED orchVars
    BY <1>2, <1>8 DEF Label, orchVars
  <1> QED
    BY <1>5, <1>6, <1>7, <1>8 DEF Next, Step

\* What the orchestra's own steps leave of a run over all rows.
LEMMA OrchestraRuns ==
  ASSUME Step
  PROVE  active' = active /\ pc' # "idle"
  <1>1. CASE SolverTurn
    BY <1>1 DEF SolverTurn
  <1>2. ASSUME NEW response \in VerifierResponses, VerifierTurn(response)
        PROVE  active' = active /\ pc' # "idle"
    BY <1>2 DEF VerifierTurn, NextRound
  <1>3. CASE Label
    BY <1>3 DEF Label
  <1> QED
    BY <1>1, <1>2, <1>3 DEF Step

LEMMA RInvInit == InitR => RInv
  BY InvInit DEF InitR, Init, RolloutInit, RInv, Verdicts, RolloutInv, NothingCollected

\* The steps of the loop around the orchestra leave the orchestra alone.
LEMMA OrchestraKept ==
  ASSUME BothAgents, IInv, Verdicts, UNCHANGED orchVars
  PROVE  IInv' /\ Verdicts'
  BY InvStep, VerdictsStep

\* A returned run has made a call for every row it was given.
LEMMA NeverSilent ==
  ASSUME IInv, Verdicts, pc = "returned", active = Rows
  PROVE  buffer # <<>>
  <1>1. PICK r \in Rows : TRUE
    BY RowsAssumption
  <1>2. Len(buffer) \in 1 .. 2 * MaxLoop - 1
    BY <1>1, Returned
  <1> QED
    BY <1>2

\* Every row of the step just collected has a complete chain.
LEMMA CollectedChain ==
  ASSUME IInv, Verdicts, StepCollected, NEW r \in Rows
  PROVE  \E n : /\ CompleteChain(total[r], n, episode_rewards[r])
                /\ graded[r] = Answer(n) /\ episode_rewards[r] \in {0, 1}
  <1>1. /\ pc = "returned" /\ active = Rows /\ graded = text_actions
        /\ episode_rewards \in [Rows -> {0, 1}] /\ episode_rewards[r] \in {0, 1}
        /\ total[r] = StepEvents(r, episode_rewards, Rows)
    BY DEF StepCollected
  <1>2. \E n : /\ CompleteChain(StepEvents(r, episode_rewards, Rows), n, episode_rewards[r])
               /\ text_actions[r] = Answer(n)
    BY <1>1, EventsOfReturned
  <1> QED
    BY <1>1, <1>2

\* The events that can be read off a buffer stay as long as the buffer does.
LEMMA EventsKept ==
  ASSUME UNCHANGED <<buffer, active>>, NEW r
  PROVE  StepEvents(r, episode_rewards, Rows)' = StepEvents(r, episode_rewards', Rows)
  <1>1. CallsOf(r)' = CallsOf(r)
    BY DEF CallsOf
  <1>2. \A k : Call(r, k)' = Call(r, k)
    BY <1>1 DEF Call
  <1>3. TerminalPosition(r)' = TerminalPosition(r)
    BY <1>1 DEF TerminalPosition, LastOf
  <1>4. SubmittedPosition(r)' = SubmittedPosition(r)
    <2>1. \A p : SolverCall(p)' <=> SolverCall(p)
      BY DEF SolverCall
    <2>2. {p \in CallsOf(r) : SolverCall(p)}' = {p \in CallsOf(r) : SolverCall(p)}
      BY <1>1, <2>1
    <2> DEFINE S == {p \in CallsOf(r) : SolverCall(p)}
    <2>3. S' = S
      BY <2>2
    <2> HIDE DEF S
    <2>4. LastOf(S)' = LastOf(S)
      BY <2>3 DEF LastOf
    <2>5. SubmittedPosition(r) = IF r \in active THEN LastOf(S) ELSE 0
      BY DEF SubmittedPosition, S
    <2>6. SubmittedPosition(r)' = IF r \in active' THEN LastOf(S)' ELSE 0
      BY DEF SubmittedPosition, S
    <2> QED
      BY <2>4, <2>5, <2>6
  <1>5. \A p : EventOf(r, p, episode_rewards, Rows)' = EventOf(r, p, episode_rewards', Rows)
    BY <1>3, <1>4 DEF EventOf
  <1> QED
    BY <1>1, <1>2, <1>5 DEF StepEvents

\* The step's events are collected behind nothing.
LEMMA CollectedFirst ==
  ASSUME IInv, Verdicts, pc = "returned", active = Rows, NEW r \in Rows,
         NEW reward \in [Rows -> {0, 1}]
  PROVE  <<>> \o StepEvents(r, reward, Rows) = StepEvents(r, reward, Rows)
  <1> DEFINE e == StepEvents(r, reward, Rows)
             c == Cardinality(CallsOf(r))
             S == {EventOf(r, Call(r, k), reward, Rows) : k \in 1 .. c}
  <1>1. c \in Nat
    <2>1. PICK n : LegalLength(n) /\ CallsOf(r) = 1 .. n
      BY RowReturned
    <2> QED
      BY <2>1, FS_Interval, MaxLoopAssumption DEF LegalLength
  <1>2. e = [k \in 1 .. c |-> EventOf(r, Call(r, k), reward, Rows)]
    BY DEF StepEvents
  <1>3. e \in Seq(S)
    BY <1>1, <1>2
  <1> HIDE DEF e, S
  <1>4. <<>> \o e = e
    BY <1>3, ConcatEmptySeq
  <1> QED
    BY <1>4 DEF e

LEMMA RInvStep ==
  ASSUME BothAgents, RInv, [NextR]_vars
  PROVE  RInv'
  <1>1. IInv /\ Verdicts /\ RolloutInv
    BY DEF RInv
  <1>2. CASE CallOrchestra
    <2>1. Rows \ is_done = Rows
      BY <1>1, <1>2 DEF CallOrchestra, RolloutInv, NothingCollected
    <2>2. /\ Run(Rows) /\ phase' = "orchestra"
          /\ UNCHANGED <<is_done, total, episode_rewards>> /\ NothingCollected
      BY <1>1, <1>2, <2>1 DEF CallOrchestra, RolloutInv
    <2>3. Next
      BY <2>2, RowsAssumption DEF Next
    <2>4. IInv' /\ Verdicts'
      BY <1>1, <2>3, InvStep, VerdictsStep
    <2> QED
      BY <2>2, <2>4 DEF RInv, RolloutInv, NothingCollected, Run
  <1>3. CASE OrchestraStep
    <2>1. phase = "orchestra" /\ Step /\ UNCHANGED rolloutVars
      BY <1>3 DEF OrchestraStep
    <2>2. IInv' /\ Verdicts'
      BY <1>1, <2>1, InvStep, VerdictsStep DEF Next
    <2>3. active' = active /\ pc' # "idle"
      BY <2>1, OrchestraRuns
    <2> QED
      BY <1>1, <2>1, <2>2, <2>3 DEF RInv, RolloutInv, NothingCollected, rolloutVars
  <1>4. ASSUME NEW reward \in Grades, EnvStep(reward) PROVE RInv'
    <2>1. /\ phase = "orchestra" /\ pc = "returned" /\ active = Rows /\ NothingCollected
          /\ UNCHANGED orchVars /\ reward \in [Rows -> {0, 1}]
      BY <1>1, <1>4 DEF EnvStep, RolloutInv, Grades
    <2>2. ~ AnnotateRaises
      BY <1>1, <2>1, NeverSilent DEF AnnotateRaises
    <2>3. /\ episode_rewards' = [r \in Rows |-> episode_rewards[r] + (IF r \in active THEN reward[r] ELSE 0)]
          /\ total' = [r \in Rows |-> total[r] \o StepEvents(r, reward, Rows)]
          /\ is_done' = is_done \cup Rows
          /\ graded' = text_actions
          /\ phase' = IF is_done' = Rows \/ env_step' = MaxSteps THEN "gather" ELSE "loop"
      BY <1>4, <2>2 DEF EnvStep
    <2>4. phase' = "gather"
      BY <2>1, <2>3 DEF NothingCollected
    <2>5. episode_rewards' = reward
      <3>1. \A r \in Rows : episode_rewards[r] + (IF r \in active THEN reward[r] ELSE 0) = reward[r]
        BY <2>1 DEF NothingCollected
      <3> QED
        BY <2>1, <2>3, <3>1
    <2>6. total' = [r \in Rows |-> StepEvents(r, reward, Rows)]
      <3>1. \A r \in Rows : total[r] = <<>>
        BY <2>1 DEF NothingCollected
      <3>2. \A r \in Rows : <<>> \o StepEvents(r, reward, Rows) = StepEvents(r, reward, Rows)
        BY <1>1, <2>1, CollectedFirst
      <3> QED
        BY <2>3, <3>1, <3>2
    <2>7. \A r \in Rows : StepEvents(r, episode_rewards, Rows)' = StepEvents(r, reward, Rows)
      <3> TAKE r \in Rows
      <3>1. StepEvents(r, episode_rewards, Rows)' = StepEvents(r, episode_rewards', Rows)
        BY <2>1, EventsKept DEF orchVars
      <3> QED
        BY <2>5, <3>1
    <2>8. StepCollected'
      BY <2>1, <2>3, <2>5, <2>6, <2>7 DEF StepCollected, orchVars
    <2>9. IInv' /\ Verdicts'
      BY <1>1, <2>1, OrchestraKept
    <2> QED
      BY <2>4, <2>8, <2>9 DEF RInv, RolloutInv
  <1>5. CASE Gather
    <2>1. phase = "gather" /\ StepCollected /\ UNCHANGED <<orchVars, episode_rewards, total, graded>>
      BY <1>1, <1>5 DEF Gather, RolloutInv
    <2>2. \A r \in Rows : ~ ChainRaises(total[r])
      BY <1>1, <2>1, CollectedChain, ChainAccepted
    <2>3. phase' = "gathered" /\ trajectory' = [r \in Rows |-> Finalized(total[r])]
      BY <1>5, <2>2 DEF Gather
    <2>4. \A r \in Rows : StepEvents(r, episode_rewards, Rows)' = StepEvents(r, episode_rewards, Rows)
      <3> TAKE r \in Rows
      <3>1. StepEvents(r, episode_rewards, Rows)' = StepEvents(r, episode_rewards', Rows)
        BY <2>1, EventsKept DEF orchVars
      <3> QED
        BY <2>1, <3>1
    <2>5. StepCollected'
      BY <2>1, <2>4 DEF StepCollected, orchVars
    <2>6. IInv' /\ Verdicts'
      BY <1>1, <2>1, OrchestraKept
    <2> QED
      BY <2>1, <2>3, <2>5, <2>6 DEF RInv, RolloutInv
  <1>6. CASE NextRollout
    <2>1. phase = "gathered" /\ StepCollected /\ UNCHANGED orchVars
      BY <1>1, <1>6 DEF NextRollout, RolloutInv
    <2>2. pc' = "returned" /\ phase' = "loop" /\ NothingCollected'
      BY <1>6, <2>1 DEF NextRollout, NothingCollected, StepCollected, orchVars
    <2>3. IInv' /\ Verdicts'
      BY <1>1, <2>1, OrchestraKept
    <2> QED
      BY <2>2, <2>3 DEF RInv, RolloutInv
  <1>7. CASE UNCHANGED vars
    <2>1. UNCHANGED orchVars /\ UNCHANGED rolloutVars
      BY <1>7 DEF vars
    <2>2. IInv' /\ Verdicts'
      BY <1>1, <2>1, OrchestraKept
    <2>3. UNCHANGED <<phase, is_done, episode_rewards, total, trajectory, graded, pc, active, text_actions>>
      BY <2>1 DEF orchVars, rolloutVars
    <2>4. \A r \in Rows : StepEvents(r, episode_rewards, Rows)' = StepEvents(r, episode_rewards, Rows)
      <3> TAKE r \in Rows
      <3>1. StepEvents(r, episode_rewards, Rows)' = StepEvents(r, episode_rewards', Rows)
        BY <2>1, EventsKept DEF orchVars
      <3> QED
        BY <2>3, <3>1
    <2>5. StepCollected => StepCollected'
      BY <2>3, <2>4 DEF StepCollected
    <2>6. NothingCollected => NothingCollected'
      BY <2>3 DEF NothingCollected
    <2> QED
      BY <1>1, <2>2, <2>3, <2>5, <2>6 DEF RInv, RolloutInv
  <1> QED
    BY <1>2, <1>3, <1>4, <1>5, <1>6, <1>7 DEF NextR, Progress

LEMMA RInvariant == ASSUME BothAgents PROVE SpecR => []RInv
  <1>1. RInv /\ [NextR]_vars => RInv'
    BY RInvStep
  <1> QED
    BY RInvInit, <1>1, PTL DEF SpecR

-----------------------------------------------------------------------------
(* Whatever the agents write, the event adapter, the chain contract and    *)
(* the scorer's replay accept every trajectory the orchestra produces, in  *)
(* a batch of any size and with any number of rounds                       *)
(* (finalize_math_trajectory_events, _validated_chains, _validate_record). *)
THEOREM ReadersNeverDisagree == ASSUME BothAgents PROVE SpecR => []ReadersAgree
  <1>1. ASSUME RInv PROVE ReadersAgree
    <2>1. RolloutNeverRaises
      BY <1>1 DEF RInv, RolloutInv, RolloutNeverRaises
    <2>2. ASSUME phase = "gathered", NEW r \in Rows PROVE ~ ReplayRaises(trajectory[r])
      <3>1. StepCollected /\ trajectory[r] = Finalized(total[r])
        BY <1>1, <2>2 DEF RInv, RolloutInv
      <3>2. PICK n : CompleteChain(total[r], n, episode_rewards[r]) /\ episode_rewards[r] \in {0, 1}
        BY <1>1, <3>1, CollectedChain DEF RInv
      <3> QED
        BY <3>1, <3>2, ReplayAccepted
    <2> QED
      BY <2>1, <2>2 DEF ReadersAgree, ReplayAgrees
  <1> QED
    BY <1>1, RInvariant, PTL

(* In any batch the reward of a trajectory is that of the answer its       *)
(* environment graded: that answer is the submitted solution, the last     *)
(* event alone carries the reward, and it is the answer or its verdict.    *)
THEOREM CreditIsDue == ASSUME BothAgents PROVE SpecR => []CreditFollowsGrade
  <1>1. ASSUME RInv PROVE CreditFollowsGrade
    <2> SUFFICES ASSUME phase = "gathered", NEW r \in Rows
                 PROVE  LET t == trajectory[r]
                            n == Len(t) IN
                        /\ t[t[n].submitted_solution].position = graded[r]
                        /\ t[t[n].transition_owner].env_reward = episode_rewards[r]
                        /\ \A i \in 1 .. n - 1 : t[i].env_reward = 0
                        /\ graded[r] \in {t[n].position, t[n].position - 1}
      BY DEF CreditFollowsGrade
    <2>1. StepCollected /\ trajectory[r] = Finalized(total[r])
      BY <1>1 DEF RInv, RolloutInv
    <2>2. PICK n : /\ CompleteChain(total[r], n, episode_rewards[r])
                   /\ graded[r] = Answer(n) /\ episode_rewards[r] \in {0, 1}
      BY <1>1, <2>1, CollectedChain DEF RInv
    <2> QED
      BY <2>1, <2>2, Credited
  <1> QED
    BY <1>1, RInvariant, PTL

-----------------------------------------------------------------------------
(* Dynamic sampling.  What makes a batch usable is true of the trajectories *)
(* kept so far after every try: each brought its whole cohort along, with   *)
(* its contrast unless the try was the last one, and a last try left out no *)
(* row, so that giving up still returns a full batch.                       *)

Same(t, u) == GroupOf[u.row] = GroupOf[t.row] /\ u.try = t.try

WholeCohorts ==
  \A t \in kept : \A r \in Members(GroupOf[t.row]) : \E u \in kept : u.row = r /\ u.try = t.try

Contrasted ==
  \A t \in kept : (\E u \in kept : Same(t, u) /\ u.reward # t.reward) \/ t.try = MaxTries - 1

LastTryIsFull ==
  try_count = MaxTries => \A r \in Rows : \E u \in kept : u.row = r

DInv ==
  /\ kept \subseteq [row : Rows, try : Nat, reward : {0, 1}]
  /\ IsFiniteSet(kept)
  /\ try_count \in 0 .. MaxTries
  /\ sampling \in {"trying", "sampled"}
  /\ WholeCohorts
  /\ Contrasted
  /\ LastTryIsFull
  /\ sampling = "sampled" => ~ MoreNeeded

\* The trajectories a try adds.
Added(reward, n, last_try) ==
  {[row |-> r, try |-> n, reward |-> reward[r]] : r \in KeptRows(reward, last_try)}

\* The filter keeps finitely many trajectories, one for each row it keeps.
LEMMA AddedFinite ==
  ASSUME NEW reward, NEW n, NEW last_try
  PROVE  IsFiniteSet(Added(reward, n, last_try))
  <1> DEFINE K == KeptRows(reward, last_try)
             f == [r \in K |-> [row |-> r, try |-> n, reward |-> reward[r]]]
             A == Added(reward, n, last_try)
  <1>1. IsFiniteSet(K)
    <2>1. K \subseteq Rows
      BY DEF KeptRows
    <2> QED
      BY <2>1, RowsAssumption, FS_Subset
  <1>2. f \in Surjection(K, A)
    BY DEF Added, Surjection
  <1> QED
    BY <1>1, <1>2, FS_Surjection

\* The filter keeps or drops the samples of a question together.
LEMMA KeptTogether ==
  ASSUME NEW reward, NEW last_try, NEW r \in KeptRows(reward, last_try),
         NEW q \in Members(GroupOf[r])
  PROVE  q \in KeptRows(reward, last_try)
  BY DEF KeptRows, Members

\* Unless it lets all through, it keeps only what has a contrast.
LEMMA KeptContrast ==
  ASSUME NEW reward, NEW r \in KeptRows(reward, FALSE)
  PROVE  \E q \in KeptRows(reward, FALSE) : GroupOf[q] = GroupOf[r] /\ reward[q] # reward[r]
  <1>1. r \in Rows /\ Informative(GroupOf[r], reward)
    BY DEF KeptRows
  <1>2. PICK a \in Members(GroupOf[r]), b \in Members(GroupOf[r]) : reward[a] # reward[b]
    BY <1>1 DEF Informative
  <1>3. /\ a \in KeptRows(reward, FALSE) /\ GroupOf[a] = GroupOf[r]
        /\ b \in KeptRows(reward, FALSE) /\ GroupOf[b] = GroupOf[r]
    BY KeptTogether DEF Members
  <1> QED
    BY <1>2, <1>3

\* A try keeps the invariant.
LEMMA DInvTry ==
  ASSUME DInv, NEW reward \in [Rows -> {0, 1}], Try(reward)
  PROVE  DInv'
  <1> DEFINE last == try_count + 1 = MaxTries
             A == Added(reward, try_count, last)
  <1>1. /\ sampling = "trying" /\ sampling' = sampling /\ try_count < MaxTries
        /\ try_count' = try_count + 1 /\ try_count \in Nat /\ MaxTries \in Nat
        /\ kept' = kept \cup A
    BY GroupsAssumption DEF Try, DInv, Added, MoreNeeded
  <1>2. \A t \in A : \E r \in KeptRows(reward, last) :
          t.row = r /\ t.try = try_count /\ t.reward = reward[r]
    BY DEF Added
  <1>3. \A r \in KeptRows(reward, last) : \E t \in A :
          t.row = r /\ t.try = try_count /\ t.reward = reward[r]
    <2> TAKE r \in KeptRows(reward, last)
    <2> DEFINE t == [row |-> r, try |-> try_count, reward |-> reward[r]]
    <2>1. t \in A
      BY DEF Added
    <2>2. t.row = r /\ t.try = try_count /\ t.reward = reward[r]
      OBVIOUS
    <2> HIDE DEF t
    <2> QED
      BY <2>1, <2>2
  <1>4. KeptRows(reward, last) \subseteq Rows /\ (last => KeptRows(reward, last) = Rows)
    BY DEF KeptRows
  <1>5. kept' \subseteq [row : Rows, try : Nat, reward : {0, 1}]
    <2>1. A \subseteq [row : Rows, try : Nat, reward : {0, 1}]
      BY <1>1, <1>4 DEF Added
    <2> QED
      BY <1>1, <2>1 DEF DInv
  <1>6. IsFiniteSet(kept')
    <2>1. IsFiniteSet(A)
      BY AddedFinite
    <2> QED
      BY <1>1, <2>1, FS_Union DEF DInv
  <1> HIDE DEF A
  <1>7. WholeCohorts'
    <2> SUFFICES ASSUME NEW t \in kept', NEW r \in Members(GroupOf[t.row])
                 PROVE  \E u \in kept' : u.row = r /\ u.try = t.try
      BY DEF WholeCohorts, Members
    <2>1. CASE t \in kept
      BY <1>1, <2>1 DEF DInv, WholeCohorts
    <2>2. CASE t \in A
      BY <1>1, <1>2, <1>3, <2>2, KeptTogether
    <2> QED
      BY <1>1, <2>1, <2>2
  <1>8. Contrasted'
    <2> SUFFICES ASSUME NEW t \in kept'
                 PROVE  (\E u \in kept' : Same(t, u) /\ u.reward # t.reward) \/ t.try = MaxTries - 1
      BY DEF Contrasted, Same
    <2>1. CASE t \in kept
      BY <1>1, <2>1 DEF DInv, Contrasted
    <2>2. CASE t \in A /\ last
      BY <1>1, <1>2, <2>2
    <2>3. CASE t \in A /\ ~ last
      <3>1. PICK r \in KeptRows(reward, last) :
              t.row = r /\ t.try = try_count /\ t.reward = reward[r]
        BY <1>2, <2>3
      <3>2. KeptRows(reward, last) = KeptRows(reward, FALSE)
        BY <2>3
      <3>3. PICK q \in KeptRows(reward, last) : GroupOf[q] = GroupOf[r] /\ reward[q] # reward[r]
        <4>1. r \in KeptRows(reward, FALSE)
          BY <3>2
        <4>2. \E q \in KeptRows(reward, FALSE) : GroupOf[q] = GroupOf[r] /\ reward[q] # reward[r]
          BY <4>1, KeptContrast
        <4> QED
          BY <3>2, <4>2
      <3>4. PICK u \in A : u.row = q /\ u.try = try_count /\ u.reward = reward[q]
        BY <1>3
      <3> QED
        BY <1>1, <3>1, <3>3, <3>4 DEF Same
    <2> QED
      BY <1>1, <2>1, <2>2, <2>3
  <1>9. LastTryIsFull'
    BY <1>1, <1>3, <1>4 DEF LastTryIsFull
  <1> QED
    BY <1>1, <1>5, <1>6, <1>7, <1>8, <1>9 DEF DInv

\* The lists the loop starts with.
LEMMA DInvEmpty ==
  ASSUME kept = {}, try_count = 0, sampling = "trying"
  PROVE  DInv
  BY FS_EmptySet, GroupsAssumption DEF DInv, WholeCohorts, Contrasted, LastTryIsFull

LEMMA DInvStep ==
  ASSUME DInv, [NextD]_<<vars, dynVars>>
  PROVE  DInv'
  <1>1. ASSUME NEW reward \in [Rows -> {0, 1}], Try(reward) PROVE DInv'
    BY <1>1, DInvTry
  <1>2. CASE ReturnSampled
    BY <1>2 DEF ReturnSampled, DInv, WholeCohorts, Contrasted, LastTryIsFull, MoreNeeded
  <1>3. CASE NextSampled
    <2>1. kept' = {} /\ try_count' = 0 /\ sampling' = "trying"
      BY <1>3 DEF NextSampled
    <2> QED
      BY <2>1, FS_EmptySet, GroupsAssumption
      DEF DInv, WholeCohorts, Contrasted, LastTryIsFull
  <1>4. CASE UNCHANGED dynVars
    BY <1>4 DEF dynVars, DInv, WholeCohorts, Contrasted, LastTryIsFull, MoreNeeded
  <1> QED
    BY <1>1, <1>2, <1>3, <1>4 DEF NextD, dynVars

\* A row kept in every case bounds the batch from below.
LEMMA FullTry ==
  ASSUME IsFiniteSet(kept), \A r \in Rows : \E u \in kept : u.row = r,
         \A u \in kept : u.row \in Rows
  PROVE  Cardinality(kept) >= Target
  <1> DEFINE f == [u \in kept |-> u.row]
  <1>1. f \in Surjection(kept, Rows)
    BY DEF Surjection
  <1>2. Cardinality(Rows) <= Cardinality(kept)
    BY <1>1, FS_Surjection
  <1>3. Cardinality(Rows) \in Nat /\ Cardinality(kept) \in Nat
    BY RowsAssumption, FS_CardinalityType
  <1> QED
    BY <1>2, <1>3 DEF Target

(* However the rewards of the tries fall, with any grouping of the rows    *)
(* and any bound on the tries, what multi_turn_loop hands on is a full     *)
(* batch of whole cohorts, and only a last try brings one without          *)
(* contrast (filter_group_data).                                           *)
THEOREM SampledBatchAlwaysUsable == SpecD => []SampledBatchIsUsable
  <1>1. InitD => DInv
    BY DInvEmpty DEF InitD
  <1>2. DInv /\ [NextD]_<<vars, dynVars>> => DInv'
    BY DInvStep
  <1>3. ASSUME DInv PROVE SampledBatchIsUsable
    <2> SUFFICES ASSUME sampling = "sampled" PROVE SampledBatchIsUsable!2
      BY DEF SampledBatchIsUsable
    <2>1. Cardinality(kept) >= Target
      <3>1. Cardinality(Rows) \in Nat /\ Cardinality(kept) \in Nat
        BY <1>3, RowsAssumption, FS_CardinalityType DEF DInv
      <3>2. CASE try_count = MaxTries
        BY <1>3, <3>2, FullTry DEF DInv, LastTryIsFull
      <3>3. CASE try_count # MaxTries
        BY <1>3, <3>1, <3>3, GroupsAssumption DEF DInv, MoreNeeded, Target
      <3> QED
        BY <3>2, <3>3
    <2>2. ASSUME NEW t \in kept
          PROVE  /\ {u.row : u \in Cohort(t)} = Members(GroupOf[t.row])
                 /\ (\E u \in Cohort(t) : u.reward # t.reward) \/ t.try = MaxTries - 1
      <3>1. {u.row : u \in Cohort(t)} = Members(GroupOf[t.row])
        <4>1. \A u \in Cohort(t) : u.row \in Members(GroupOf[t.row])
          BY <1>3 DEF DInv, Cohort, Members
        <4>2. \A r \in Members(GroupOf[t.row]) : \E u \in Cohort(t) : u.row = r
          BY <1>3 DEF DInv, WholeCohorts, Cohort, Members
        <4> QED
          BY <4>1, <4>2
      <3>2. (\E u \in Cohort(t) : u.reward # t.reward) \/ t.try = MaxTries - 1
        BY <1>3 DEF DInv, Contrasted, Same, Cohort
      <3> QED
        BY <3>1, <3>2
    <2> QED
      BY <2>1, <2>2
  <1> QED
    BY <1>1, <1>2, <1>3, PTL DEF SpecD

=============================================================================
