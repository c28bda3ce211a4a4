------------------------- MODULE OfficialTierProofs -------------------------
(***************************************************************************)
(* The tier over any number of runs and faults: its retries are those of   *)
(* the retry policy, no attempt is begun beside a pending cleanup, and the *)
(* record and the exit code say what is so.                                *)
(***************************************************************************)
EXTENDS OfficialTier, FiniteSetTheorems, TLAPS

-----------------------------------------------------------------------------
(* The retry policy for any limits, over any run of tiers: attempts are     *)
(* numbered the same way twice, verdicts are earned, and the loop ends.     *)

\* The attempts charged among the first n are finitely many.
LEMMA SpentFinite ==
  ASSUME NEW h, NEW n \in Nat
  PROVE  IsFiniteSet(Spent(h, n)) /\ Cardinality(Spent(h, n)) \in Nat
<1>1. IsFiniteSet(1..n) /\ Spent(h, n) \subseteq 1..n
  BY FS_Interval DEF Spent
<1> QED
  BY <1>1, FS_Subset, FS_CardinalityType

\* One more result adds at most itself to what was charged.
LEMMA SpentAppend ==
  ASSUME NEW h \in Seq(Tried), NEW x \in Tried
  PROVE  /\ \A n \in 0..Len(h) : Spent(Append(h, x), n) = Spent(h, n)
         /\ Cardinality(Spent(Append(h, x), Len(h) + 1))
              = Cardinality(Spent(h, Len(h)))
                  + (IF x.kind \in {"execution", "valid"} THEN 1 ELSE 0)
<1> DEFINE g == Append(h, x)
           l == Len(h)
<1>1. /\ l \in Nat
      /\ \A j \in 1..l : g[j] = h[j]
      /\ g[l + 1] = x
  OBVIOUS
<1> HIDE DEF g
<1>2. \A n \in 0..l : Spent(g, n) = Spent(h, n)
  BY <1>1 DEF Spent
<1>3. CASE x.kind \in {"execution", "valid"}
  <2>1. Spent(g, l + 1) = Spent(h, l) \cup {l + 1} /\ l + 1 \notin Spent(h, l)
    BY <1>1, <1>3 DEF Spent
  <2>2. Cardinality(Spent(h, l) \cup {l + 1}) = Cardinality(Spent(h, l)) + 1
    BY <1>1, <2>1, SpentFinite, FS_AddElement
  <2> QED
    BY <1>2, <1>3, <2>1, <2>2 DEF g
<1>4. CASE x.kind \notin {"execution", "valid"}
  <2>1. Spent(g, l + 1) = Spent(h, l)
    BY <1>1, <1>4 DEF Spent
  <2>2. Cardinality(Spent(h, l)) \in Nat
    BY <1>1, SpentFinite
  <2> QED
    BY <1>2, <1>4, <2>1, <2>2 DEF g
<1> QED
  BY <1>3, <1>4

-----------------------------------------------------------------------------
(* The invariant. *)

\* Who still tries has something left to try, has charged or counted every result,
\* and has seen nothing that ends a tier.
Undecided ==
  verdict = "trying" =>
    /\ official < MaxParticipantAttempts
    /\ infra < MaxInfrastructureFailures
    /\ \A i \in 1..Len(history) : /\ history[i].kind \in {"execution", "infrastructure"}
                                  /\ ~history[i].pending

\* Every result was charged to the participant or to the operator, but for a
\* disqualification, and never the last of both.
Accounted ==
  /\ Len(history) = official + infra + (IF verdict = "disqualified" THEN 1 ELSE 0)
  /\ verdict \in {"selected", "zero", "disqualified"} =>
       infra < MaxInfrastructureFailures
  /\ verdict \in {"unavailable", "disqualified"} => official < MaxParticipantAttempts

RetryInv ==
  RetryTypeOK /\ NumbersAgree /\ VerdictEarned /\ Undecided /\ Accounted

\* A tier starts with nothing charged.
LEMMA FreshInv ==
  ASSUME official = 0, infra = 0, history = <<>>, verdict = "trying"
  PROVE  RetryInv
<1>1. RetryTypeOK
  BY LimitsAssumption DEF RetryTypeOK
<1>2. Spent(history, Len(history)) = {}
  BY DEF Spent
<1>3. Cardinality(Spent(history, Len(history))) = 0
  BY <1>2, FS_EmptySet
<1>4. NumbersAgree
  BY <1>3 DEF NumbersAgree
<1>5. VerdictEarned /\ Undecided /\ Accounted
  BY LimitsAssumption DEF VerdictEarned, Undecided, Accounted
<1> QED
  BY <1>1, <1>4, <1>5 DEF RetryInv

\* What taking in a result does to the history.
LEMMA LogStep ==
  ASSUME RetryInv, NEW res \in Outcome, verdict = "trying", Log(res)
  PROVE  /\ history' \in Seq(Tried)
         /\ Len(history') = Len(history) + 1
         /\ \A i \in 1..Len(history) :
              /\ history'[i] = history[i]
              /\ history'[i].kind \in {"execution", "infrastructure"}
              /\ ~history'[i].pending
         /\ history'[Len(history) + 1].kind = res.kind
         /\ history'[Len(history) + 1].pending = res.pending
         /\ Cardinality(Spent(history', Len(history')))
              = official + (IF res.kind \in {"execution", "valid"} THEN 1 ELSE 0)
         /\ \A i \in 1..Len(history') : history'[i].number = RecordedNumber(history', i)
<1> DEFINE x == [kind |-> res.kind, pending |-> res.pending, number |-> official + 1]
           l == Len(history)
<1>1. x \in Tried /\ history \in Seq(Tried) /\ history' = Append(history, x)
  BY DEF RetryInv, RetryTypeOK, Log, Tried, Outcome
<1>2. x.kind = res.kind /\ x.pending = res.pending /\ x.number = official + 1
  OBVIOUS
<1> HIDE DEF x
<1>3. /\ history' \in Seq(Tried) /\ Len(history') = l + 1 /\ l \in Nat
      /\ \A i \in 1..l : history'[i] = history[i]
      /\ history'[l + 1] = x
  BY <1>1
<1>4. \A i \in 1..l : /\ history[i].kind \in {"execution", "infrastructure"}
                      /\ ~history[i].pending
  BY DEF RetryInv, Undecided
<1>5. /\ \A n \in 0..l : Spent(history', n) = Spent(history, n)
      /\ Cardinality(Spent(history', l + 1))
           = Cardinality(Spent(history, l))
               + (IF x.kind \in {"execution", "valid"} THEN 1 ELSE 0)
  BY <1>1, SpentAppend
<1>6. /\ official = Cardinality(Spent(history, l))
      /\ \A i \in 1..l : history[i].number = RecordedNumber(history, i)
  BY DEF RetryInv, NumbersAgree
<1>7. ASSUME NEW i \in 1..(l + 1)
      PROVE  history'[i].number = RecordedNumber(history', i)
  <2>1. Spent(history', i - 1) = Spent(history, i - 1)
    BY <1>3, <1>5
  <2>2. CASE i \in 1..l
    BY <1>3, <1>6, <2>1, <2>2 DEF RecordedNumber
  <2>3. CASE i = l + 1
    <3>1. i - 1 = l
      BY <1>3, <2>3
    <3> QED
      BY <1>2, <1>3, <1>6, <2>1, <2>3, <3>1 DEF RecordedNumber
  <2> QED
    BY <1>3, <2>2, <2>3
<1> QED
  BY <1>2, <1>3, <1>4, <1>5, <1>6, <1>7

\* Every result keeps the invariant.
LEMMA TryInv ==
  ASSUME RetryInv, NEW res \in Outcome, Try(res)
  PROVE  RetryInv'
<1> DEFINE l == Len(history)
<1>1. verdict = "trying" /\ Log(res)
  BY DEF Try, TryInfrastructure, TryExecution, TryValid, TryFairness
<1>2. /\ history' \in Seq(Tried) /\ Len(history') = l + 1
      /\ \A i \in 1..l : /\ history'[i].kind \in {"execution", "infrastructure"}
                         /\ ~history'[i].pending
      /\ history'[l + 1].kind = res.kind
      /\ history'[l + 1].pending = res.pending
      /\ Cardinality(Spent(history', l + 1))
           = official + (IF res.kind \in {"execution", "valid"} THEN 1 ELSE 0)
      /\ \A i \in 1..(l + 1) : history'[i].number = RecordedNumber(history', i)
  BY <1>1, LogStep
<1>3. /\ official \in Nat /\ infra \in Nat /\ l \in Nat /\ l = official + infra
      /\ official < MaxParticipantAttempts /\ infra < MaxInfrastructureFailures
  BY <1>1 DEF RetryInv, RetryTypeOK, Undecided, Accounted
<1>4. res.pending => res.kind = "infrastructure"
  BY DEF Outcome
<1>5. MaxParticipantAttempts \in Nat /\ MaxInfrastructureFailures \in Nat
  BY LimitsAssumption
<1>6. CASE TryInfrastructure(res)
  <2>1. /\ res.kind = "infrastructure" /\ infra' = infra + 1 /\ official' = official
        /\ verdict' = IF res.pending \/ infra + 1 >= MaxInfrastructureFailures
                      THEN "unavailable" ELSE "trying"
    BY <1>6 DEF TryInfrastructure
  <2>2. RetryTypeOK'
    BY <1>2, <1>3, <1>5, <2>1 DEF RetryTypeOK
  <2>3. NumbersAgree'
    BY <1>2, <1>3, <2>1 DEF NumbersAgree
  <2>4. VerdictEarned'
    BY <1>2, <1>3, <2>1 DEF VerdictEarned
  <2>5. Undecided' /\ Accounted'
    BY <1>2, <1>3, <1>5, <2>1 DEF Undecided, Accounted
  <2> QED
    BY <2>2, <2>3, <2>4, <2>5 DEF RetryInv
<1>7. CASE TryExecution(res)
  <2>1. /\ res.kind = "execution" /\ infra' = infra /\ official' = official + 1
        /\ verdict' = IF official + 1 < MaxParticipantAttempts
                      THEN "trying" ELSE "zero"
    BY <1>7 DEF TryExecution
  <2>2. RetryTypeOK'
    BY <1>2, <1>3, <1>5, <2>1 DEF RetryTypeOK
  <2>3. NumbersAgree'
    BY <1>2, <1>3, <2>1 DEF NumbersAgree
  <2>4. VerdictEarned'
    <3>1. ~history'[l + 1].pending
      BY <1>2, <1>4, <2>1
    <3>2. \A i \in 1..(l + 1) : /\ history'[i].kind \in {"execution", "infrastructure"}
                                /\ ~history'[i].pending
      BY <1>2, <1>3, <2>1, <3>1
    <3>3. verdict' = "zero" => official + 1 = MaxParticipantAttempts
      BY <1>3, <1>5, <2>1
    <3>4. Cardinality(Spent(history', Len(history'))) = official + 1
      BY <1>2, <2>1
    <3> QED
      BY <1>2, <2>1, <3>2, <3>3, <3>4 DEF VerdictEarned
  <2>5. Undecided' /\ Accounted'
    BY <1>2, <1>3, <1>4, <1>5, <2>1 DEF Undecided, Accounted
  <2> QED
    BY <2>2, <2>3, <2>4, <2>5 DEF RetryInv
<1>8. CASE TryValid(res)
  <2>1. /\ res.kind = "valid" /\ infra' = infra /\ official' = official + 1
        /\ verdict' = "selected"
    BY <1>8 DEF TryValid
  <2>2. RetryTypeOK'
    BY <1>2, <1>3, <1>5, <2>1 DEF RetryTypeOK
  <2>3. NumbersAgree'
    BY <1>2, <1>3, <2>1 DEF NumbersAgree
  <2>4. VerdictEarned'
    BY <1>2, <1>3, <1>5, <2>1 DEF VerdictEarned
  <2>5. Undecided' /\ Accounted'
    BY <1>2, <1>3, <1>5, <2>1 DEF Undecided, Accounted
  <2> QED
    BY <2>2, <2>3, <2>4, <2>5 DEF RetryInv
<1>9. CASE TryFairness(res)
  <2>1. /\ res.kind = "fairness" /\ infra' = infra /\ official' = official
        /\ verdict' = "disqualified"
    BY <1>9 DEF TryFairness
  <2>2. RetryTypeOK'
    BY <1>2, <1>3, <1>5, <2>1 DEF RetryTypeOK
  <2>3. NumbersAgree'
    BY <1>2, <1>3, <2>1 DEF NumbersAgree
  <2>4. VerdictEarned'
    BY <1>2, <1>3, <1>5, <2>1 DEF VerdictEarned
  <2>5. Undecided' /\ Accounted'
    BY <1>2, <1>3, <1>5, <2>1 DEF Undecided, Accounted
  <2> QED
    BY <2>2, <2>3, <2>4, <2>5 DEF RetryInv
<1> QED
  BY <1>6, <1>7, <1>8, <1>9 DEF Try

\* The invariant holds of every behaviour.
LEMMA RetryInvariant == RetrySpec => []RetryInv
<1>1. RetryInit => RetryInv
  BY FreshInv DEF RetryInit
<1>2. RetryInv /\ [RetryNext]_retryVars => RetryInv'
  <2> SUFFICES ASSUME RetryInv, [RetryNext]_retryVars PROVE RetryInv'
    OBVIOUS
  <2>1. CASE \E res \in Outcome : Try(res)
    BY <2>1, TryInv
  <2>2. CASE Afresh
    <3>1. (official = 0 /\ infra = 0 /\ history = <<>> /\ verdict = "trying"
             => RetryInv)'
      BY FreshInv, PTL
    <3> QED
      BY <2>2, <3>1 DEF Afresh
  <2>3. CASE UNCHANGED retryVars
    BY <2>3 DEF retryVars, RetryInv, RetryTypeOK, NumbersAgree, RecordedNumber,
                Spent, VerdictEarned, Undecided, Accounted
  <2> QED
    BY <2>1, <2>2, <2>3 DEF RetryNext
<1> QED
  BY <1>1, <1>2, PTL DEF RetrySpec

-----------------------------------------------------------------------------
(* The theorems. *)

\* NumbersAgree: the record derives from the history the very numbers the attempts
\* were run under.
THEOREM NumbersDerivable == RetrySpec => []NumbersAgree
<1>1. RetryInv => NumbersAgree
  BY DEF RetryInv
<1> QED
  BY <1>1, RetryInvariant, PTL

\* VerdictEarned: a tier scores zero only for failures of the participant, as many
\* as there are attempts, and nothing is tried after a verdict or a pending cleanup.
THEOREM VerdictsEarned == RetrySpec => []VerdictEarned
<1>1. RetryInv => VerdictEarned
  BY DEF RetryInv
<1> QED
  BY <1>1, RetryInvariant, PTL

\* AttemptsBounded: no run of a tier makes as many attempts as both limits allow
\* together.
THEOREM AttemptsLimited == RetrySpec => []AttemptsBounded
<1>1. RetryInv => AttemptsBounded
  BY LimitsAssumption
     DEF RetryInv, RetryTypeOK, Undecided, Accounted, AttemptsBounded
<1> QED
  BY <1>1, RetryInvariant, PTL

-----------------------------------------------------------------------------
(* The tier implements the policy. *)

\* A result of the official directory is a step of the policy.
LEMMA OfficialTries ==
  ASSUME NEW res, OfficialResult(res) PROVE Try(res)
BY DEF OfficialResult

\* The results an attempt that never began can have are results.
LEMMA UnbegunIsOutcome ==
  [kind |-> "infrastructure", pending |-> FALSE] \in Outcome
BY DEF Outcome, Kind

\* Every step of a tier is a step of the policy, or none of its business.
LEMMA TierRetries ==
  ASSUME Next PROVE [RetryNext]_retryVars
<1>1. CASE Enter
  BY <1>1 DEF Enter, RetryNext
<1>2. CASE Misconfigured \/ ResidueFound \/ Snapshot \/ Look \/ Resolve
  BY <1>2 DEF Misconfigured, ResidueFound, Snapshot, Look, Resolve
<1>3. CASE \E d \in Dir : Begin(d) \/ AttemptRaises(d)
  BY <1>3 DEF Begin, AttemptRaises
<1>4. CASE \E res \in Outcome : OfficialEnds(res)
  <2>1. PICK res \in Outcome : OfficialResult(res)
    BY <1>4 DEF OfficialEnds
  <2> QED
    BY <2>1, OfficialTries DEF RetryNext
<1>5. CASE \E res \in Outcome, a \in BOOLEAN : AuditEnds(res, a)
  BY <1>5 DEF AuditEnds, AuditResult
<1>6. CASE OfficialUnbegun
  BY <1>6, OfficialTries, UnbegunIsOutcome DEF OfficialUnbegun, RetryNext
<1>7. CASE AuditUnbegun
  BY <1>7 DEF AuditUnbegun, AuditResult
<1>8. CASE TurnedAway \/ Wipe \/ WriteRecord \/ OperatorWipes \/ Die
  BY <1>8 DEF TurnedAway, Wipe, WriteRecord, OperatorWipes, Die
<1>9. CASE \E d \in Dir : CleanupStarts(d) \/ CleanupForgets(d) \/ CleanupEnds(d)
  BY <1>9 DEF CleanupStarts, CleanupForgets, CleanupEnds
<1> QED
  BY <1>1, <1>2, <1>3, <1>4, <1>5, <1>6, <1>7, <1>8, <1>9 DEF Next, RunStep

\* RetrySpec: whatever happens around it, a tier is retried by the policy.
THEOREM PolicyImplemented == Spec => RetrySpec
<1>1. Init => RetryInit
  BY DEF Init
<1>2. [Next]_vars => [RetryNext]_retryVars
  BY TierRetries DEF vars, retryVars
<1> QED
  BY <1>1, <1>2, PTL DEF Spec, RetrySpec

\* NumbersAgree, VerdictEarned and AttemptsBounded: what the policy promises, a tier
\* keeps.
THEOREM TierKeepsPolicy == Spec => [](NumbersAgree /\ VerdictEarned /\ AttemptsBounded)
BY PolicyImplemented, NumbersDerivable, VerdictsEarned, AttemptsLimited, PTL

-----------------------------------------------------------------------------
(* No attempt beside a pending cleanup. *)

\* Between attempts no directory has a journal, and during one only its own may.
Quiet ==
  /\ journal = [d \in Dir |-> journal[d]]
  /\ phase \in {"resolve", "official", "audit"} =>
       \A d \in Dir : journal[d] = NoAttempt
  /\ \A d, e \in Dir : phase = Busy[d] /\ e # d => journal[e] = NoAttempt

\* An attempt leaves its directory's journal only together with a pending cleanup.
LEMMA EndsQuietly ==
  ASSUME Quiet, NEW d \in Dir, phase = Busy[d], NEW res, Ends(d, res)
  PROVE  /\ journal' = [e \in Dir |-> journal'[e]]
         /\ ~res.pending => \A e \in Dir : journal'[e] = NoAttempt
         /\ \A e \in Dir : journal'[e] \in {journal[e], NoAttempt}
BY DEF Quiet, Ends

\* Who was told of a pending cleanup does not try again.
LEMMA OfficialQuiet ==
  ASSUME NEW res \in Outcome, OfficialResult(res)
  PROVE  /\ phase' \in {"official", "audit", "wipe"}
         /\ res.pending => phase' = "wipe"
<1>1. Try(res)
  BY OfficialTries
<1>2. res.pending => res.kind = "infrastructure"
  BY DEF Outcome
<1>3. CASE TryInfrastructure(res)
  BY <1>3 DEF OfficialResult, TryInfrastructure
<1>4. CASE TryExecution(res) \/ TryValid(res) \/ TryFairness(res)
  BY <1>2, <1>4 DEF OfficialResult, TryExecution, TryValid, TryFairness
<1> QED
  BY <1>1, <1>3, <1>4 DEF Try

\* Nor does the audit.
LEMMA AuditQuiet ==
  ASSUME NEW res \in Outcome, NEW a \in BOOLEAN, AuditResult(res, a)
  PROVE  /\ phase' \in {"audit", "wipe"}
         /\ res.pending => phase' = "wipe"
BY DEF AuditResult, Outcome

\* Every step keeps the directories quiet, and begins an attempt only when they are.
LEMMA QuietStep ==
  ASSUME Quiet, Next
  PROVE  /\ Quiet'
         /\ \A d \in Dir : journal'[d] \notin {journal[d], NoAttempt} =>
              \A e \in Dir : journal[e] = NoAttempt
<1> USE DEF Dir, Busy
<1>1. CASE Enter
  BY <1>1 DEF Enter, Quiet, dirVars
<1>2. CASE Misconfigured \/ ResidueFound \/ Snapshot
  BY <1>2 DEF Misconfigured, ResidueFound, Snapshot, Quiet, dirVars
<1>3. CASE Look
  BY <1>3 DEF Look, Quiet, dirVars
<1>4. CASE Resolve
  BY <1>4 DEF Resolve, Quiet, dirVars
<1>5. CASE \E d \in Dir : Begin(d)
  <2>1. PICK d \in Dir : Begin(d)
    BY <1>5
  <2>2. \A e \in Dir : journal[e] = NoAttempt
    BY <2>1 DEF Begin, Quiet
  <2>3. /\ journal' = [journal EXCEPT ![d] = [run |-> run, dir |-> d]]
        /\ phase' = Busy[d]
    BY <2>1 DEF Begin
  <2>4. Quiet'
    <3>1. journal = [e \in Dir |-> journal[e]]
      BY DEF Quiet
    <3>2. journal' = [e \in Dir |-> journal'[e]]
      BY <2>3, <3>1
    <3>3. \A e \in Dir : e # d => journal'[e] = NoAttempt
      BY <2>2, <2>3, <3>1
    <3>4. phase' \in {"officialBusy", "auditBusy"}
          /\ \A e \in Dir : phase' = Busy[e] => e = d
      BY <2>3
    <3> QED
      BY <3>2, <3>3, <3>4 DEF Quiet
  <2> QED
    BY <2>2, <2>4
<1>6. CASE \E d \in Dir : AttemptRaises(d)
  <2>1. PICK d \in Dir : AttemptRaises(d)
    BY <1>6
  <2>2. phase' = "wipe" /\ journal' \in {journal, [journal EXCEPT ![d] = NoAttempt]}
    BY <2>1 DEF AttemptRaises
  <2> QED
    BY <2>2 DEF Quiet
<1>7. CASE \E res \in Outcome : OfficialEnds(res)
  <2>1. PICK res \in Outcome : OfficialEnds(res)
    BY <1>7
  <2>2. /\ phase = Busy["official"]
        /\ Ends("official", res) /\ OfficialResult(res)
    BY <2>1 DEF OfficialEnds
  <2>3. /\ journal' = [e \in Dir |-> journal'[e]]
        /\ ~res.pending => \A e \in Dir : journal'[e] = NoAttempt
        /\ \A e \in Dir : journal'[e] \in {journal[e], NoAttempt}
    BY <2>2, EndsQuietly
  <2>4. phase' \in {"official", "audit", "wipe"} /\ (res.pending => phase' = "wipe")
    BY <2>2, OfficialQuiet
  <2> QED
    BY <2>3, <2>4 DEF Quiet
<1>8. CASE \E res \in Outcome, a \in BOOLEAN : AuditEnds(res, a)
  <2>1. PICK res \in Outcome, a \in BOOLEAN : AuditEnds(res, a)
    BY <1>8
  <2>2. phase = Busy["audit"] /\ Ends("audit", res) /\ AuditResult(res, a)
    BY <2>1 DEF AuditEnds
  <2>3. /\ journal' = [e \in Dir |-> journal'[e]]
        /\ ~res.pending => \A e \in Dir : journal'[e] = NoAttempt
        /\ \A e \in Dir : journal'[e] \in {journal[e], NoAttempt}
    BY <2>2, EndsQuietly
  <2>4. phase' \in {"audit", "wipe"} /\ (res.pending => phase' = "wipe")
    BY <2>2, AuditQuiet
  <2> QED
    BY <2>3, <2>4 DEF Quiet
<1>9. CASE OfficialUnbegun
  <2>1. phase = "official" /\ journal' = journal
    BY <1>9 DEF OfficialUnbegun, Unbegun
  <2>2. phase' \in {"official", "audit", "wipe"}
    BY <1>9, OfficialQuiet, UnbegunIsOutcome DEF OfficialUnbegun
  <2> QED
    BY <2>1, <2>2 DEF Quiet
<1>10. CASE AuditUnbegun
  <2>1. phase = "audit" /\ journal' = journal
    BY <1>10 DEF AuditUnbegun, Unbegun
  <2>2. phase' \in {"audit", "wipe"}
    BY <1>10, AuditQuiet, UnbegunIsOutcome DEF AuditUnbegun
  <2> QED
    BY <2>1, <2>2 DEF Quiet
<1>11. CASE TurnedAway \/ Wipe \/ WriteRecord \/ OperatorWipes \/ Die
  BY <1>11 DEF TurnedAway, Wipe, WriteRecord, OperatorWipes, Die, Quiet, dirVars
<1>12. CASE \E d \in Dir : CleanupStarts(d) \/ CleanupForgets(d) \/ CleanupEnds(d)
  <2>1. PICK d \in Dir : CleanupStarts(d) \/ CleanupForgets(d) \/ CleanupEnds(d)
    BY <1>12
  <2>2. phase' = phase /\ journal' \in {journal, [journal EXCEPT ![d] = NoAttempt]}
    BY <2>1 DEF CleanupStarts, CleanupForgets, CleanupEnds
  <2> QED
    BY <2>2 DEF Quiet
<1> QED
  BY <1>1, <1>2, <1>3, <1>4, <1>5, <1>6, <1>7, <1>8, <1>9, <1>10, <1>11, <1>12
  DEF Next, RunStep

\* SiblingsQuiet: an attempt is begun only when neither directory has a journal,
\* of this run or of one before it.
THEOREM NoneBesidePending == Spec => SiblingsQuiet
<1>1. Init => Quiet
  BY DEF Init, Quiet, Busy, Dir
<1>2. Quiet /\ [Next]_vars => Quiet'
  <2>1. CASE UNCHANGED vars
    BY <2>1 DEF vars, dirVars, Quiet
  <2> QED
    BY <2>1, QuietStep
<1>3. Quiet /\ [Next]_vars =>
        [\A d \in Dir : journal'[d] \notin {journal[d], NoAttempt} =>
           \A e \in Dir : journal[e] = NoAttempt]_vars
  BY QuietStep
<1> QED
  BY <1>1, <1>2, <1>3, PTL DEF Spec, SiblingsQuiet

-----------------------------------------------------------------------------
(* What record and exit code tell. *)

Verdicts == {"trying", "selected", "disqualified", "unavailable", "zero"}

Sorted ==
  /\ run \in Nat /\ published \in [Dir -> Nat]
  /\ raised \in {"none", "pending", "infrastructure", "preflight",
                 "configuration", "unforeseen"}
  /\ auditStatus \in {"none", "passed", "review_required", "inconclusive"}
  /\ verdict \in Verdicts

\* Never two journals.
OneJournal == journal["official"] = NoAttempt \/ journal["audit"] = NoAttempt

\* Nothing was raised before it is, and a verdict is what its phases follow.
Underway ==
  /\ phase \in {"check", "look", "resolve", "official", "officialBusy",
                "audit", "auditBusy"} => raised = "none"
  /\ phase \in {"check", "look", "resolve", "official", "officialBusy"} =>
       verdict = "trying"
  /\ phase \in {"audit", "auditBusy"} => verdict = "selected"

\* official/submission.json is the one that was selected, or is gone.
Held ==
  /\ phase = "officialBusy" => published["official"] = 0
  /\ phase \in {"audit", "auditBusy", "wipe", "record"} /\ verdict = "selected" =>
       published["official"] = run
  /\ phase \in {"wipe", "record"} /\ verdict \in {"zero", "disqualified"} =>
       published["official"] = 0

Inconclusive ==
  \/ verdict = "unavailable"
  \/ verdict = "selected" /\ auditStatus = "inconclusive"

\* How a run ends that nothing, or an old journal, or the image stopped.
Leaving ==
  phase \in {"wipe", "record"} =>
    /\ raised = "none" =>
         /\ verdict # "trying"
         /\ Inconclusive \/ Pending = {}
         /\ Pending \subseteq left \/ NoAttempt \in left
    /\ raised = "preflight" => Pending = {}
    /\ raised = "pending" => Pending \subseteq {refused}

Wiped == phase = "record" /\ raised \in {"none", "preflight"} => ~residue

Left ==
  /\ SuccessNeverMasks /\ PendingIsNamed /\ VerdictComplete /\ ExitTellsRecord

TierInv ==
  /\ Sorted /\ Quiet /\ OneJournal /\ Underway /\ Held /\ Leaving /\ Wiped /\ Left

\* At the start nothing was ever run.
LEMMA TierStarts == ASSUME Init PROVE TierInv
<1>1. Quiet /\ OneJournal /\ Pending = {}
  BY DEF Init, Quiet, OneJournal, Pending, Busy, Dir
<1> QED
  BY <1>1 DEF Init, RetryInit, NoRecord, TierInv, Sorted, Verdicts, Underway, Held, Leaving,
     Wiped, Left, SuccessNeverMasks, PendingIsNamed, VerdictComplete, ExitTellsRecord

\* What is said of an idle root does not concern a run.
LEMMA Inside == ASSUME phase' # "idle" PROVE Left'
BY DEF Left, SuccessNeverMasks, PendingIsNamed, VerdictComplete, ExitTellsRecord

\* Steps that only go on, before the first attempt.
LEMMA EntranceKeeps ==
  ASSUME TierInv, Quiet', Enter \/ Misconfigured \/ ResidueFound \/ Snapshot \/ Look \/ Resolve
  PROVE  TierInv'
<1> USE DEF TierInv
<1>1. phase' # "idle"
  BY DEF Enter, Misconfigured, ResidueFound, Snapshot, Look, Resolve
<1>2. Left'
  BY <1>1, Inside
<1>3. CASE Enter
  BY <1>2, <1>3 DEF Enter, Afresh, dirVars, Sorted, Verdicts, OneJournal, Underway, Held,
     Leaving, Wiped
<1>4. CASE Misconfigured \/ ResidueFound
  <2>1. /\ raised' \in {"configuration", "infrastructure"} /\ phase' \in {"record", "wipe"}
        /\ phase \in {"check", "look"}
        /\ UNCHANGED <<run, auditStatus, verdict, journal, published>>
    BY <1>4 DEF Misconfigured, ResidueFound, Raise, dirVars, retryVars
  <2> QED
    BY <1>2, <2>1 DEF Sorted, OneJournal, Underway, Wiped, Leaving, Held
<1>5. CASE Snapshot
  <2>1. /\ \/ phase' = "look" /\ raised' = raised
           \/ phase' = "wipe" /\ raised' = "infrastructure"
        /\ phase = "check"
        /\ UNCHANGED <<run, auditStatus, verdict, journal, published>>
    BY <1>5 DEF Snapshot, Raise, dirVars, retryVars
  <2> QED
    BY <1>2, <2>1 DEF Sorted, OneJournal, Underway, Wiped, Leaving, Held
<1>6. CASE Look
  <2>1. /\ phase = "look"
        /\ UNCHANGED <<run, auditStatus, verdict, journal, published>>
    BY <1>6 DEF Look, dirVars, retryVars
  <2>2. \/ phase' = "resolve" /\ raised' = raised
        \/ phase' = "wipe" /\ raised' = "infrastructure"
        \/ phase' = "wipe" /\ raised' = "pending"
           /\ \E d \in Dir : refused' = journal[d] /\ journal[d] # NoAttempt
    BY <1>6 DEF Look, Raise
  <2>3. Leaving'
    BY <2>1, <2>2 DEF OneJournal, Leaving, Pending, Dir
  <2> QED
    BY <1>2, <2>1, <2>2, <2>3 DEF Sorted, OneJournal, Underway, Wiped, Held
<1>7. CASE Resolve
  <2>1. /\ phase = "resolve"
        /\ \/ phase' = "official" /\ raised' = raised
           \/ phase' = "wipe" /\ raised' \in {"preflight", "configuration", "infrastructure"}
        /\ UNCHANGED <<run, auditStatus, verdict, journal, published>>
    BY <1>7 DEF Resolve, Raise, dirVars, retryVars
  <2>2. Pending' = {}
    BY <2>1 DEF Quiet, Pending
  <2> QED
    BY <1>2, <2>1, <2>2 DEF Sorted, OneJournal, Underway, Wiped, Leaving, Held
<1> QED
  BY <1>3, <1>4, <1>5, <1>6, <1>7

\* An attempt begins, or is left by an exception.
LEMMA AttemptKeeps ==
  ASSUME TierInv, Quiet', NEW d \in Dir, Begin(d) \/ AttemptRaises(d)
  PROVE  TierInv'
<1> USE DEF TierInv
<1>1. CASE Begin(d)
  <2>1. /\ phase = d /\ phase' = Busy[d]
        /\ published' = [published EXCEPT ![d] = 0]
        /\ journal' = [journal EXCEPT ![d] = [run |-> run, dir |-> d]]
        /\ UNCHANGED <<run, raised, auditStatus, verdict>>
    BY <1>1 DEF Begin, tierVars, retryVars
  <2>2. \A e \in Dir : journal[e] = NoAttempt
    BY <2>1 DEF Quiet, Dir
  <2>3. OneJournal'
    BY <2>1, <2>2 DEF OneJournal, Dir, Quiet
  <2>4. phase' \in {"officialBusy", "auditBusy"} /\ phase' # "idle"
    BY <2>1 DEF Busy, Dir
  <2>5. Sorted' /\ Underway'
    BY <2>1 DEF Sorted, Underway, Busy, Dir
  <2>6. Held'
    BY <2>1 DEF Sorted, Underway, Held, Busy, Dir
  <2> QED
    BY <2>3, <2>4, <2>5, <2>6, Inside DEF Leaving, Wiped
<1>2. CASE AttemptRaises(d)
  <2>1. /\ phase = Busy[d] /\ phase' = "wipe"
        /\ raised' \in {"configuration", "unforeseen"}
        /\ journal' \in {journal, [journal EXCEPT ![d] = NoAttempt]}
        /\ UNCHANGED <<run, auditStatus, verdict, published>>
    BY <1>2 DEF AttemptRaises, retryVars
  <2>2. OneJournal'
    BY <2>1 DEF OneJournal, Dir, Quiet
  <2>3. Held'
    BY <2>1 DEF Held, Underway, Busy, Dir
  <2> QED
    BY <2>1, <2>2, <2>3, Inside DEF Sorted, Underway, Leaving, Wiped
<1> QED
  BY <1>1, <1>2

\* What run_with_retry makes of a result: who is left without a verdict goes on, a
\* pending cleanup is unavailable, a submission is selected when it was valid.
LEMMA OfficialDecides ==
  ASSUME NEW res \in Outcome, OfficialResult(res)
  PROVE  /\ verdict = "trying" /\ verdict' \in Verdicts
         /\ verdict' = "trying" => phase' = "official"
         /\ phase' = "audit" => verdict' = "selected"
         /\ phase' \in {"official", "audit", "wipe"}
         /\ phase' = "official" => verdict' = "trying"
         /\ res.pending => verdict' = "unavailable"
         /\ verdict' = "selected" <=> res.kind = "valid"
         /\ verdict' \in {"zero", "disqualified"} => res.kind \in {"execution", "fairness"}
         /\ UNCHANGED <<run, raised, refused, auditStatus, residue>>
<1>1. Try(res) /\ UNCHANGED <<run, raised, refused, auditStatus, residue>>
  BY OfficialTries DEF OfficialResult
<1>2. res.pending => res.kind = "infrastructure"
  BY DEF Outcome
<1>3. CASE TryInfrastructure(res)
  BY <1>1, <1>3 DEF OfficialResult, TryInfrastructure, Verdicts
<1>4. CASE TryExecution(res)
  BY <1>1, <1>2, <1>4 DEF OfficialResult, TryExecution, Verdicts
<1>5. CASE TryValid(res) \/ TryFairness(res)
  BY <1>1, <1>2, <1>5 DEF OfficialResult, TryValid, TryFairness, Verdicts
<1> QED
  BY <1>1, <1>3, <1>4, <1>5 DEF Try

\* An attempt ends: its journal is gone, or it is named among those left.
LEMMA EndsNamed ==
  ASSUME Quiet, NEW d \in Dir, phase = Busy[d], NEW res, Ends(d, res)
  PROVE  /\ ~res.pending => Pending' = {}
         /\ Pending' \subseteq left' \/ NoAttempt \in left' \/ Pending' = {}
         /\ OneJournal'
         /\ published' = [published EXCEPT ![d] = IF res.kind = "valid" THEN run ELSE @]
<1>1. \A e \in Dir : e # d => journal[e] = NoAttempt /\ journal'[e] = NoAttempt
  BY DEF Quiet, Ends
<1>2. ~res.pending => \A e \in Dir : journal'[e] = NoAttempt
  BY EndsQuietly
<1>3. CASE journal' = journal /\ \E named \in {journal[d], NoAttempt} : left' = left \cup {named}
  BY <1>1, <1>2, <1>3 DEF Pending, OneJournal, Dir, Ends
<1>4. CASE journal' = [journal EXCEPT ![d] = NoAttempt]
  BY <1>1, <1>2, <1>4 DEF Pending, OneJournal, Dir, Ends, Quiet
<1> QED
  BY <1>3, <1>4 DEF Ends

\* The official attempts.
LEMMA OfficialKeeps ==
  ASSUME TierInv, Quiet', (\E res \in Outcome : OfficialEnds(res)) \/ OfficialUnbegun
  PROVE  TierInv'
<1> USE DEF TierInv
<1>1. CASE \E res \in Outcome : OfficialEnds(res)
  <2>1. PICK res \in Outcome :
          phase = "officialBusy" /\ Ends("official", res) /\ OfficialResult(res)
    BY <1>1 DEF OfficialEnds
  <2>2. /\ ~res.pending => Pending' = {}
        /\ Pending' \subseteq left' \/ NoAttempt \in left' \/ Pending' = {}
        /\ OneJournal'
        /\ published' = [published EXCEPT !["official"] = IF res.kind = "valid" THEN run ELSE @]
    BY <2>1, EndsNamed DEF Busy, Dir
  <2>3. /\ verdict' \in Verdicts
        /\ verdict' = "trying" => phase' = "official"
        /\ phase' = "audit" => verdict' = "selected"
        /\ phase' \in {"official", "audit", "wipe"}
        /\ phase' = "official" => verdict' = "trying"
        /\ res.pending => verdict' = "unavailable"
        /\ verdict' = "selected" <=> res.kind = "valid"
        /\ UNCHANGED <<run, raised, refused, auditStatus, residue>>
    BY <2>1, OfficialDecides
  <2>4. raised = "none" /\ published["official"] = 0
    BY <2>1 DEF Underway, Held
  <2>5. Sorted'
    BY <2>2, <2>3 DEF Sorted
  <2>6. Held'
    BY <2>2, <2>3, <2>4 DEF Held, Sorted, Dir
  <2>7. Leaving'
    BY <2>2, <2>3, <2>4 DEF Leaving, Inconclusive
  <2> QED
    BY <2>2, <2>3, <2>4, <2>5, <2>6, <2>7, Inside DEF Underway, Wiped
<1>2. CASE OfficialUnbegun
  <2> DEFINE res == [kind |-> "infrastructure", pending |-> FALSE]
  <2>1. /\ phase = "official" /\ journal' = journal
        /\ published' \in {published, [published EXCEPT !["official"] = 0]}
        /\ OfficialResult(res)
    BY <1>2 DEF OfficialUnbegun, Unbegun
  <2>2. /\ verdict' \in Verdicts \ {"selected", "zero", "disqualified"}
        /\ verdict' = "trying" => phase' = "official"
        /\ phase' \in {"official", "wipe"}
        /\ phase' = "official" => verdict' = "trying"
        /\ UNCHANGED <<run, raised, refused, auditStatus, residue>>
    <3>1. res \in Outcome /\ res.kind = "infrastructure"
      BY UnbegunIsOutcome
    <3> HIDE DEF res
    <3> QED
      BY <2>1, <3>1, OfficialDecides
  <2>3. Pending' = {} /\ OneJournal'
    BY <2>1 DEF Quiet, Pending, OneJournal, Dir
  <2>4. raised = "none"
    BY <2>1 DEF Underway
  <2>5. Sorted' /\ Held'
    BY <2>1, <2>2 DEF Sorted, Held, Dir
  <2> QED
    BY <2>2, <2>3, <2>4, <2>5, Inside DEF Underway, Leaving, Wiped
<1> QED
  BY <1>1, <1>2

\* The attempts of the audit.
LEMMA AuditKeeps ==
  ASSUME TierInv, Quiet',
         (\E res \in Outcome, a \in BOOLEAN : AuditEnds(res, a)) \/ AuditUnbegun
  PROVE  TierInv'
<1> USE DEF TierInv
<1>1. CASE \E res \in Outcome, a \in BOOLEAN : AuditEnds(res, a)
  <2>1. PICK res \in Outcome, a \in BOOLEAN :
          phase = "auditBusy" /\ Ends("audit", res) /\ AuditResult(res, a)
    BY <1>1 DEF AuditEnds
  <2>2. /\ ~res.pending => Pending' = {}
        /\ Pending' \subseteq left' \/ NoAttempt \in left' \/ Pending' = {}
        /\ OneJournal'
        /\ published' = [published EXCEPT !["audit"] = IF res.kind = "valid" THEN run ELSE @]
    BY <2>1, EndsNamed DEF Busy, Dir
  <2>3. /\ phase' \in {"audit", "wipe"}
        /\ res.pending => auditStatus' = "inconclusive"
        /\ auditStatus' \in {auditStatus, "passed", "review_required", "inconclusive"}
        /\ UNCHANGED <<run, raised, refused, verdict, residue>>
    BY <2>1 DEF AuditResult, Outcome, retryVars
  <2>4. raised = "none" /\ verdict = "selected" /\ published["official"] = run
    BY <2>1 DEF Underway, Held
  <2>5. Sorted' /\ Held'
    BY <2>2, <2>3, <2>4 DEF Sorted, Held, Dir
  <2>6. Leaving'
    BY <2>2, <2>3, <2>4 DEF Leaving, Inconclusive
  <2> QED
    BY <2>2, <2>3, <2>4, <2>5, <2>6, Inside DEF Underway, Wiped
<1>2. CASE AuditUnbegun
  <2>1. /\ phase = "audit" /\ journal' = journal
        /\ published' \in {published, [published EXCEPT !["audit"] = 0]}
        /\ phase' \in {"audit", "wipe"}
        /\ auditStatus' \in {auditStatus, "inconclusive"}
        /\ UNCHANGED <<run, raised, refused, verdict, residue>>
    BY <1>2 DEF AuditUnbegun, Unbegun, AuditResult, retryVars
  <2>2. Pending' = {} /\ OneJournal'
    BY <2>1 DEF Quiet, Pending, OneJournal, Dir
  <2>3. raised = "none" /\ verdict = "selected" /\ published["official"] = run
    BY <2>1 DEF Underway, Held
  <2>4. Sorted' /\ Held'
    BY <2>1, <2>3 DEF Sorted, Held, Dir
  <2> QED
    BY <2>1, <2>2, <2>3, <2>4, Inside DEF Underway, Leaving, Wiped
<1> QED
  BY <1>1, <1>2

\* The private input is deleted, or an operator failure is raised.
LEMMA WipeKeeps == ASSUME TierInv, Wipe PROVE TierInv'
<1>1. /\ phase = "wipe" /\ phase' = "record"
      /\ \/ residue' = FALSE /\ raised' = raised
         \/ raised' = "infrastructure"
      /\ UNCHANGED <<run, refused, auditStatus, verdict, left, journal, published>>
  BY DEF Wipe, Raise, dirVars, retryVars
<1>2. Sorted' /\ OneJournal' /\ Quiet' /\ Underway' /\ Held' /\ Wiped'
  BY <1>1 DEF TierInv, Sorted, OneJournal, Quiet, Underway, Held, Wiped, Busy, Dir
<1>3. Leaving'
  BY <1>1 DEF TierInv, Leaving, Inconclusive, Pending
<1> QED
  BY <1>1, <1>2, <1>3, Inside DEF TierInv

\* The record is written, or not, and the exit code follows.
LEMMA RecordKeeps == ASSUME TierInv, WriteRecord PROVE TierInv'
<1>1. /\ phase = "record" /\ phase' = "idle"
      /\ UNCHANGED <<run, raised, refused, auditStatus, verdict, left, journal, published, residue>>
  BY DEF WriteRecord, tierVars, dirVars, retryVars
<1>2. Sorted' /\ OneJournal' /\ Quiet' /\ Underway' /\ Held' /\ Wiped' /\ Leaving'
  BY <1>1 DEF TierInv, Sorted, OneJournal, Quiet, Underway, Held, Wiped, Leaving, Busy, Dir
<1> SUFFICES Left'
  BY <1>2 DEF TierInv
<1>3. CASE exit' = "4" /\ reported' = FALSE
  BY <1>3 DEF Left, SuccessNeverMasks, PendingIsNamed, VerdictComplete, ExitTellsRecord
<1>4. CASE record' = NewRecord /\ exit' = ExitCode /\ reported' = (raised # "unforeseen")
  <2>1. /\ Pending' = Pending
        /\ TierStatus \in Status \ {"none", "configuration_error",
                                    "submission_preflight_rejected"}
    BY <1>1 DEF Pending, TierStatus, Status
  <2>2. CASE raised = "none"
    <3>1. /\ record'.status = TierStatus /\ record'.names = left /\ record'.run = run
          /\ exit' = IF TierStatus \in {"valid", "tier_score_zero", "disqualified"} THEN "0"
                     ELSE IF TierStatus \in {"review_required", "audit_skipped"} THEN "5"
                     ELSE "4"
      BY <1>4, <2>2 DEF NewRecord, ExitCode
    <3>2. /\ verdict # "trying" /\ ~residue
          /\ Inconclusive \/ Pending = {}
          /\ Pending \subseteq left \/ NoAttempt \in left
      BY <1>1, <2>2 DEF TierInv, Leaving, Wiped
    <3>3. /\ Inconclusive <=> TierStatus \in {"infrastructure_unavailable",
                                              "audit_inconclusive_infrastructure"}
          /\ TierStatus = "valid" => verdict = "selected" /\ auditStatus = "passed"
          /\ TierStatus \in {"tier_score_zero", "disqualified"} => verdict \in {"zero", "disqualified"}
      BY <3>2 DEF TierInv, Sorted, Verdicts, TierStatus, Inconclusive
    <3>4. TierStatus \in {"valid", "tier_score_zero", "disqualified"} =>
            published["official"] = IF TierStatus = "valid" THEN run ELSE 0
      BY <1>1, <3>3 DEF TierInv, Held
    <3>5. SuccessNeverMasks' /\ PendingIsNamed'
      BY <1>1, <2>1, <3>1, <3>2, <3>3 DEF SuccessNeverMasks, PendingIsNamed
    <3>6. VerdictComplete'
      BY <1>1, <2>1, <3>1, <3>2, <3>3, <3>4 DEF VerdictComplete
    <3>7. ExitTellsRecord'
      BY <2>1, <3>1 DEF ExitTellsRecord, Status
    <3> QED
      BY <3>5, <3>6, <3>7 DEF Left
  <2>3. CASE raised = "pending"
    <3>1. /\ exit' = "4"
          /\ record'.status \in {"infrastructure_unavailable", "audit_inconclusive_infrastructure"}
          /\ refused \in record'.names
      BY <1>4, <2>3 DEF NewRecord, ExitCode, Matches
    <3>2. Pending \subseteq {refused}
      BY <1>1, <2>3 DEF TierInv, Leaving
    <3> QED
      BY <1>1, <2>1, <2>3, <3>1, <3>2
      DEF Left, SuccessNeverMasks, PendingIsNamed, VerdictComplete, ExitTellsRecord
  <2>4. CASE raised \in {"infrastructure", "configuration", "unforeseen"}
    BY <1>1, <1>4, <2>4 DEF NewRecord, ExitCode, Left, SuccessNeverMasks, PendingIsNamed,
       VerdictComplete, ExitTellsRecord
  <2>5. CASE raised = "preflight"
    <3>1. /\ exit' = "6" /\ record'.status = "submission_preflight_rejected" /\ record'.run = run
      BY <1>4, <2>5 DEF NewRecord, ExitCode
    <3>2. Pending = {} /\ ~residue
      BY <1>1, <2>5 DEF TierInv, Leaving, Wiped
    <3> QED
      BY <1>1, <2>1, <2>5, <3>1, <3>2
      DEF Left, SuccessNeverMasks, PendingIsNamed, VerdictComplete, ExitTellsRecord
  <2> QED
    BY <2>2, <2>3, <2>4, <2>5 DEF TierInv, Sorted
<1> QED
  BY <1>3, <1>4 DEF WriteRecord

\* Beside a run, or between two: journals only go, and neither a kill nor a run that was
\* turned away claims anything of the record.
LEMMA OthersKeep ==
  ASSUME TierInv, Quiet',
         TurnedAway \/ OperatorWipes \/ Die
           \/ (\E d \in Dir : CleanupStarts(d) \/ CleanupForgets(d) \/ CleanupEnds(d))
  PROVE  TierInv'
<1> USE DEF TierInv
<1>1. CASE OperatorWipes
  <2>1. /\ phase = "idle" /\ residue' = FALSE
        /\ UNCHANGED <<run, phase, raised, refused, auditStatus, verdict, left, journal,
                       published, record, exit, reported>>
    BY <1>1 DEF OperatorWipes, tierVars, dirVars, retryVars
  <2> QED
    BY <2>1 DEF Sorted, OneJournal, Underway, Held, Leaving, Inconclusive, Wiped, Pending, Left,
       SuccessNeverMasks, PendingIsNamed, VerdictComplete, ExitTellsRecord
<1>2. CASE Die
  <2>1. /\ phase' = "idle" /\ exit' = "killed" /\ reported' = FALSE
        /\ UNCHANGED <<run, raised, auditStatus, verdict, journal, published>>
    BY <1>2 DEF Die, tierVars, retryVars
  <2>2. Left'
    BY <2>1 DEF Left, SuccessNeverMasks, PendingIsNamed, VerdictComplete, ExitTellsRecord
  <2> QED
    BY <2>1, <2>2 DEF Sorted, OneJournal, Underway, Held, Leaving, Wiped
<1>3. CASE \E d \in Dir : CleanupStarts(d) \/ CleanupForgets(d) \/ CleanupEnds(d)
  <2>1. PICK d \in Dir : CleanupStarts(d) \/ CleanupForgets(d) \/ CleanupEnds(d)
    BY <1>3
  <2>2. /\ UNCHANGED <<run, phase, raised, refused, auditStatus, verdict, left,
                       published, residue, record, exit, reported>>
        /\ journal' \in {journal, [journal EXCEPT ![d] = NoAttempt]}
    BY <2>1 DEF CleanupStarts, CleanupForgets, CleanupEnds, tierVars, retryVars
  <2>3. Pending' \subseteq Pending /\ OneJournal'
    BY <2>2 DEF Quiet, Pending, OneJournal, Dir
  <2>4. Sorted' /\ Underway' /\ Held' /\ Wiped'
    BY <2>2 DEF Sorted, Underway, Held, Wiped
  <2>5. Leaving'
    BY <2>2, <2>3 DEF Leaving, Inconclusive
  <2>6. Left'
    BY <2>2, <2>3 DEF Left, SuccessNeverMasks, PendingIsNamed, VerdictComplete, ExitTellsRecord
  <2> QED
    BY <2>3, <2>4, <2>5, <2>6
<1>4. CASE TurnedAway
  <2>1. /\ phase' = "idle" /\ phase = "idle" /\ exit' \in {"2", "4"} /\ reported' = FALSE
        /\ UNCHANGED <<run, raised, auditStatus, verdict, journal, published>>
    BY <1>4 DEF TurnedAway, tierVars, dirVars, retryVars
  <2>2. Left'
    BY <2>1 DEF Left, SuccessNeverMasks, PendingIsNamed, VerdictComplete, ExitTellsRecord
  <2> QED
    BY <2>1, <2>2 DEF Sorted, OneJournal, Underway, Held, Leaving, Wiped
<1> QED
  BY <1>1, <1>2, <1>3, <1>4

\* The invariant holds always.
LEMMA TierInvariant == Spec => []TierInv
<1>1. Init => TierInv
  BY TierStarts
<1>2. TierInv /\ [Next]_vars => TierInv'
  <2> SUFFICES ASSUME TierInv, [Next]_vars PROVE TierInv'
    OBVIOUS
  <2>1. CASE UNCHANGED vars
    <3>1. Sorted' /\ Quiet' /\ OneJournal' /\ Underway' /\ Held' /\ Leaving' /\ Wiped'
      BY <2>1 DEF vars, tierVars, dirVars, retryVars, TierInv, Sorted, Quiet, OneJournal, Underway,
         Held, Leaving, Inconclusive, Wiped, Pending
    <3>2. Left'
      BY <2>1 DEF vars, tierVars, dirVars, TierInv, Pending, Left, SuccessNeverMasks,
         PendingIsNamed, VerdictComplete, ExitTellsRecord
    <3> QED
      BY <3>1, <3>2 DEF TierInv
  <2>2. CASE Next
    <3>1. Quiet'
      BY <2>2, QuietStep DEF TierInv
    <3> QED
      BY <2>2, <3>1, EntranceKeeps, AttemptKeeps, OfficialKeeps, AuditKeeps, WipeKeeps,
         RecordKeeps, OthersKeep DEF Next, RunStep
  <2> QED
    BY <2>1, <2>2
<1> QED
  BY <1>1, <1>2, PTL DEF Spec

\* SuccessNeverMasks: an old record of success never hides a pending cleanup, for
\* every number of runs and faults.
THEOREM SuccessMasksNothing == Spec => []SuccessNeverMasks
<1>1. TierInv => SuccessNeverMasks
  BY DEF TierInv, Left
<1> QED
  BY <1>1, TierInvariant, PTL

\* PendingIsNamed: the record of a run that ended because of a journal names the
\* attempt the journal names, or says that it could not.
THEOREM PendingOnRecord == Spec => []PendingIsNamed
<1>1. TierInv => PendingIsNamed
  BY DEF TierInv, Left
<1> QED
  BY <1>1, TierInvariant, PTL

\* VerdictComplete: beside a verdict on the submission there is no private input and
\* no journal, and official/submission.json is the one it is about.
THEOREM VerdictsComplete == Spec => []VerdictComplete
<1>1. TierInv => VerdictComplete
  BY DEF TierInv, Left
<1> QED
  BY <1>1, TierInvariant, PTL

\* ExitTellsRecord: what an exit code says is on the record, unless the run was turned away
\* or its record could not be written, which only 2 and 4 leave open.
THEOREM ExitsTell == Spec => []ExitTellsRecord
<1>1. TierInv => ExitTellsRecord
  BY DEF TierInv, Left
<1> QED
  BY <1>1, TierInvariant, PTL

-----------------------------------------------------------------------------
(* Types. *)

\* The policy's variables are typed by the policy; the audit counts to its limit.
Typed ==
  /\ TypeOK /\ verdict \in Verdicts
  /\ phase # "idle" => run > 0
  /\ phase \notin {"idle", "audit", "auditBusy", "wipe", "record"} => auditFailures = 0
  /\ phase \in {"audit", "auditBusy"} => auditFailures < MaxInfrastructureFailures

LEMMA EndsTyped ==
  ASSUME TypeOK, NEW d \in Dir, NEW res \in Outcome, Ends(d, res) \/ Unbegun(d)
  PROVE  /\ journal' \in [Dir -> Attempt \cup {NoAttempt}]
         /\ holder' \in [Dir -> {"nobody", "run", "cleanup"}]
         /\ published' \in [Dir -> 0..MaxRuns]
         /\ left' \subseteq Attempt \cup {NoAttempt}
         /\ faults' \in 0..MaxFaults
<1>1. faults' \in 0..MaxFaults
  BY BoundsAssumption DEF Ends, Unbegun, Fault, Calm, TypeOK
<1>2. CASE Ends(d, res)
  BY <1>1, <1>2, BoundsAssumption DEF Ends, TypeOK
<1>3. CASE Unbegun(d)
  BY <1>1, <1>3, BoundsAssumption DEF Unbegun, TypeOK
<1> QED
  BY <1>2, <1>3

LEMMA TypedStep == ASSUME Typed, RetryTypeOK', Next PROVE Typed'
<1> USE BoundsAssumption, LimitsAssumption DEF Typed, TypeOK
<1>1. CASE Enter
  <2>1. exit' = "none" /\ reported' \in BOOLEAN /\ wanted' \in BOOLEAN
    BY <1>1 DEF Enter
  <2>2. run' \in 0..MaxRuns /\ run' > 0 /\ refused' = NoAttempt /\ left' = {}
    BY <1>1 DEF Enter
  <2>3. /\ phase' = "check" /\ raised' = "none" /\ auditFailures' = 0 /\ auditStatus' = "none"
        /\ verdict' = "trying" /\ UNCHANGED <<journal, holder, published, residue, record, faults>>
    BY <1>1 DEF Enter, Afresh, Calm, dirVars
  <2> QED
    BY <2>1, <2>2, <2>3 DEF Phase, Verdicts
<1>2. CASE Misconfigured \/ ResidueFound \/ Snapshot
  <2>1. residue' \in BOOLEAN
    BY <1>2 DEF Misconfigured, ResidueFound, Snapshot
  <2>2. faults' \in 0..MaxFaults
    BY <1>2 DEF Misconfigured, ResidueFound, Snapshot, Calm, Fault
  <2> QED
    BY <1>2, <2>1, <2>2 DEF Misconfigured, ResidueFound, Snapshot, Raise, Phase, dirVars, retryVars
<1>3. CASE Look \/ Resolve
  BY <1>3 DEF Look, Resolve, Raise, Calm, Fault, Phase, Dir, dirVars, retryVars
<1>4. CASE \E d \in Dir : Begin(d) \/ AttemptRaises(d)
  <2>1. PICK d \in Dir : Begin(d) \/ AttemptRaises(d)
    BY <1>4
  <2>2. Busy[d] \in {"officialBusy", "auditBusy"} /\ (Busy[d] = "auditBusy" <=> d = "audit")
    BY DEF Busy, Dir
  <2>3. CASE Begin(d)
    <3>1. [run |-> run, dir |-> d] \in Attempt
      BY <2>3 DEF Begin, Attempt, Run, Dir
    <3>2. /\ journal' \in [Dir -> Attempt \cup {NoAttempt}]
          /\ holder' \in [Dir -> {"nobody", "run", "cleanup"}]
          /\ published' \in [Dir -> 0..MaxRuns]
      BY <2>3, <3>1 DEF Begin
    <3>3. /\ phase = d /\ phase' = Busy[d]
          /\ UNCHANGED <<run, tierVars, residue, record, exit, reported, faults, retryVars>>
      BY <2>3 DEF Begin, Calm
    <3>4. phase \in {"official", "audit"} /\ (phase' = "auditBusy" <=> phase = "audit")
      BY <2>2, <3>3 DEF Dir
    <3> QED
      BY <2>2, <3>2, <3>3, <3>4 DEF Phase, tierVars, retryVars
  <2>4. CASE AttemptRaises(d)
    <3>1. /\ journal' \in [Dir -> Attempt \cup {NoAttempt}]
          /\ holder' \in [Dir -> {"nobody", "run", "cleanup"}]
          /\ faults' \in 0..MaxFaults
      BY <2>4 DEF AttemptRaises, Fault
    <3>2. /\ phase' = "wipe" /\ phase # "idle" /\ raised' \in {"configuration", "unforeseen"}
          /\ UNCHANGED <<run, refused, wanted, auditFailures, auditStatus, left,
                         published, residue, record, exit, reported, retryVars>>
      BY <2>2, <2>4 DEF AttemptRaises
    <3> QED
      BY <3>1, <3>2 DEF Phase, retryVars
  <2> QED
    BY <2>1, <2>3, <2>4
<1>5. CASE (\E res \in Outcome : OfficialEnds(res)) \/ OfficialUnbegun
  <2>1. PICK res \in Outcome : /\ OfficialResult(res) /\ phase \in {"official", "officialBusy"}
                               /\ Ends("official", res) \/ Unbegun("official")
    BY <1>5, UnbegunIsOutcome DEF OfficialEnds, OfficialUnbegun, Unbegun
  <2>2. verdict' \in Verdicts /\ phase' \in {"official", "audit", "wipe"}
    BY <2>1, OfficialDecides
  <2> QED
    BY <2>1, <2>2, EndsTyped DEF OfficialResult, Phase, Dir
<1>6. CASE (\E res \in Outcome, a \in BOOLEAN : AuditEnds(res, a)) \/ AuditUnbegun
  <2>1. PICK res \in Outcome, a \in BOOLEAN :
          /\ AuditResult(res, a) /\ phase \in {"audit", "auditBusy"}
          /\ Ends("audit", res) \/ Unbegun("audit")
    BY <1>6, UnbegunIsOutcome DEF AuditEnds, AuditUnbegun, Unbegun
  <2> QED
    BY <2>1, EndsTyped DEF AuditResult, Phase, Dir, retryVars
<1>7. CASE Wipe
  <2>1. residue' \in BOOLEAN
    BY <1>7 DEF Wipe
  <2>2. faults' \in 0..MaxFaults
    BY <1>7 DEF Wipe, Calm, Fault
  <2> QED
    BY <1>7, <2>1, <2>2 DEF Wipe, Raise, Phase, dirVars, retryVars
<1>8. CASE WriteRecord
  <2>1. NewRecord \in Record
    BY DEF NewRecord, Record, Status, TierStatus
  <2>2. ExitCode \in {"0", "1", "2", "4", "5", "6"}
    BY DEF ExitCode
  <2>3. reported' \in BOOLEAN
    BY <1>8 DEF WriteRecord
  <2>4. faults' \in 0..MaxFaults
    BY <1>8 DEF WriteRecord, Calm, Fault
  <2> QED
    BY <1>8, <2>1, <2>2, <2>3, <2>4 DEF WriteRecord, Phase, tierVars, dirVars, retryVars
<1>9. CASE TurnedAway \/ OperatorWipes \/ Die
  <2>1. residue' \in BOOLEAN /\ reported' \in BOOLEAN
    BY <1>9 DEF TurnedAway, OperatorWipes, Die
  <2>2. faults' \in 0..MaxFaults
    BY <1>9 DEF TurnedAway, OperatorWipes, Die, Calm, Fault
  <2> QED
    BY <1>9, <2>1, <2>2 DEF TurnedAway, OperatorWipes, Die, Phase, tierVars, dirVars, retryVars
<1>10. CASE \E d \in Dir : CleanupStarts(d) \/ CleanupForgets(d) \/ CleanupEnds(d)
  BY <1>10 DEF CleanupStarts, CleanupForgets, CleanupEnds, Calm, tierVars, retryVars
<1> QED
  BY <1>1, <1>2, <1>3, <1>4, <1>5, <1>6, <1>7, <1>8, <1>9, <1>10 DEF Next, RunStep

\* TypeOK: for all limits and every number of runs and faults.
THEOREM TierTypes == Spec => []TypeOK
<1>1. Spec => []RetryTypeOK
  <2>1. RetryInv => RetryTypeOK
    BY DEF RetryInv
  <2> QED
    BY <2>1, PolicyImplemented, RetryInvariant, PTL DEF RetrySpec
<1>2. Init /\ RetryTypeOK => Typed
  <2> SUFFICES ASSUME Init, RetryTypeOK PROVE Typed
    OBVIOUS
  <2>1. wanted \in BOOLEAN /\ residue \in BOOLEAN /\ reported \in BOOLEAN
    BY DEF Init
  <2>2. record \in Record
    BY BoundsAssumption DEF Init, NoRecord, Record, Status
  <2> QED
    BY <2>1, <2>2, BoundsAssumption, LimitsAssumption
    DEF Init, RetryInit, Typed, TypeOK, Phase, Verdicts
<1>3. Typed /\ RetryTypeOK' /\ [Next]_vars => Typed'
  <2>1. CASE UNCHANGED vars
    BY <2>1 DEF vars, tierVars, dirVars, retryVars, Typed, TypeOK, RetryTypeOK
  <2> QED
    BY <2>1, TypedStep
<1>4. Typed => TypeOK
  BY DEF Typed
<1> QED
  BY <1>1, <1>2, <1>3, <1>4, PTL DEF Spec

=============================================================================
