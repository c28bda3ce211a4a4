---------------------------- MODULE RetryPolicy ----------------------------
(***************************************************************************)
(* run_with_retry of runtime.py: who is charged with a failed attempt, and *)
(* when a tier stops being tried; and the attempt numbers that orchestra-  *)
(* tor.py derives again, from the history alone, when it writes the record.*)
(***************************************************************************)
EXTENDS Integers, Sequences, FiniteSets

CONSTANTS MaxParticipantAttempts, MaxInfrastructureFailures

\* What the function demands of its arguments.
ASSUME LimitsAssumption ==
  /\ MaxParticipantAttempts \in Nat \ {0}
  /\ MaxInfrastructureFailures \in Nat \ {0}

VARIABLES
  official,   \* official_attempts
  infra,      \* infrastructure_failures
  history,    \* the results, each with the number its attempt was given
  verdict     \* "trying", or which RetryOutcome was returned

retryVars == <<official, infra, history, verdict>>

Kind    == {"valid", "execution", "infrastructure", "fairness"}
Outcome == {res \in [kind : Kind, pending : BOOLEAN] :
              res.pending => res.kind = "infrastructure"}
Tried   == [kind : Kind, pending : BOOLEAN, number : Nat \ {0}]

RetryTypeOK ==
  /\ official \in 0..MaxParticipantAttempts
  /\ infra \in 0..MaxInfrastructureFailures
  /\ history \in Seq(Tried)
  /\ verdict \in {"trying", "selected", "disqualified", "unavailable", "zero"}

RetryInit ==
  /\ official = 0 /\ infra = 0
  /\ history = <<>>
  /\ verdict = "trying"

-----------------------------------------------------------------------------

Log(res) ==
  history' = Append(history, [kind |-> res.kind, pending |-> res.pending,
                              number |-> official + 1])

\* Fault: an operator failure uses up an attempt of the participant.
TryChargingOperator(res) ==
  /\ verdict = "trying"
  /\ Log(res)
  /\ res.kind = "infrastructure"
  /\ infra' = infra + 1
  /\ official' = official + 1
  /\ verdict' = IF official + 1 < MaxParticipantAttempts THEN "trying" ELSE "zero"

\* Fault: an unresolved cleanup is retried like any operator failure.
TryThroughPending(res) ==
  /\ verdict = "trying"
  /\ Log(res)
  /\ res.kind = "infrastructure"
  /\ infra' = infra + 1
  /\ verdict' = IF infra + 1 >= MaxInfrastructureFailures
                THEN "unavailable" ELSE "trying"
  /\ UNCHANGED official

TryInfrastructure(res) ==
  /\ verdict = "trying"
  /\ Log(res)
  /\ res.kind = "infrastructure"
  /\ infra' = infra + 1
  /\ verdict' = IF res.pending \/ infra + 1 >= MaxInfrastructureFailures
                THEN "unavailable" ELSE "trying"
  /\ UNCHANGED official

TryExecution(res) ==
  /\ verdict = "trying"
  /\ Log(res)
  /\ res.kind = "execution"
  /\ official' = official + 1
  /\ verdict' = IF official + 1 < MaxParticipantAttempts THEN "trying" ELSE "zero"
  /\ UNCHANGED infra

TryValid(res) ==
  /\ verdict = "trying"
  /\ Log(res)
  /\ res.kind = "valid"
  /\ official' = official + 1
  /\ verdict' = "selected"
  /\ UNCHANGED infra

TryFairness(res) ==
  /\ verdict = "trying"
  /\ Log(res)
  /\ res.kind = "fairness"
  /\ verdict' = "disqualified"
  /\ UNCHANGED <<official, infra>>

Try(res) ==
  TryInfrastructure(res) \/ TryExecution(res) \/ TryValid(res) \/ TryFairness(res)

\* The next tier, or the same one run again, starts from nothing.
Afresh ==
  /\ official' = 0 /\ infra' = 0
  /\ history' = <<>>
  /\ verdict' = "trying"

RetryNext == (\E res \in Outcome : Try(res)) \/ Afresh

RetrySpec == RetryInit /\ [][RetryNext]_retryVars

-----------------------------------------------------------------------------
(* official_tier_outcome_to_dict counts again, from the history.           *)

Spent(h, n) == {j \in 1..n : h[j].kind \in {"execution", "valid"}}

RecordedNumber(h, i) == Cardinality(Spent(h, i - 1)) + 1

-----------------------------------------------------------------------------
(* Properties. *)

\* The number the record gives to each attempt is the one it was run under, and
\* the record's total is the number of attempts that were charged.
NumbersAgree ==
  /\ \A i \in 1..Len(history) : history[i].number = RecordedNumber(history, i)
  /\ official = Cardinality(Spent(history, Len(history)))

\* A tier scores zero only after the participant failed every attempt there is,
\* whatever the operator's failures in between; a result is selected only when it is
\* the first valid one; and nothing is tried after an unresolved cleanup.
VerdictEarned ==
  /\ verdict = "zero" =>
       /\ Cardinality(Spent(history, Len(history))) = MaxParticipantAttempts
       /\ \A i \in 1..Len(history) :
            history[i].kind \in {"execution", "infrastructure"}
  /\ verdict = "selected" =>
       /\ history # <<>> /\ history[Len(history)].kind = "valid"
       /\ official <= MaxParticipantAttempts
  /\ \A i \in 1..Len(history) :
       history[i].pending \/ history[i].kind \in {"valid", "fairness"} =>
         i = Len(history) /\ verdict # "trying"

\* The loop ends: operator failures cannot prolong it without limit.
AttemptsBounded ==
  Len(history) < MaxParticipantAttempts + MaxInfrastructureFailures
=============================================================================
