---------------------------- MODULE OfficialTier ----------------------------
(***************************************************************************)
(* run_official_tier of orchestrator.py: one tier of one submission, run   *)
(* and audited under the lock of its output root, and the record it leaves *)
(* for the scheduler.                                                      *)
(*                                                                         *)
(* The tier is run again and again over one output root, by runs that may  *)
(* die at any step.  The attempts themselves are those of RuntimeResources:*)
(* here an attempt either leaves its directory clean or leaves a resource  *)
(* journal behind.  The cleanup tool takes the lock of one directory, not  *)
(* of the root, so it works beside a run.                                  *)
(***************************************************************************)
EXTENDS RetryPolicy

CONSTANTS MaxRuns, MaxFaults

ASSUME BoundsAssumption == MaxRuns \in Nat /\ MaxFaults \in Nat

Dir == {"official", "audit"}
Run == 1..MaxRuns

\* The attempt a journal or a record names.  Attempts of one run in one directory
\* share an identity: a journal that survives one of them ends the run.
Attempt   == [run : Run, dir : Dir]
NoAttempt == [run |-> 0, dir |-> "official"]

Status == {"none", "valid", "tier_score_zero", "disqualified",
           "infrastructure_unavailable", "audit_inconclusive_infrastructure",
           "review_required", "audit_skipped", "submission_preflight_rejected",
           "configuration_error"}

\* status, the attempts named as cleanup_pending (NoAttempt when one could not be
\* named), and the run that wrote it
Record   == [status : Status, names : SUBSET (Attempt \cup {NoAttempt}),
             run : 0..MaxRuns]
NoRecord == [status |-> "none", names |-> {}, run |-> 0]

VARIABLES
  run,        \* how many runs have taken the root lock
  phase,      \* where the run is; "idle" when the lock is free
  raised,     \* the exception on its way out, "none" if there is none
  refused,    \* the attempt whose journal made this run give up
  wanted,     \* is the audit asked for?
  auditFailures, auditStatus,
  left,       \* attempts of this run that ended with cleanup_pending
  journal,    \* the attempt named by each directory's resource journal
  holder,     \* who holds each directory's lock
  published,  \* the run whose submission.json each directory holds, or 0
  residue,    \* is there a private input snapshot?
  record,     \* the execution record on disk
  exit,       \* the exit code of the last run, or "killed"; "none" while one goes on
  reported,   \* did that run get to say its own on the record?
  faults

tierVars == <<raised, refused, wanted, auditFailures, auditStatus, left>>
dirVars  == <<journal, holder, published>>
vars == <<run, phase, tierVars, dirVars, residue, record, exit, reported,
          faults, retryVars>>

Phase == {"idle", "check", "look", "resolve", "official", "officialBusy",
          "audit", "auditBusy", "wipe", "record"}
Busy  == [official |-> "officialBusy", audit |-> "auditBusy"]

TypeOK ==
  /\ run \in 0..MaxRuns /\ phase \in Phase
  /\ raised \in {"none", "pending", "infrastructure", "preflight",
                 "configuration", "unforeseen"}
  /\ refused \in Attempt \cup {NoAttempt}
  /\ wanted \in BOOLEAN
  /\ auditFailures \in 0..MaxInfrastructureFailures
  /\ auditStatus \in {"none", "passed", "review_required", "inconclusive"}
  /\ left \subseteq Attempt \cup {NoAttempt}
  /\ journal \in [Dir -> Attempt \cup {NoAttempt}]
  /\ holder \in [Dir -> {"nobody", "run", "cleanup"}]
  /\ published \in [Dir -> 0..MaxRuns]
  /\ residue \in BOOLEAN
  /\ record \in Record
  /\ exit \in {"none", "0", "1", "2", "4", "5", "6", "killed"}
  /\ reported \in BOOLEAN
  /\ faults \in 0..MaxFaults
  /\ RetryTypeOK

Init ==
  /\ run = 0 /\ phase = "idle"
  /\ raised = "none" /\ refused = NoAttempt /\ wanted = TRUE
  /\ auditFailures = 0 /\ auditStatus = "none" /\ left = {}
  /\ journal = [d \in Dir |-> NoAttempt]
  /\ holder = [d \in Dir |-> "nobody"]
  /\ published = [d \in Dir |-> 0]
  /\ residue = FALSE
  /\ record = NoRecord
  /\ exit = "none" /\ reported = FALSE
  /\ faults = MaxFaults
  /\ RetryInit

-----------------------------------------------------------------------------

Fault == faults > 0 /\ faults' = faults - 1
Calm  == UNCHANGED faults

Raise(e) == raised' = e

\* The root lock is taken, and the record's path is good.
Enter ==
  /\ phase = "idle" /\ run < MaxRuns
  /\ run' = run + 1
  /\ phase' = "check"
  /\ raised' = "none" /\ refused' = NoAttempt
  /\ wanted' \in BOOLEAN
  /\ auditFailures' = 0 /\ auditStatus' = "none" /\ left' = {}
  /\ exit' = "none" /\ reported' = FALSE
  /\ Afresh
  /\ Calm
  /\ UNCHANGED <<dirVars, residue, record>>

\* A run that never gets to the root: the command line, the input, the policy, the
\* image evidence or the record's path is no good, or the root is in use.  Nothing is
\* touched, and the record that is there stays (main, _validate_record_path).
TurnedAway ==
  /\ phase = "idle"
  /\ exit' \in {"2", "4"} /\ reported' = FALSE
  /\ Calm
  /\ UNCHANGED <<run, phase, tierVars, dirVars, residue, record, retryVars>>

\* The commit, the tier or the input object is not what it should be.
Misconfigured ==
  /\ phase \in {"check", "look"}
  /\ Raise("configuration")
  /\ phase' = IF phase = "check" THEN "record" ELSE "wipe"
  /\ Calm
  /\ UNCHANGED <<run, refused, wanted, auditFailures, auditStatus, left,
                 dirVars, residue, record, exit, reported, retryVars>>

\* A dead run's input is still in the private work directory, or the directory
\* cannot be used.
ResidueFound ==
  /\ phase = "check"
  /\ (residue /\ Calm) \/ Fault
  /\ Raise("infrastructure")
  /\ phase' = "record"
  /\ UNCHANGED <<run, refused, wanted, auditFailures, auditStatus, left,
                 dirVars, residue, record, exit, reported, retryVars>>

Snapshot ==
  /\ phase = "check"
  /\ ~residue
  /\ residue' = TRUE
  /\ \/ phase' = "look" /\ Calm /\ UNCHANGED raised
     \/ phase' = "wipe" /\ Fault /\ Raise("infrastructure")
  /\ UNCHANGED <<run, refused, wanted, auditFailures, auditStatus, left,
                 dirVars, record, exit, reported, retryVars>>

\* Fault: the audit directory is not looked at.
LookAtOfficial ==
  /\ phase = "look"
  /\ IF journal["official"] # NoAttempt
     THEN /\ Raise("pending")
          /\ refused' = journal["official"]
          /\ phase' = "wipe"
     ELSE phase' = "resolve" /\ UNCHANGED <<raised, refused>>
  /\ Calm
  /\ UNCHANGED <<run, wanted, auditFailures, auditStatus, left, dirVars,
                 residue, record, exit, reported, retryVars>>

\* require_no_pending_runtime_resources, official first; or a directory cannot be
\* used or a journal not be read.
Look ==
  /\ phase = "look"
  /\ \/ /\ \A d \in Dir : journal[d] = NoAttempt
        /\ phase' = "resolve"
        /\ UNCHANGED <<raised, refused>>
        /\ Calm
     \/ \E d \in Dir :
          /\ journal[d] # NoAttempt
          /\ d = "audit" => journal["official"] = NoAttempt
          /\ Raise("pending")
          /\ refused' = journal[d]
          /\ phase' = "wipe"
          /\ Calm
     \/ /\ Fault
        /\ Raise("infrastructure")
        /\ phase' = "wipe"
        /\ UNCHANGED refused
  /\ UNCHANGED <<run, wanted, auditFailures, auditStatus, left, dirVars,
                 residue, record, exit, reported, retryVars>>

\* The image is the submitted one, within its limits, with evidence.
Resolve ==
  /\ phase = "resolve"
  /\ \/ phase' = "official" /\ Calm /\ UNCHANGED raised
     \/ phase' = "wipe" /\ Calm /\ raised' \in {"preflight", "configuration"}
     \/ phase' = "wipe" /\ Fault /\ Raise("infrastructure")
  /\ UNCHANGED <<run, refused, wanted, auditFailures, auditStatus, left,
                 dirVars, residue, record, exit, reported, retryVars>>

-----------------------------------------------------------------------------
(* One attempt in a directory. *)

\* Under the directory's lock the old submission goes and the intent is written.
Begin(d) ==
  /\ phase = d /\ holder[d] = "nobody"
  /\ holder' = [holder EXCEPT ![d] = "run"]
  /\ published' = [published EXCEPT ![d] = 0]
  /\ journal' = [journal EXCEPT ![d] = [run |-> run, dir |-> d]]
  /\ phase' = Busy[d]
  /\ Calm
  /\ UNCHANGED <<run, tierVars, residue, record, exit, reported, retryVars>>

\* The results an attempt can return, and what it leaves of its journal: none,
\* unless it says cleanup_pending.  It names the attempt whose journal it left if
\* it can read it, and may say so too after an unlink without a fsync.
Ends(d, res) ==
  /\ res.kind # "infrastructure" => Calm
  /\ res.kind = "infrastructure" => Fault
  /\ holder' = [holder EXCEPT ![d] = "nobody"]
  /\ published' = [published EXCEPT ![d] = IF res.kind = "valid" THEN run ELSE @]
  /\ \/ /\ res.pending
        /\ \E named \in {journal[d], NoAttempt} : left' = left \cup {named}
        /\ UNCHANGED journal
     \/ /\ journal' = [journal EXCEPT ![d] = NoAttempt]
        /\ left' = IF res.pending THEN left \cup {NoAttempt} ELSE left

\* The operator's failures before an attempt touches Docker: the directory is
\* being cleaned, or cannot be used, or the image cannot be inspected again.
Unbegun(d) ==
  /\ phase = d
  /\ \/ holder[d] = "cleanup" /\ Calm /\ UNCHANGED published
     \/ Fault /\ published' \in {published, [published EXCEPT ![d] = 0]}
  /\ UNCHANGED <<journal, holder, left>>

\* run_with_retry takes the result in.
OfficialResult(res) ==
  /\ Try(res)
  /\ phase' = IF verdict' = "trying" THEN "official"
              ELSE IF verdict' = "selected" /\ wanted THEN "audit" ELSE "wipe"
  /\ UNCHANGED <<run, raised, refused, wanted, auditFailures, auditStatus,
                 residue, record, exit, reported>>

OfficialEnds(res) ==
  phase = "officialBusy" /\ Ends("official", res) /\ OfficialResult(res)

OfficialUnbegun ==
  Unbegun("official") /\ OfficialResult([kind |-> "infrastructure", pending |-> FALSE])

\* Fault: an audit that fails is charged like an official attempt.
AuditResultCharged(res, agrees) ==
  /\ auditStatus' = "review_required"
  /\ official' = official + (IF res.kind = "execution" THEN 1 ELSE 0)
  /\ phase' = "wipe"
  /\ UNCHANGED <<run, raised, refused, wanted, auditFailures, residue, record,
                 exit, reported, infra, history, verdict>>

\* Fault: the operator's failures of an audit are not counted.
AuditResultUncounted(res, agrees) ==
  /\ IF res.kind = "infrastructure"
     THEN phase' = "audit" /\ UNCHANGED auditStatus
     ELSE phase' = "wipe" /\ auditStatus' = "passed"
  /\ UNCHANGED <<run, raised, refused, wanted, auditFailures, residue, record,
                 exit, reported, retryVars>>

\* run_id_order_audit takes it in; agrees is the comparison of the selections.
AuditResult(res, agrees) ==
  /\ IF res.kind = "infrastructure"
     THEN /\ auditFailures' = auditFailures + 1
          /\ IF res.pending \/ auditFailures + 1 >= MaxInfrastructureFailures
             THEN auditStatus' = "inconclusive" /\ phase' = "wipe"
             ELSE phase' = "audit" /\ UNCHANGED auditStatus
     ELSE /\ auditStatus' = IF res.kind = "valid" /\ agrees
                            THEN "passed" ELSE "review_required"
          /\ phase' = "wipe"
          /\ UNCHANGED auditFailures
  /\ UNCHANGED <<run, raised, refused, wanted, residue, record, exit, reported,
                 retryVars>>

AuditEnds(res, agrees) ==
  phase = "auditBusy" /\ Ends("audit", res) /\ AuditResult(res, agrees)

\* Also when the audit's input cannot be written.
AuditUnbegun ==
  Unbegun("audit")
    /\ AuditResult([kind |-> "infrastructure", pending |-> FALSE], FALSE)

\* An exception leaves the attempt, with or without its journal.
AttemptRaises(d) ==
  /\ phase = Busy[d]
  /\ Fault
  /\ raised' \in {"configuration", "unforeseen"}
  /\ holder' = [holder EXCEPT ![d] = "nobody"]
  /\ journal' \in {journal, [journal EXCEPT ![d] = NoAttempt]}
  /\ phase' = "wipe"
  /\ UNCHANGED <<run, refused, wanted, auditFailures, auditStatus, left,
                 published, residue, record, exit, reported, retryVars>>

-----------------------------------------------------------------------------
(* Leaving. *)

\* Fault: the private input is deleted only when nothing was raised.
WipeOnSuccess ==
  /\ phase = "wipe"
  /\ residue' = (residue /\ raised # "none")
  /\ phase' = "record"
  /\ Calm
  /\ UNCHANGED <<run, tierVars, dirVars, record, exit, reported, retryVars>>

\* The private input is deleted before the record is written.
Wipe ==
  /\ phase = "wipe"
  /\ \/ residue' = FALSE /\ Calm /\ UNCHANGED raised
     \/ Fault /\ Raise("infrastructure") /\ UNCHANGED residue
  /\ phase' = "record"
  /\ UNCHANGED <<run, refused, wanted, auditFailures, auditStatus, left,
                 dirVars, record, exit, reported, retryVars>>

\* Fault: the audit's verdict is not looked at.
TierStatusUnaudited ==
  IF verdict = "unavailable" THEN "infrastructure_unavailable"
  ELSE IF verdict = "disqualified" THEN "disqualified"
  ELSE IF verdict = "zero" THEN "tier_score_zero" ELSE "valid"

\* _official_tier_status
TierStatus ==
  IF verdict = "unavailable" THEN "infrastructure_unavailable"
  ELSE IF verdict = "disqualified" THEN "disqualified"
  ELSE IF verdict = "zero" THEN "tier_score_zero"
  ELSE IF auditStatus = "review_required" THEN "review_required"
  ELSE IF auditStatus = "inconclusive" THEN "audit_inconclusive_infrastructure"
  ELSE IF auditStatus = "none" THEN "audit_skipped" ELSE "valid"

\* Fault: any record of a pending cleanup will do.
MatchesAnyPending(rec, attempt) ==
  rec.status \in {"infrastructure_unavailable",
                  "audit_inconclusive_infrastructure"}

\* _record_matches_cleanup_attempt
Matches(rec, attempt) ==
  /\ rec.status \in {"infrastructure_unavailable",
                     "audit_inconclusive_infrastructure"}
  /\ attempt \in rec.names

\* Fault: a run that gives up because of a journal never touches the record.
NewRecordPreserving ==
  CASE raised = "none" ->
         [status |-> TierStatus, names |-> left, run |-> run]
    [] raised \in {"pending", "unforeseen"} -> record
    [] raised = "infrastructure" ->
         [status |-> "infrastructure_unavailable", names |-> {}, run |-> run]
    [] raised = "preflight" ->
         [status |-> "submission_preflight_rejected", names |-> {}, run |-> run]
    [] raised = "configuration" ->
         [status |-> "configuration_error", names |-> {}, run |-> run]

\* What the run writes, or the record that is there already.
NewRecord ==
  CASE raised = "none" ->
         [status |-> TierStatus, names |-> left, run |-> run]
    [] raised = "pending" ->
         IF Matches(record, refused) THEN record
         ELSE [status |-> "infrastructure_unavailable", names |-> {refused},
               run |-> run]
    [] raised = "infrastructure" ->
         [status |-> "infrastructure_unavailable", names |-> {}, run |-> run]
    [] raised = "preflight" ->
         [status |-> "submission_preflight_rejected", names |-> {}, run |-> run]
    [] raised = "configuration" ->
         [status |-> "configuration_error", names |-> {}, run |-> run]
    [] raised = "unforeseen" -> record

\* _STATUS_EXIT_CODES, and main for what is raised.
ExitCode ==
  CASE raised = "none" ->
         IF TierStatus \in {"valid", "tier_score_zero", "disqualified"} THEN "0"
         ELSE IF TierStatus \in {"review_required", "audit_skipped"} THEN "5"
         ELSE "4"
    [] raised \in {"pending", "infrastructure"} -> "4"
    [] raised = "preflight" -> "6"
    [] raised = "configuration" -> "2"
    [] raised = "unforeseen" -> "1"

\* The record is replaced atomically, still under the root lock.  A failed write
\* may have replaced it or not, and is itself an operator failure.
WriteRecord ==
  /\ phase = "record"
  /\ \/ /\ record' = NewRecord
        /\ exit' = ExitCode
        /\ reported' = (raised # "unforeseen")
        /\ Calm
     \/ /\ NewRecord # record
        /\ record' \in {record, NewRecord}
        /\ exit' = "4"
        /\ reported' = FALSE
        /\ Fault
  /\ phase' = "idle"
  /\ UNCHANGED <<run, tierVars, dirVars, residue, retryVars>>

-----------------------------------------------------------------------------
(* The cleanup tool, and death. *)

CleanupStarts(d) ==
  /\ holder[d] = "nobody"
  /\ journal[d] # NoAttempt
  /\ holder' = [holder EXCEPT ![d] = "cleanup"]
  /\ Calm
  /\ UNCHANGED <<run, phase, tierVars, journal, published, residue, record,
                 exit, reported, retryVars>>

CleanupForgets(d) ==
  /\ holder[d] = "cleanup"
  /\ journal[d] # NoAttempt
  /\ journal' = [journal EXCEPT ![d] = NoAttempt]
  /\ Calm
  /\ UNCHANGED <<run, phase, tierVars, holder, published, residue, record,
                 exit, reported, retryVars>>

\* Done, given up or dead.
CleanupEnds(d) ==
  /\ holder[d] = "cleanup"
  /\ holder' = [holder EXCEPT ![d] = "nobody"]
  /\ Calm
  /\ UNCHANGED <<run, phase, tierVars, journal, published, residue, record,
                 exit, reported, retryVars>>

\* The operator empties the private work directory after a forced end.
OperatorWipes ==
  /\ phase = "idle" /\ residue
  /\ residue' = FALSE
  /\ Calm
  /\ UNCHANGED <<run, phase, tierVars, dirVars, record, exit, reported,
                 retryVars>>

Die ==
  /\ phase # "idle"
  /\ Fault
  /\ phase' = "idle"
  /\ exit' = "killed" /\ reported' = FALSE
  /\ holder' = [d \in Dir |-> IF holder[d] = "run" THEN "nobody" ELSE holder[d]]
  /\ UNCHANGED <<run, tierVars, journal, published, residue, record,
                 retryVars>>

RunStep ==
  \/ Misconfigured \/ ResidueFound \/ Snapshot \/ Look \/ Resolve
  \/ \E d \in Dir : Begin(d) \/ AttemptRaises(d)
  \/ \E res \in Outcome : OfficialEnds(res) \/ \E a \in BOOLEAN : AuditEnds(res, a)
  \/ OfficialUnbegun \/ AuditUnbegun \/ Wipe \/ WriteRecord

Next ==
  \/ Enter \/ TurnedAway \/ RunStep \/ OperatorWipes \/ Die
  \/ \E d \in Dir : CleanupStarts(d) \/ CleanupForgets(d) \/ CleanupEnds(d)

Spec == Init /\ [][Next]_vars

\* A run that holds the lock goes on: its commands have timeouts, its writes do
\* not wait for anybody.
FairSpec == Spec /\ WF_vars(RunStep)

-----------------------------------------------------------------------------
(* Properties. *)

\* No attempt is begun while another one, of this run or an earlier one, in this
\* directory or its sibling, still has a journal.
SiblingsQuiet ==
  [][\A d \in Dir :
       journal'[d] \notin {journal[d], NoAttempt} =>
         \A e \in Dir : journal[e] = NoAttempt]_vars

Pending == {journal[d] : d \in Dir} \ {NoAttempt}

\* "An old record of success cannot hide a pending cleanup": a run that could write
\* its record leaves no verdict on the submission beside a journal.
SuccessNeverMasks ==
  phase = "idle" /\ reported /\ Pending # {} =>
    record.status \in {"infrastructure_unavailable", "configuration_error",
                       "audit_inconclusive_infrastructure"}

\* When a run ends because of a pending cleanup, its own or an earlier one's, the
\* record names the very attempt the journal names, or says that it could not.
PendingIsNamed ==
  phase = "idle" /\ reported /\ raised \in {"none", "pending"} =>
    Pending \subseteq record.names \/ NoAttempt \in record.names

\* A verdict on the submission is complete: the private input is gone, nothing of
\* Docker is pending, official/submission.json is the one that was selected, or is
\* gone, and "valid" was audited.
VerdictComplete ==
  phase = "idle" /\ exit \in {"0", "5", "6"} =>
    /\ ~residue
    /\ Pending = {}
    /\ record.run = run
    /\ exit = "0" => published["official"] =
                       IF record.status = "valid" THEN run ELSE 0
    /\ record.status = "valid" => auditStatus = "passed"

\* What the scheduler may read into an exit code.  0, 5 and 6 are always on the record,
\* and 2 and 4 when the run could say so there: a verdict and a preflight rejection are
\* its own, and so is its configuration error.  A run that was turned away before it had
\* the root and a path for its record says 2 or 4 beside whatever an earlier one left.
ExitTellsRecord ==
  phase = "idle" =>
    /\ exit = "0" => record.status \in {"valid", "tier_score_zero", "disqualified"}
    /\ exit = "2" /\ reported => record.status = "configuration_error" /\ record.run = run
    /\ exit = "4" /\ reported =>
         record.status \in {"infrastructure_unavailable",
                            "audit_inconclusive_infrastructure"}
    /\ exit = "5" => record.status \in {"review_required", "audit_skipped"}
    /\ exit = "6" => record.status = "submission_preflight_rejected"

\* Every run returns, whatever the cleanup tool holds.
RunReturns == (phase # "idle") ~> (phase = "idle")

\* docs/OPERATIONS.md, on late resources: a run that finds a journal keeps the
\* detailed record of the same attempt.
RefusalKeepsDetails ==
  [][refused # NoAttempt /\ refused \in Pending /\ Matches(record, refused)
       => Matches(record', refused)]_vars

=============================================================================
