# Verification of the router's operator runtime

SmartRouter is the kit of a routing challenge: participants submit a container that
chooses a model for every prompt of a batch, and operators run the container, tier by
tier, under a budget. Most of what can go wrong without a test noticing is on the
operator's side. Docker carries out requests after its client was killed, processes die
between two file operations, the verdict must charge the right party, and a record that
tells the scheduler "valid" must be true. Around it stand programs that are sequential
but numerical or file-bound: the router itself, the scoring, the tie-break, the benchmark.
This directory models both in TLA+, checks them with TLC and proves the main results with
TLAPS. Paths are relative to the repository; `runtime.py` and its siblings are in
`src/ossp_router/`.

## Inventory

| Component | State | Operations | Who calls it, hard behaviour | What makes it correct |
|---|---|---|---|---|
| Resource journal and isolated attempt (`runtime.py`) | journal and lock of an output directory, Docker resources, `submission.json` | `run_isolated_container_once`, `cleanup_main` | late requests, crashes, power loss, repointed engine, two processes at once | nothing in Docker without a journal; a clean verdict leaves nothing |
| Retry policy (`runtime.py`) | attempt counters, history | `run_with_retry` | operator failures between participant failures | only the participant's failures count |
| Official tier (`orchestrator.py`) | root lock, private input, two output directories, record, exit code | `run_official_tier`, `main` | crashes, failing clean-up code, the cleanup tool beside a run | record and exit code tell the truth |
| ID/order audit (`orchestrator.py`) | variant, two selections | `make_id_order_audit_variant`, `run_id_order_audit` | every secret, batches of one or two | prompt routers pass, lookup routers are caught |
| Image size measurement (`image_evidence.py`) | journal, container, evidence file | `router-measure-image`, `--cleanup-pending` | as the first, but without a lock | no orphan; evidence last; every journal resolvable |
| OCI layout and evidence validation (`image_evidence.py`, `runtime.py`) | none | `measure_oci_layout`, `load_image_size_evidence` | malformed documents | a predicate on documents |
| Process runner and pipes (`runtime.py`) | two pipes, a deadline, a process group | `_run_prepared_router_once`, `_run_control_command` | limits racing with the exit | no half answer; the right party is charged; it returns |
| Output helper (`operator_helper.py`) | output volume | `_extract` | a file that changes while it is read | one regular file, unchanged |
| Trusted directories (`runtime.py`, `orchestrator.py`) | file metadata | `validate_operator_directory` | paths that change | owner, mode and path as required |
| Routers (`heuristic.py`, `baselines/`, the copies of the rule in `training/`) | a search between two penalties, a submission file | `team_router_make_submission`, `_team_select_models`, `fill_ax31_upgrades`, `_upgrade_groups` | a jump in the costs, ties, an artifact of another width, a copy that differs | limits are met or the fallback is taken; the order of the batch does not matter |
| Protocol (`protocol.py`) | none | `parse_*`, `write_json`, `load_public_runtime_workload` | IDs that occur twice, documents that do not belong together | one decision per episode |
| Scoring and public commands (`scoring.py`, `cli.py`, `public_runtime.py`) | three submissions, a report | `score_submissions`, `validate-input`, `always-light`, `self-check` | a command that failed half-way, rounding, a cost of exactly the budget | points are earned; all-light always passes |
| Tie-break (`tiebreak_latency.py`) | a schedule, journals, a record | `router-measure-tiebreak` | repeated runs, slow runs, kills | equally many runs in rotating order; the median decides |
| Runtime benchmark (`tools/benchmark_runtime.py`) | measurements, a pair of reports, backups, a marker | `main`, `_publish_report_pair` | sources edited meanwhile, a crash between two renames | never half a pair without a marker; a report is of the tree it names |
| Fits, data tools, container image, data, docs | files | one-shot | – | not modelled |

How they interact: `router-evaluate-tier` takes the root lock, copies the input, looks
for journals in `official/` and `audit/`, checks the image against its evidence (which
`router-measure-image` produced earlier), and calls `run_with_retry`, then the audit;
both call `run_isolated_container_once`, which takes the directory's own lock,
reconciles a journal that is there and runs one attempt. `cleanup_main` shares only that
directory lock. The evidence tool has a journal of its own and no lock. The tie-break runs
the same containers, one directory for each submission, without the root lock. What a
router writes in its container is parsed by `protocol.py`, on the operator's side and by
`self-check` on the participant's. The benchmark runs the routers as workers and in
containers, and uses the audit's variant of its input.

## Modules

| Module | Models | Proofs |
|---|---|---|
| `RuntimeResources` | one isolated attempt and the recovery, several processes on one directory | `RuntimeInvariant` (the inductive invariant), `RuntimeProofs` (types, one lemma per action, and the properties) |
| `ResourceLedger` | what the journal promises: only the attempt on record may have resources | implemented by `RuntimeResources` |
| `MCRuntimeResources` | symmetry and the taken names for TLC | |
| `RetryPolicy` | `run_with_retry` and the numbering of the record | `OfficialTierProofs` |
| `OfficialTier` | `run_official_tier`, extends `RetryPolicy`; an attempt is two steps, begin and end | `OfficialTierProofs` |
| `IdOrderAudit` | variant and comparison of the audit | `IdOrderAuditProofs` |
| `ImageMeasurement` | measurement and its recovery | `ImageMeasurementProofs` |
| `ProcessRunner` | one started process and the thread that watches it | `ProcessRunnerProofs` |
| `Protocol` | the documents, what is accepted of each, and what they share | `ScoringProofs` (sums) |
| `BatchRouter` | one call of a router after another that is related to it, from the artifact to the file | `BatchRouterProofs` |
| `SelfCheck` | the public commands on one set of files, and the scoring | `ScoringProofs` |
| `TieBreak` | the schedule of a tie-break and its ranking | `ScoringProofs` |
| `Benchmark` | invocations of the benchmark while sources are edited; extends `Protocol` | `BenchmarkProofs` |
| `MCBenchmark`, `MCPrograms` | instances; `MCPrograms` puts the audit and the four programs above beside one another | |

Operators called "Fault: ..." in a comment are faulty variants of the definition that
follows them. No specification uses them; they exist to show that a property would
notice the bug.

### Correspondence with the code

*RuntimeResources.* `disk` is the journal a reader finds, `durable` the one that survives
a power loss; a write is a rename and a separate `Fsync`, and each can fail. `pending`
holds create requests: a request enters when the client is started and leaves when the
daemon creates the resource, refuses, or restarts. Killing a client removes nothing from
`pending`. `engine` is what the runtime command reaches; `born[t]` the engine whose ID
attempt `t` recorded. `memory` is the set of observed roles the process has in hand,
`missing` the roles a reconciliation could not settle. Reconciliation (`Load` … `Re…`),
attempt (`Prepare` … `Publish`) and their writes follow the functions' order; the guards
are the functions' conditions. A look at a label and the removal by name that follows are two
Docker commands and two steps, in the recovery (`ReKnown`, `ReRemove`) and in the cleanup of the
output (`CleanHelper`, `DropHelper`, `CleanVolume`, `DropVolume`). `lock` is `flock`: it vanishes
with its process.

*RetryPolicy and OfficialTier.* `history` carries the number each attempt was run
under, so that the numbers derived again by `official_tier_outcome_to_dict` can be compared.
`raised` is the exception on its way out of the nested `with` blocks; `Wipe` is the
`finally` of the private snapshot and may replace it. `NewRecord` is the chain of
handlers in `run_official_tier`; `TurnedAway` is every way in which `main` returns 2 or 4 before the
lock is held and the record's path is accepted. An attempt's possible results and what it leaves of its
journal are those `RuntimeResources` allows: no journal remains unless the result says
`cleanup_pending`.

*IdOrderAudit.* Episodes are numbers with distinct IDs; the HMAC order of a secret may be
any permutation. A submission is modelled by what it goes by: prompt, ID or place.

*ImageMeasurement.* As the first, with one role. `linked` says that the journal's
temporary name exists too, between `os.link` and `unlink`.

*ProcessRunner.* One `Thread` action per step of the watch loop, of
`_terminate_process_group`, of the last reads and of the verdict, for the three uses of the
loop (`mode`). The environment moves between any two of them. Bytes are counted per pipe:
`written`, `total` (read), and `last`, the place of the process's last byte. A signal has no
effect of its own, because a process may end, or go on, at any step anyway. `wrong` is a
history variable: whether the process ever broke a rule.

*BatchRouter.* `rule` names the program: the team router, `hash_regex`, `feature_budget`,
`prompt_heuristic`, and two copies of the team router's rule in `training/`. An episode has the
scores, costs and rank costs that were predicted for it (or, for the rules that count words,
its features), so the floating point before the allocation is given and the allocation is
computed. `Choose` is the choice under a penalty with its tie-breaking, `Over...` the limits,
`Double`, `Bisect`, `Halve`, `Halved` the search, `Settle` what follows a search (the fill of
`hash_regex` searches again with the first result locked). Numbers are whole multiples of
declared units. A second call repeats the first with less to spend, in another order, or
by a copy of the rule. The submission is written to a temporary file that replaces the last.

*Protocol, SelfCheck.* A document is a record whose `readable` and `fields` stand for its
syntax and the form of its scalars; IDs, lengths, versions and everything that links two
documents are modelled one by one. `always-light` opens each file (which empties it), then
fills it; any of these steps may fail. Decimal scores are exact multiples, and `HalfEven` is the
rounding of the report.

*TieBreak.* `Advance` is the nesting of the loops over tiers, repetitions and submissions;
`Rotated` their order. A run of a container is one step with the outcomes that
`RuntimeResources` allows; `journals` are the directories with an unresolved one.

*Benchmark.* States of the source tree are numbered by its edits; a host measurement reads the
tree that is there when it runs, a container that of its image. `Script` and `Back` are the
`try` and `except` clauses of `_publish_report_pair` as lists of calls, `PairEnds` its `finally`.
`durable` says what a power loss may leave at each path. `unnoted` is the rename that an interrupt
kept out of `backups` or `published` (`PairSlips`); since only the rollback reads the two, the rename
and the interrupt after it are one step.

## Runs

| Run | Question | Bounds |
|---|---|---|
| `RuntimeCrash` | do attempt and recovery keep their promises, and implement the ledger? | 2 processes, 2 attempts, 1 engine, 2 faults |
| `RuntimeEngines` | can repointing the runtime command orphan a resource, and does somebody else's resource survive? | 2 processes, 1 attempt, 2 engines, 3 faults, one name taken |
| `RuntimeRecovery` | does every run return and recovery end? | 2 processes, 1 attempt, 2 engines, 1 fault, late requests |
| `RuntimeLateCreate` | finding 1 | 1 process, 1 fault |
| `OfficialTier` | do record, exit code and policy tell the truth over several runs? | 3 runs, limits of the code (3 and 3), 3 faults |
| `OfficialRecordLost` | finding 2 | 2 runs, 2 faults |
| `IdOrderAudit` | is the audit's comparison right for every secret, and do the four programs of `MCPrograms` keep their promises? | audit: 4 episodes, 2 models; routers: batches of 1 to 3 episodes, 4 artifacts' limits, 3 and 4 bisection steps; commands: 2 over one set of files; tie-break: 3 submissions, 5 runs, 2 mishaps; benchmark: 2 cells, 2 repetitions, 2 invocations, 1 edit, 2 faults |
| `BenchmarkReportsLost` | finding 5 | 1 cell, 1 invocation, 2 faults |
| `ImageMeasurement` | does the measurement keep its promises? | 2 commands, 3 tokens, 2 engines, 2 faults |
| `ProcessRunner` | is the verdict on a process right, whatever happens when? | 2 pipes of 2 blocks, 2 writes each, limit 1, 1 descendant |
| `MeasurementStuck`, `MeasurementOverlap` | findings 3 and 4 | 1 fault; none |

Why the bounds suffice to be interesting. Two processes are all a directory lock
distinguishes: a holder and a competitor. Two attempts make a second one meet what a
first one left; three runs of a tier make a third one meet a record that a second one
refused to replace or replaced. Two engines are one that was recorded and another. A fault
is a crash, a power loss, a failed command or write, or a repointing; two of them cover a
fault in the recovery from a fault, and the theorems cover every number of them. Four
episodes include cycles of every length up to four and, in the mutants, pairs and fixed
points. Two models suffice because the comparison only asks whether two choices are
equal. A pipe of two blocks takes both of the last reads to empty, and two writes exceed the
limit of one. The batches of `MCPrograms` have episodes that are cheap and useful, dear and
useful, tied, and equal to one another, so that a search jumps over a limit, ends at the fallback,
or splits a group; a few halvings are as good as forty, because the search is judged at every
step. Its files are one good set and, one at a time, every way in which a document can fail to fit.
Two mishaps among five runs leave the median of a submission alone, or hit it in two tiers.
Two invocations of the benchmark let the second find what the first left. `RuntimeCrash` and `RuntimeEngines` use symmetry of processes and tokens; the runs
with liveness do not. Deadlock is checked in the `Runtime…` runs; elsewhere the bounded
number of runs, tokens or stages lets the system stop, and `CHECK_DEADLOCK FALSE` says so.

Fairness. A process's own steps are weakly fair (`Step(p)`, `RunStep`, `Thread`): every Docker
command has a time limit after which the code goes on, and file operations do not wait
for anybody. Nothing is assumed of the daemon: it may never answer. In `ProcessRunner` time passes and
the watched process owes nothing. Recovery additionally
assumes the operator of `docs/OPERATIONS.md`, who restarts the engine, points the command
at the journal's engine and repeats the confirmed cleanup (strong fairness, because lock
contention may disable it now and then).

### What the properties say

- `NoOrphan`, `ObservedIsSettled`: a resource, or a request that may still create one, is
  on record on disk and after a power loss; a role recorded as observed cannot come back.
- `CleanVerdict`: who returns without `cleanup_pending` leaves nothing on the engine that the
  attempt recorded; and an attempt that gets past the removal of its own journal has left nothing
  on any engine. Between the two is a gap of the code: an attempt that was repointed and died, or
  kept its journal, may have a volume on the other engine, which the journal does not name and no
  recovery looks for. `PublishedOnEvidence`, `PendingMeansUnpublished`: a submission is published only
  for a run that was read back as clean, when nothing of it is left anywhere, and never beside a journal.
- `ForeignUntouched`: a resource of somebody else under one of our names survives, unless the
  runtime command is repointed between a look at the label and the removal by name, in a recovery or
  in the cleanup of the output.
- `LedgerSpec`: the refinement of `ResourceLedger`. `Inv`, the inductive invariant, implies the
  invariants above and is proved, not checked.
- `JournalResolved`, `RunsReturn`, `RunReturns`: liveness.
- `NumbersAgree`, `VerdictEarned`, `RetrySpec`: the retry policy, and that a whole tier with
  its audit follows it. `AttemptsBounded` is proved only.
- `SuccessNeverMasks`, `PendingIsNamed`, `VerdictComplete`, `ExitTellsRecord`,
  `SiblingsQuiet`: what a scheduler may conclude from record and exit code. 0, 5 and 6 are always on
  the record; 2 and 4 only when the run was let in and could write it (`reported`).
- `NothingStays`, `PromptRouterPasses`, `IdRouterCaught`: the audit.
- `SignalsOwnGroup`, `AnswerIsWhole`, `VerdictIsFair`, `RunnerReturns`: the process runner. Only one
  failure of the operator's is charged to the participant, by name (`unread`).
- `EvidenceLast`: evidence is published when container and journal are gone for good.
- `Searched`: what a router writes meets every limit or is the fallback, and the search never
  loses its bracket. `OrderBlind`: no router depends on the order of the batch, which the audit
  changes. `OnlyDown`: less to spend, or the router after a calibrated copy of its rule, never
  means a dearer model for any episode. `AcceptedFits`: an accepted artifact fits the features.
- `ReportEarned`: points in a report are those of complete decisions within the budget, whatever
  files were lying about. `LightScores`: `always-light`'s output passes `self-check` in every tier.
- `RankEarned`: a ranking is of equally many runs at every place of the order, and as long as
  fewer than half of a submission's runs in a tier were disturbed, it ranks what the routers
  usually take.
- `PairWhole`: two reports of different runs are only left under a marker, but for two interrupts
  that it names (`gaps`). `ReportTrue`: a
  published report is of the tree it names. `ReportsKept` is finding 5.

## Findings

1. *A late participant container loses its journal* (`RuntimeLateCreate`). When the Docker
   client ends by itself while the daemon still holds its request, the absent container is
   taken as never created (`runtime.py:1876`) and the journal is deleted, contrary to
   `docs/OPERATIONS.md:228` and `:235`. With `LateAfterExit = FALSE`, a client that exits
   leaves no request, and everything else holds.
2. *A refused run can lose the detailed record* (`OfficialRecordLost`). The `finally` of
   the private snapshot replaces `PendingRuntimeResources` when the directory cannot be
   deleted (`orchestrator.py:883`), and the plain record overwrites the detailed one
   that `docs/OPERATIONS.md:257-259` wants kept.
3. *A crash can leave a measurement journal that the tool rejects for ever*
   (`MeasurementStuck`): between `os.link` and `unlink` (`image_evidence.py:633`) it has two
   links, which `_load_measurement_journal` refuses (`image_evidence.py:687`).
4. *A measurement's journal can be removed by another command* (`MeasurementOverlap`):
   the path is unlinked without a lock and without a second look (`image_evidence.py:654`).
   `ImageMeasurement` therefore assumes that `--cleanup-pending` runs beside nothing else
   (`Alone`); measurements may run side by side.
5. *A failed publication can delete the earlier report* (`BenchmarkReportsLost`). When the
   rollback of `_publish_report_pair` is cut short by a second failure or interrupt before
   `tools/benchmark_runtime.py:2029`, the `finally` clause deletes the backups that were not moved
   back yet. The marker stays and asks to review a pair that is gone (`:1960`).

Observations that no run refutes:

- `training/calibrate_safety.py:165` calls its rule "Same rule as team_router.allocate.select_models";
  it has no share constraint and another number of halvings. `OnlyDown` shows that the router then
  never chooses dearer models than the copy, but only for risks that grow with the model, as
  those of the shipped artifact do. `MCPrograms` has artifacts with other risks.
- The share constraint bounds the budget only as far as the predicted shares are right; the comment
  at `heuristic.py:4415` says more than the code can hold, and the models take predictions as given.
- `PairWhole` leaves out two gaps of the publication by name. A publication whose last directory sync
  fails begins its rollback without a marker; if that fails too, a mixed pair may be left unmarked
  (`late`). And an interrupt that comes between a rename and its note in `backups` or `published`
  (`tools/benchmark_runtime.py:2012-2016`) is caught at `:2021`; the rollback skips that file and
  removes the marker (`:2033`), so one report is left alone (`unnoted`). Only a file that was laid down
  unnoted over a noted backup is made up for, because the backup overwrites it.
- Reconciliation compares a label and then removes by name (from `runtime.py:2495`) without looking at
  the engine again, and so does the cleanup of the output (`:1586` and `:1599`, `:1617` and `:1630`).
  Whoever repoints the command in between could lose a resource of that name on the other engine;
  `ForeignUntouched` leaves this case out.
- `load_json` turns an `OSError` into a `ProtocolError` (`protocol.py:149`), and the last reading of the
  output takes both for a bad submission (`runtime.py:1126`). An operator's read failure there is
  charged to the participant, although `docs/CHALLENGE_RULES.md:149-150` does not count runs that the
  operator's infrastructure spoiled. `VerdictIsFair` leaves this one case out (`unread`).
- `router-evaluate-tier` returns 2 when the command line, the input, the policy, the evidence or the
  record's path is refused (`orchestrator.py:1067`, `:1192-1196`), and 2 or 4 when it does not get the root,
  and leaves the record of an earlier run where it is. These codes alone do not say that the record is
  this run's; `ExitTellsRecord` says for which it is.
- The tie-break looks for journals only in the directories that this run numbers, and a valid run may
  take longer than the time that a failed one counts.

## Proofs

*The resource protocol.* `NoOrphan` and the like are not inductive: that nothing is left
when the journal is removed depends on what the process established step by step. `Inv`
adds this: mutual exclusion, one request per role, and for each label what the process
knows there (`JournalHeld`, `ReconcileKnows`, `AttemptStarts`, `ParticipantKnows`,
`CleanupKnows`), for instance that at the removal every role is `Gone`. `RuntimeProofs`
proves that steps keep the types and that each action keeps `Inv` (by `Reduce`:
the others are idle, so a step is judged by the shared state and by what its own process
knows next), and then adds the steps up: `TypeCorrect`, `NothingOrphaned`,
`ObservationsHold`, `LedgerImplemented`. They assume
`ConstantsAssumption` and `~LateAfterExit` (finding 1 shows why), and hold for all
processes, engines, attempts, taken names and numbers of faults.

What is published needs a second invariant, `PublicationInv`, beside `Inv`: from `prepare` on no
submission stands (`Unpublished`), a journal that was never written goes with no success, a success
gets to `publish` only with `durable` empty, and what the run read back of its container is the
success that its client reported (`Witnessed`: a success gets to the cleanup with a container that
had ended, or after a repointing, which the cleanup notices). A third, `BoundInv`, is about
resources on other engines: as long as the command reaches the engine that an attempt recorded, the
attempt has asked no other one for anything, and past its journal it has nothing anywhere (`Bound`).
`PendingUnpublished`, `EvidencePublished` and `VerdictsClean` follow.

`ForeignSafe` proves `ForeignUntouched` with another invariant beside `Inv`, `ForeignInv`: while a
foreign resource has a name, no resource of ours has it on that engine (`Apart`), and whoever is about
to remove a role by name on that engine has found the label to be his own (`Checked`).

*The retry policy.* The invariant ties the two counters to the history and says which
verdicts go with which last result: `NumbersDerivable`, `VerdictsEarned`, `AttemptsLimited`,
for all limits. `PolicyImplemented` shows that `OfficialTier` implements it, so they carry
over (`TierKeepsPolicy`). `NoneBesidePending` proves `SiblingsQuiet`.

*The official tier.* A record speaks of a run that is over, so `TierInv` says what the run knew
while it went on: at most one directory has a journal and only an attempt under way or a pending
cleanup explains it (`OneJournal`, `Quiet`), a verdict of success stands beside the submission
this run published (`Held`), a run that leaves has a decided verdict and has named or disowned
every journal (`Leaving`), and unless it failed it has wiped the private input before it writes the
record (`Wiped`). `Left` are
the four properties at the end of a run: `SuccessMasksNothing`, `PendingOnRecord`,
`VerdictsComplete`, `ExitsTell`; `TierTypes` is type correctness. `ExitsTell` counts the runs that were
turned away, which change the exit code and nothing else. They hold for all limits and all
numbers of runs and faults.

*The audit.* `LookupRouterCaught`: along the cycle each episode's answer under its new ID
equals the one under its old ID, so by induction on the place all IDs have the same answer;
a least counterexample stands in for the induction. `EverythingMoves` and
`HonestRouterPasses` follow from the same invariant, for every batch size.

*The process runner.* `AnswerIsWhole` holds because the reads left always suffice for what
the process wrote before it ended (`ReadsSuffice`): at most a pipe's capacity is unread then,
each round takes a `Chunk`, and a round that finds nothing has found all. The proof assumes
`Capacity <= Rounds * Chunk`; on Linux a pipe holds 64 KiB, a read takes as much, and there are
at least eight rounds. `SignalsStayOwn` follows from the same invariant. `VerdictsAreFair` proves
`VerdictIsFair` with a second one, `FairInv`, beside it: every way to break a rule is noticed where it
happens (`Broken`), every reason the thread had to end the process is true (`Grounds`), and what is
looked at in the end is this attempt's output as the process left it (`Fresh`). Nothing but the last
reading sets `unread`, so the exception does not cover another failure.

*The measurement.* There is no lock here, so `MeasurementInv` cannot say that the others are
idle: several measurements go on side by side, and only the journal keeps them apart. It says
that every token was drawn once (`Drawn`) and has at most one request or container (`OneEach`), on
the engine of the journal (`Placed`); that whoever is between linking and forgetting finds the
journal to be his own (`EndKnows`, `Holding`), so that no two are there at once; that a journal
says "confirmed" only after the answer, when no request is left (`Answered`); and that a cleanup
acts on the journal that is there (`CleanerKnows`). `OthersKnow` carries what a process knows over
the steps of the others. `MeasurementNamed` proves `NoOrphan`, `PublishedLast` proves
`EvidenceLast`, for all numbers of processes, tokens, engines and faults, under `Alone`: finding 4
shows that they need it.

*The routers.* `LimitsMet` proves `Searched`: the search's lower penalty breaks a limit and
`chosen` is the choice under its upper one, so what `Settle` passes on either meets the limits
or is the fallback; for `feature_budget`, whose rule is a walk over priorities, the invariant
says that what is chosen so far is affordable or is all light. `AcceptedArtifactsFit` compares
the width that is checked with the width of the features for all numbers of dense features,
frequencies and bins.

Two calls run one after the other, so what relates their answers is a fact about two histories and no
state holds both. `AnswersInv` therefore says of every answer that it has a history: finitely many steps
(`Follows`, one disjunct for each action) from the start of its call (`Reaches`, `Answer`). `EveryRouterBlind`
proves `OrderBlind` by going through two histories side by side: two calls on the same episodes in
another order (`Twin`) are at the same place with the same penalties, and what they chose and locked
differs by the order only (`Alike`), because sums do not depend on it (`SumPermuted`). `NeverUp` proves
`OnlyDown`: as long as the two searches are at the same place (`Level`) they have chosen the same; the
first step that parts them (`Parted`) is at a penalty p that is enough for the first and too little for
the second, after which the first stays at or below p (`Below`), the second above (`Above`) or with the
light model (`Lightly`), and a higher penalty never chooses a larger model (`ChooseDown`, which needs
`Ascending`). This is where the copy's larger number of halvings and its missing constraint enter, and the
argument does not need the costs to fall with the penalty, which nothing guarantees. Both assume
`NumbersAssumption` (budgets are at least the light cost, as in the only policy an artifact is used
with; the copy halves at least as often) and `BatchesAssumption` (predictions are numbers, costs and risks
not negative, batches not empty).

*The benchmark.* A power loss picks one of the states that each path and the marker may be in
(`durable`), so `PairInv` speaks of what may be left and not of what is there: `Whole` says that
whatever a power loss leaves without the marker belongs together, `Current` that what is there is
among it, `Numbered` that nobody else has this run's number. `PublishKnows` and `RollbackKnows` say
what is known before each call of `Script` and `Back`: a report is laid down only where the found
one was moved aside, and a rollback ends with what was found, durably, before the marker goes; a
rename that was not noted is either made up for by a backup or one of the `gaps` (`Noted`, `SlipKeepsPair`).
`PairsWhole` follows for all numbers of runs, edits and faults.

What a report says is a fact about the past, and `ReportInv` carries it along: an outcome stands at the
place that division by the number of repetitions gives it and is of a tree between the manifest and now
(`Measured`); the tree only grows, so a second manifest that equals the first excludes an edit in
between (`Concluded`); and what the publication has laid down is this run's (`Laid`). `ReportsTrue` assumes
`WorkloadsAssumption`, the types of the workloads.

*Sums.* `Sum` is a recursive function, and scores, costs and latencies are made of it. The library's
induction theorems cannot be instantiated here, so `ScoringProofs` proves that the function exists and
what it returns by the least length for which a fact would fail (`LeastMember`): the last number can be
split off (`SumLast`), the order does not matter (`SumPermuted`), larger numbers have a larger sum
(`SumMonotone`).

*The scoring.* A command checks the files step by step and the files stay as they are unless a command
writes them, so `CheckInv` says what the command under way has checked (`UnderWay`) and what the ones
before have left (`Left`); documents have the types that the parsers return (`FilesTyped`). Then
`ReportsEarned` proves `ReportEarned`, rounding included, and `LightPasses` proves `LightScores`: an
all-light submission costs what the budget multiplies. They assume `UnitsAssumption` and
`CasesAssumption` (units, and files of the form that the parsers see).

*The tie-break.* `LatencyInv` says that the runs taken are those the schedule asked for, in its order
(`InTurn`, `Due`), with the time each really took unless it was disturbed (`TakenTrue`), and that a
ranking was made of all of them (`Complete`). `RanksEarned` adds that rotation by remainders puts every
submission at every place equally often (a count by injections) and that a median with fewer than half
of its members disturbed is the usual one. It assumes `MeasuringAssumption` and `FieldsAssumption`.

*Left to TLC.* Everything temporal that needs fairness, which the provers do not reach. `AnswersInv`
speaks of histories of any length, so TLC does not evaluate it; it checks `OnlyDown` and `OrderBlind`.

## Abstractions

- A digest-pinned image does not change between its checks. File contents, paths, command
  lines and messages are abstracted to what the properties tell apart.
- `OfficialTier`: the attempts of one run in one directory share an identity, because a
  journal that survives one of them ends the run. A power loss of the record is not
  modelled. Everything that can refuse a run before it has the root and a record's path is one step,
  `TurnedAway`, with the exit codes 2 and 4.
- `RuntimeResources`: the command is not repointed away and back within one run
  unnoticed (`Repoint` never goes back to an engine that a run under way has recorded); the code compares
  the engine only before and after. A power loss takes back unsynced changes of the journal, not those of
  the submission, which is removed before the journal is written. Volumes that Docker creates by itself for a late helper are not modelled.
  Taken names are taken from the start.
- `ProcessRunner`: the texts of the retained logs, the elapsed time and the check of the
  arguments are left out; on the host, an output that a descendant replaces between the
  reads of its size, digest and content is one of the interleavings, but no property compares
  the three.
- `ImageMeasurement`: commands do not run while the context is repointed.

- `BatchRouter`: sums are exact; the code's are floating point or `fsum`. A batch whose costs lie
  within rounding of a limit is beyond this model.
- `SelfCheck`: nobody else writes its files while a command runs.
- `TieBreak`: one measurement at a time. A submission's usual time is the same for every tier, so a
  fault in the sum over tiers would be noticed less easily than one in the median or the order. What a container leaves is in `RuntimeResources`.
- `Benchmark`: an edit is never taken back between the two manifests; the tool reads the sources
  from the start of a worker to its end in one step. A container that a killed run leaves behind
  has no journal and is not modelled.

## Not modelled

- *OCI layout and evidence validation*, *trusted directories*: predicates on documents and file
  metadata that keep no state; the models take their outcome.
- *Features and fitted scores* of the routers, `train_hash_regex` and the fits of `training/`:
  floating point over text.
- *Statistics and text of the benchmark's report*, the layout of records: wording.
- *Data and validation tools*: one-shot downloads and checks of files.
- *Container image, data, schemas, documentation, notebooks*: no behaviour of their own.

## Plan

1. The outcomes that `RuntimeResources` takes of a client as an abstract specification that
   `ProcessRunner` implements; the output helper against a file that changes.
