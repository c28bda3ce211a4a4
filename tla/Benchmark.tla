----------------------------- MODULE Benchmark -----------------------------
(***************************************************************************)
(* tools/benchmark_runtime.py: the reference routers are measured on the   *)
(* host and in containers, and a report is published as a pair of a JSON   *)
(* and a Markdown file.  The tool is run several times while the sources   *)
(* are edited; it may be killed, and power may be lost.                    *)
(*                                                                         *)
(* The states of the source tree are numbered in the order of the edits,   *)
(* and an edit is never taken back.  A cell is a strategy under a tier; an *)
(* unsteady one may answer otherwise the first time, another one goes by   *)
(* the IDs and the order.  Outputs are 0 or 1.  Report 1 was there before, *)
(* run n publishes report n + 1.                                           *)
(***************************************************************************)
EXTENDS Protocol

CONSTANTS
  Cells,            \* the number of cells
  Representative,   \* the cells of REPRESENTATIVE_STRATEGIES
  Repetitions,
  Hosts,            \* the machines the tool may be run on
  Workloads,        \* the public inputs and their registry, as they may be found
  MaxEdits, MaxInvocations, MaxFaults

ASSUME BenchmarkAssumption ==
  Cells \in Nat \ {0} /\ Representative \subseteq 1..Cells /\ Repetitions \in Nat \ {0}

ASSUME WorkloadsAssumption ==
  \A w \in Workloads : InputTyped(w.train) /\ InputTyped(w.dev)

VARIABLES
  tree,        \* the source tree now
  quirk,       \* of each cell
  invocation,  \* runs of the tool so far
  options,     \* of this run: mode, boundary attestation, whether containers are measured
               \* and of what tree their image is, and the workload
  bench,       \* what the run does
  manifest,    \* the tree it saw first
  outcomes,    \* the measurements in their order: output and tree
  pair,        \* the report at each path, 0 without a file
  found,       \* the report that this run found at each path
  durable,     \* what a power loss may leave there, and of the marker
  backup,      \* the reports that were moved aside
  marker,      \* the transaction marker exists
  todo,        \* what is left of the publication or of its rollback
  unnoted,     \* the rename whose note in backups or published an interrupt forestalled
  gaps,        \* history: what rollbacks could not make up for, see PairWhole
  faults

setting == <<tree, quirk, invocation>>
measured == <<options, manifest, outcomes>>
files == <<pair, durable, backup, marker>>
script == <<todo, unnoted>>
benchVars == <<setting, measured, bench, found, files, script, gaps, faults>>

Path == {"json", "md"}

\* Every cell is run Repetitions times, then once more as it is and in a variant,
\* on the host and then in containers.
PerCell == Repetitions + 2
Half == Cells * PerCell
InContainer(j) == j > Half
CellOf(j) == (((j - 1) % Half) \div PerCell) + 1
Round(j) == ((j - 1) % PerCell) + 1

Outputs(c, round) ==
  CASE quirk[c] = "none"     -> {0}
    [] quirk[c] = "unsteady" -> IF round = 1 THEN {0, 1} ELSE {0}
    [] quirk[c] = "ids"      -> {IF round = PerCell THEN 1 ELSE 0}

AllJobs == IF options.containers THEN 2 * Half ELSE Half

-----------------------------------------------------------------------------

NoOptions == [official |-> FALSE, boundary |-> FALSE, containers |-> FALSE, built |-> 0,
              workload |-> <<>>]

BenchInit ==
  /\ tree = 1
  /\ quirk \in {q \in [1..Cells -> {"none", "unsteady", "ids"}] :
                  \A c, d \in 1..Cells : q[c] # "none" /\ q[d] # "none" => c = d}
  /\ invocation = 0 /\ bench = "idle"
  /\ manifest = 0 /\ options = NoOptions /\ outcomes = <<>>
  /\ found = [p \in Path |-> 0]
  /\ \E old \in {0, 1} :
       /\ pair = [p \in Path |-> old]
       /\ durable = [paths |-> [p \in Path |-> {old}], marker |-> {FALSE}]
  /\ backup = [p \in Path |-> 0] /\ marker = FALSE
  /\ todo = <<>> /\ unnoted = {} /\ gaps = {} /\ faults = 0

Fault == faults < MaxFaults /\ faults' = faults + 1

\* The process is gone, and what it measured with it.
Abort ==
  /\ bench' = "idle" /\ todo' = <<>> /\ unnoted' = {}
  /\ options' = NoOptions /\ manifest' = 0 /\ outcomes' = <<>>

Edit ==
  /\ tree <= MaxEdits
  /\ tree' = tree + 1
  /\ UNCHANGED <<quirk, invocation, measured, bench, found, files, script, gaps, faults>>

\* _require_image_source_binding: the label of the image against the tree.
Binds(built) == built = tree

\* What the command line asks for, and the machine it is run on.
Request == [official : BOOLEAN, boundary : BOOLEAN, image : BOOLEAN]
Host == [silicon : BOOLEAN, colima : BOOLEAN, daemon : BOOLEAN, local : BOOLEAN,
         image : {"unknown", "amd64", "arm64"}]

ASSUME HostAssumption == Hosts \subseteq Host

\* A boundary attestation is of an official run, an official run is of an image.
RequestAgrees(o) == (o.boundary => o.official) /\ (o.official => o.image)

\* _docker_json, _local_docker_context_evidence: a daemon behind a local socket.
LocalDaemon(h) == h.daemon /\ h.local

\* _probe_apple_silicon_environment
Probed(h) == h.silicon /\ h.colima /\ LocalDaemon(h)

\* _resolve_container_image
Resolves(h) == h.daemon /\ h.image # "unknown"

\* main, up to the first measurement.  The daemon is asked again before containers
\* are measured (_container_measurement): only an official run insists on it.
Accepted(o, h, there, built, workload) ==
  /\ RequestAgrees(o)
  /\ o.official => Probed(h) /\ h.image = "arm64" /\ o.image /\ there
  /\ o.image => Resolves(h) /\ Binds(built)
  /\ WorkloadLoads(workload)

Begin ==
  /\ bench = "idle" /\ invocation < MaxInvocations
  /\ invocation' = invocation + 1 /\ found' = pair
  /\ \/ /\ \E o \in Request, h \in Hosts, there \in BOOLEAN, built \in 1..tree, w \in Workloads :
             /\ Accepted(o, h, there, built, w)
             /\ options' = [official |-> o.official, boundary |-> o.boundary,
                            containers |-> o.image /\ there,
                            built |-> IF o.image /\ there THEN built ELSE 0,
                            workload |-> w]
        /\ bench' = "measure" /\ manifest' = tree
        /\ UNCHANGED <<outcomes, script>>
     \/ /\ ~ \A o \in Request, h \in Hosts, there \in BOOLEAN, built \in 1..tree, w \in Workloads :
               Accepted(o, h, there, built, w)
        /\ Abort
  /\ UNCHANGED <<tree, quirk, files, gaps, faults>>

Job == Len(outcomes) + 1

\* _run_once reads the sources as they are, _run_container_once those of the image.
RunOnce == [output : Outputs(CellOf(Job), Round(Job)), of : {tree}]
RunContainerOnce == [output : Outputs(CellOf(Job), Round(Job)), of : {options.built}]

Measuring == bench = "measure" /\ Len(outcomes) < AllJobs

MeasureOnHost ==
  /\ Measuring /\ ~InContainer(Job)
  /\ \E r \in RunOnce : outcomes' = Append(outcomes, r)
  /\ UNCHANGED <<setting, options, bench, manifest, found, files, script, gaps, faults>>

MeasureInContainer ==
  /\ Measuring /\ InContainer(Job)
  /\ \E r \in RunContainerOnce : outcomes' = Append(outcomes, r)
  /\ UNCHANGED <<setting, options, bench, manifest, found, files, script, gaps, faults>>

\* A worker or a container fails or times out, its output is invalid or the tool is
\* killed.
MeasuringFails ==
  /\ Measuring /\ Fault /\ Abort
  /\ UNCHANGED <<setting, found, files, gaps>>

\* _validate_cgroup_v2_metrics: an official container came up against a limit.
LimitMet ==
  /\ Measuring /\ InContainer(Job) /\ options.official /\ Fault /\ Abort
  /\ UNCHANGED <<setting, found, files, gaps>>

\* What was put out for a cell; deterministic, id_and_order_invariant.
Put(j, round) == outcomes[j - Round(j) + round].output
Deterministic(j) == \A k, l \in 1..Repetitions : Put(j, k) = Put(j, l)
Invariant(j) == Put(j, PerCell - 1) = Put(j, PerCell)

\* Fault: the tree is not read again.
TreeKept == TRUE

\* final_source_tree_manifest against the first one.
TreeSame == tree = manifest

\* _require_official_result_validity
OfficialValid == options.official => \A j \in 1..AllJobs : Deterministic(j) /\ Invariant(j)

Conclude ==
  /\ bench = "measure" /\ Len(outcomes) = AllJobs
  /\ IF OfficialValid /\ TreeSame
     THEN bench' = "mark" /\ UNCHANGED <<measured, script>>
     ELSE Abort
  /\ UNCHANGED <<setting, found, files, gaps, faults>>

\* _proposal: the limits are final.
Frozen ==
  /\ options.official /\ options.boundary /\ options.containers
  /\ \A j \in 1..AllJobs : InContainer(j) /\ CellOf(j) \in Representative =>
       Deterministic(j) /\ Invariant(j)

-----------------------------------------------------------------------------
(* _publish_report_pair: a script of steps and one to take them back. *)

\* Fault: the marker goes before the directories are synced.
ScriptHasty ==
  <<<<"aside", "json">>, <<"aside", "md">>, <<"publish", "json">>, <<"publish", "md">>,
    <<"unmark", "json">>, <<"sync", "json">>, <<"sync", "md">>>>

Script == <<<<"aside", "json">>, <<"aside", "md">>, <<"publish", "json">>,
            <<"publish", "md">>, <<"sync", "json">>, <<"sync", "md">>,
            <<"unmark", "json">>, <<"sync", "json">>>>

Back == <<<<"remove", "json">>, <<"remove", "md">>, <<"restore", "json">>,
          <<"restore", "md">>, <<"sync", "json">>, <<"sync", "md">>,
          <<"unmark", "json">>, <<"sync", "json">>>>

\* _create_report_transaction_marker, and the staged files.  A marker that is
\* there ends the run; one that could not be finished stays.
Mark ==
  /\ bench = "mark"
  /\ \/ marker /\ Abort /\ UNCHANGED <<marker, durable, faults>>
     \/ /\ ~marker /\ marker' = TRUE
        /\ \/ /\ durable' = [durable EXCEPT !.marker = {TRUE}]
              /\ bench' = "publish" /\ todo' = Script /\ UNCHANGED unnoted
              /\ UNCHANGED <<measured, faults>>
           \/ /\ durable' = [durable EXCEPT !.marker = {FALSE, TRUE}]
              /\ Abort /\ Fault
  /\ UNCHANGED <<setting, found, pair, backup, gaps>>

Lay(p, report) ==
  /\ pair' = [pair EXCEPT ![p] = report]
  /\ durable' = [durable EXCEPT !.paths[p] = @ \cup {report}]

\* The backup that this run made and noted: the process knows no other.
Aside(p) == found[p] # 0 /\ backup[p] = found[p] /\ <<"aside", p>> \notin unnoted

\* The report that it laid down and noted.
Listed(p) == pair[p] = invocation + 1 /\ <<"publish", p>> \notin unnoted

\* One call of the operating system.
Call(op, p) ==
  \/ /\ op = "aside" /\ pair[p] # 0
     /\ backup' = [backup EXCEPT ![p] = pair[p]]
     /\ Lay(p, 0) /\ UNCHANGED marker
  \/ /\ op = "publish"
     /\ Lay(p, invocation + 1) /\ UNCHANGED <<backup, marker>>
  \/ /\ op = "remove" /\ Listed(p)
     /\ Lay(p, 0) /\ UNCHANGED <<backup, marker>>
  \/ /\ op = "restore" /\ Aside(p)
     /\ Lay(p, backup[p])
     /\ backup' = [backup EXCEPT ![p] = 0] /\ UNCHANGED marker
  \/ /\ op = "sync"
     /\ durable' = [paths |-> [durable.paths EXCEPT ![p] = {pair[p]}],
                    marker |-> IF p = "json" THEN {marker} ELSE durable.marker]
     /\ UNCHANGED <<pair, backup, marker>>
  \/ /\ op = "unmark" /\ marker
     /\ marker' = FALSE
     /\ durable' = [durable EXCEPT !.marker = @ \cup {FALSE}]
     /\ UNCHANGED <<pair, backup>>
  \/ /\ \/ op = "aside" /\ pair[p] = 0
        \/ op = "remove" /\ ~Listed(p)
        \/ op = "restore" /\ ~Aside(p)
        \/ op = "unmark" /\ ~marker
     /\ UNCHANGED files

PairStep ==
  /\ bench \in {"publish", "rollback"} /\ todo # <<>>
  /\ Call(Head(todo)[1], Head(todo)[2])
  /\ todo' = Tail(todo)
  /\ UNCHANGED <<setting, measured, bench, found, unnoted, gaps, faults>>

Rollback == bench' = "rollback" /\ todo' = Back

\* A call fails or the tool is interrupted between two: what was done is taken back, once.
PairFails ==
  /\ bench = "publish" /\ Fault /\ Rollback
  /\ gaps' = gaps \cup (IF marker THEN {} ELSE {"late"})
  /\ UNCHANGED <<setting, measured, found, files, unnoted>>

\* An interrupt between a rename and its note: the rollback skips that file.  Nothing
\* else reads the notes, so the rename and the interrupt are one step.
PairSlips ==
  /\ bench = "publish" /\ todo # <<>> /\ Fault /\ Rollback
  /\ \E op \in {"aside", "publish"}, p \in Path :
       /\ Head(todo) = <<op, p>>
       /\ op = "aside" => pair[p] # 0
       /\ Call(op, p)
       /\ unnoted' = {<<op, p>>}
       /\ gaps' = gaps \cup (IF op = "aside" \/ found[p] = 0 THEN {"unnoted"} ELSE {})
  /\ UNCHANGED <<setting, measured, found>>

\* The end, also of a rollback that fails or is interrupted: the finally clause
\* deletes what was staged or moved aside and is still there.
PairEnds ==
  /\ bench \in {"publish", "rollback"}
  /\ \/ todo = <<>> /\ UNCHANGED faults
     \/ bench = "rollback" /\ todo # <<>> /\ Fault
  /\ backup' = [p \in Path |-> IF Aside(p) THEN 0 ELSE backup[p]]
  /\ IF bench = "publish" THEN bench' = "done" /\ UNCHANGED <<measured, script>> ELSE Abort
  /\ UNCHANGED <<setting, found, pair, durable, marker, gaps>>

Leave ==
  /\ bench = "done" /\ Abort
  /\ UNCHANGED <<setting, found, files, gaps, faults>>

BenchKilled ==
  /\ bench \in {"mark", "publish", "rollback"} /\ Fault /\ Abort
  /\ UNCHANGED <<setting, found, files, gaps>>

\* A rename is lost as a whole: what was moved away is at one of its two names.
Older(p) == durable.paths[p] \ {0, invocation + 1}

PowerIsLost ==
  /\ Fault /\ Abort
  /\ \E at \in [Path -> 0..MaxInvocations + 1], there \in durable.marker :
       /\ \A p \in Path : at[p] \in durable.paths[p]
       /\ pair' = at /\ marker' = there
       /\ durable' = [paths |-> [p \in Path |-> {at[p]}], marker |-> {there}]
       /\ backup' = [p \in Path |->
                       CASE at[p] = 0 /\ Older(p) # {} -> CHOOSE r \in Older(p) : TRUE
                         [] at[p] # 0 /\ at[p] = backup[p] -> 0
                         [] OTHER -> backup[p]]
  /\ UNCHANGED <<setting, found, gaps>>

BenchNext ==
  \/ Edit \/ Begin \/ MeasureOnHost \/ MeasureInContainer \/ MeasuringFails \/ LimitMet
  \/ Conclude
  \/ Mark \/ PairStep \/ PairFails \/ PairSlips \/ PairEnds \/ Leave \/ BenchKilled \/ PowerIsLost

BenchSpec == BenchInit /\ [][BenchNext]_benchVars

-----------------------------------------------------------------------------
(* Properties. *)

\* Reports of two runs, or one report without the other, are only left under the
\* marker, which stops every later publication: after a failure, an interrupt, a kill
\* and a power loss.  Two interrupts are excepted.  One that comes when the marker was
\* removed ("late"): the rollback begins without a marker, and must not fail too.  And
\* one that comes between a rename and its note in backups or published ("unnoted"): the
\* rollback skips that file and removes the marker all the same, which is only made up
\* for when what was laid down unnoted is overwritten by the report it replaced.
PairWhole ==
  bench = "idle" /\ ~marker /\ gaps = {} => pair["json"] = pair["md"]

\* A report that was published is of the tree it names, on the host and in
\* containers, and of a workload in which no episode is twice; no cell of an official
\* one goes by the IDs, and the limits are final only when no representative router does.
ReportTrue ==
  bench = "done" =>
    /\ \A j \in 1..Len(outcomes) : outcomes[j].of = manifest
    /\ UniqueIds(Combined(options.workload.train, options.workload.dev).episodes)
    /\ pair = [p \in Path |-> invocation + 1]
    /\ options.official => \A c \in 1..Cells : quirk[c] # "ids"
    /\ Frozen => \A c \in Representative : quirk[c] # "ids"

\* A publication that did not succeed leaves a report at every path that had one, or
\* beside it, for the operator who is to review the pair.
ReportsKept ==
  bench = "idle" =>
    \A p \in Path : found[p] # 0 => pair[p] # 0 \/ backup[p] # 0

=============================================================================
