-------------------------- MODULE RuntimeResources --------------------------
(***************************************************************************)
(* The life of one isolated attempt of runtime.py and of the Docker        *)
(* resources it asks for: an output volume, an operator helper container   *)
(* and the participant container.                                          *)
(*                                                                         *)
(* Killing a Docker client does not cancel what it asked of the daemon, so *)
(* a resource may appear long after the code gave up on it.  The operator  *)
(* code therefore persists an intent (the resource journal) before the     *)
(* first request and deletes it only when nothing of the attempt can exist *)
(* any more.  This module models that protocol: evaluators and the cleanup *)
(* tool competing for an output directory, the journal file with its       *)
(* fsyncs, the daemon completing requests late, process crashes, power     *)
(* loss, a runtime command that is repointed to another engine, failed     *)
(* control commands, and names taken by somebody else's resources.         *)
(***************************************************************************)
EXTENDS Integers, Sequences, FiniteSets

CONSTANTS
  Proc,           \* operator processes working on one output directory
  Engine,         \* Docker Engines the runtime command may reach
  Token,          \* attempt tokens (secrets.token_hex(16)); bounds the attempts
  NoProc, NoEngine, NoToken, NoJournal,
  TakenNames,     \* names that other people's resources may have taken
  MaxFaults,      \* how many faults a behaviour may contain
  LateAfterExit   \* may a request outlive a Docker client that exited by itself?

Role == {"participant", "helper", "volume"}
RoleOrder == <<"participant", "helper", "volume">>

\* A resource, and the request that creates it: the engine, and the name,
\* which the code derives from the attempt and the role.
Resource == [eng : Engine, tok : Token, role : Role]
Journal  == [tok : Token, eng : Engine, observed : SUBSET Role]
Observing(j, roles) == [tok |-> j.tok, eng |-> j.eng, observed |-> roles]

ASSUME ConstantsAssumption ==
  /\ NoProc \notin Proc
  /\ NoEngine \notin Engine
  /\ NoToken \notin Token
  /\ NoJournal \notin Journal
  /\ TakenNames \subseteq Resource
  /\ MaxFaults \in Nat
  /\ LateAfterExit \in BOOLEAN

VARIABLES
  \* --- Docker
  engine,       \* the engine the runtime command reaches now
  live,         \* resources of ours that exist
  pending,      \* create requests a client or a daemon still holds
  foreign,      \* other people's resources under names of ours
  settled,      \* engines restarted since the last create request they got
  born,         \* engine whose ID an attempt recorded, NoEngine when not begun
  box,          \* what happens inside the participant container of a run
  \* --- the output directory
  disk,         \* the journal a reader of the directory finds
  durable,      \* the journal that survives a power loss
  submission,   \* attempt whose submission.json is published
  lock,         \* holder of .ossp-router-resource.lock
  \* --- the processes
  pc, cont, mode, home, tok, memory, cursor, missing, seen, result,
  faults        \* faults left

dockerVars == <<engine, live, pending, foreign, settled, born, box>>
diskVars   == <<disk, durable, submission, lock>>
localVars  == <<mode, home, tok, memory, cursor, missing, seen>>
vars == <<dockerVars, diskVars, pc, cont, localVars, result, faults>>

Mode   == {"evaluate", "cleanup", "confirmed"}
Status == {"none", "created", "running", "exited"}
Box    == [status : Status, code : 0..1, health : {"fine", "oom", "error"}]
Seen   == [first : Status, now : Box]
Result == [kind : {"none", "valid", "execution", "infrastructure", "raised"},
           flags : SUBSET {"cleanup_pending", "operator_terminated"},
           rc : {0, 1, 125, 127}]
Label  == {"idle", "sync", "load", "reInspect", "reRemove", "reVerify",
           "reFinish", "reForget", "prepare", "intend", "createVolume",
           "volumeReply", "createHelper", "helperReply", "hostPolicy",
           "launch", "running", "identify", "inspect", "stop", "restat",
           "remove", "clean", "cleanHelper", "dropHelper", "cleanVolume",
           "dropVolume", "settle", "forget", "publish", "finish"}

NoBox    == [status |-> "none", code |-> 0, health |-> "fine"]
Created  == [status |-> "created", code |-> 0, health |-> "fine"]
NoSeen   == [first |-> "none", now |-> NoBox]
NoResult == [kind |-> "none", flags |-> {}, rc |-> 0]
Raised   == [kind |-> "raised", flags |-> {}, rc |-> 0]
Pending  == {"cleanup_pending"}
Killed   == {"operator_terminated"}
CleanupPending(res)     == "cleanup_pending" \in res.flags
OperatorTerminated(res) == "operator_terminated" \in res.flags

TypeOK ==
  /\ engine \in Engine
  /\ live \subseteq Resource /\ pending \subseteq Resource
  /\ foreign \subseteq Resource
  /\ settled \subseteq Engine
  /\ born \in [Token -> Engine \cup {NoEngine}]
  /\ box \in [Proc -> Box]
  /\ disk \in Journal \cup {NoJournal} /\ durable \in Journal \cup {NoJournal}
  /\ submission \in Token \cup {NoToken}
  /\ lock \in Proc \cup {NoProc}
  /\ pc \in [Proc -> Label] /\ cont \in [Proc -> Label]
  /\ mode \in [Proc -> Mode]
  /\ home \in [Proc -> Engine \cup {NoEngine}]
  /\ tok \in [Proc -> Token \cup {NoToken}]
  /\ memory \in [Proc -> SUBSET Role] /\ missing \in [Proc -> SUBSET Role]
  /\ cursor \in [Proc -> 1..3]
  /\ seen \in [Proc -> Seen]
  /\ result \in [Proc -> Result]
  /\ faults \in 0..MaxFaults

Init ==
  /\ engine \in Engine
  /\ live = {} /\ pending = {}
  /\ foreign \in {{}} \cup {{n} : n \in TakenNames}
  /\ settled = {}
  /\ born = [t \in Token |-> NoEngine]
  /\ box = [p \in Proc |-> NoBox]
  /\ disk = NoJournal /\ durable = NoJournal
  /\ submission = NoToken
  /\ lock = NoProc
  /\ pc = [p \in Proc |-> "idle"] /\ cont = [p \in Proc |-> "idle"]
  /\ mode = [p \in Proc |-> "evaluate"]
  /\ home = [p \in Proc |-> NoEngine]
  /\ tok = [p \in Proc |-> NoToken]
  /\ memory = [p \in Proc |-> {}] /\ missing = [p \in Proc |-> {}]
  /\ cursor = [p \in Proc |-> 1]
  /\ seen = [p \in Proc |-> NoSeen]
  /\ result = [p \in Proc |-> NoResult]
  /\ faults = MaxFaults

-----------------------------------------------------------------------------
(* Vocabulary of the steps. *)

Fault == faults > 0 /\ faults' = faults - 1
Calm  == UNCHANGED faults

Goto(p, l) == pc' = [pc EXCEPT ![p] = l]

\* The name of a role of p's attempt, on the engine the command reaches now.
Name(p, role) == [eng |-> engine, tok |-> tok[p], role |-> role]

Owned(p, role)  == Name(p, role) \in live
Taken(p, role)  == Name(p, role) \in foreign
Absent(p, role) == Name(p, role) \notin live \cup foreign

\* `docker rm --force <name>`: whatever bears the name goes.
RemoveByName(n) == live' = live \ {n} /\ foreign' = foreign \ {n}
\* The daemon is asked for a resource on whichever engine is reached.
Request(p, role) ==
  /\ pending' = pending \cup {Name(p, role)}
  /\ settled' = settled \ {engine}

\* _infrastructure_result: what was a result becomes an operator failure.
Infra(res, flags) ==
  IF res.kind = "raised" THEN res
  ELSE [kind |-> "infrastructure", flags |-> res.flags \cup flags, rc |-> res.rc]

\* Give up with a verdict: what is left is for the operator to resolve.
Refuse(p) ==
  /\ result' = [result EXCEPT ![p] = Infra(@, Pending)]
  /\ Goto(p, "finish")
  /\ UNCHANGED cont

\* Where an exception of _write_resource_journal (or of the removal) lands,
\* by what the code was about to do after it.
AfterFailedWrite(next) ==
  IF next = "createVolume" THEN "settle"
  ELSE IF next \in {"createHelper", "hostPolicy"} THEN "clean"
  ELSE IF next = "stop" THEN "stop" ELSE "finish"

\* Whether that verdict says cleanup_pending: not before the first Docker
\* change; in the reconciliation ("reRemove" ... "finish"), when a journal is
\* left; always in the attempt itself.
FlagsAfterFailedWrite(next, left) ==
  IF \/ next = "createVolume"
     \/ next \in {"reRemove", "reForget", "prepare", "finish"} /\ left = NoJournal
  THEN {} ELSE Pending

FailedWrite(p, next, left) ==
  /\ result' = [result EXCEPT
       ![p] = Infra(@, FlagsAfterFailedWrite(next, left))]
  /\ Goto(p, AfterFailedWrite(next))

\* The journal of p's attempt.
Entry(p, roles) == [tok |-> tok[p], eng |-> home[p], observed |-> roles]

\* Replace (or unlink) the journal file, then fsync the directory.
Write(p, j, next) ==
  \/ /\ disk' = j
     /\ Goto(p, "sync")
     /\ cont' = [cont EXCEPT ![p] = next]
     /\ Calm
     /\ UNCHANGED result
  \/ /\ Fault
     /\ FailedWrite(p, next, disk)
     /\ UNCHANGED <<disk, cont>>

Fsync(p) ==
  /\ pc[p] = "sync"
  /\ \/ /\ durable' = disk
        /\ Goto(p, cont[p])
        /\ Calm
        /\ UNCHANGED result
     \/ /\ Fault
        /\ FailedWrite(p, cont[p], disk)
        /\ UNCHANGED durable
  /\ UNCHANGED <<dockerVars, disk, submission, lock, cont, localVars>>

-----------------------------------------------------------------------------
(* Entering: the non-blocking lock, then _reconcile_resource_journal. *)

\* The lock is taken or the caller gets a verdict at once; contention changes
\* nothing.  "confirmed" is the cleanup tool with --confirm-daemon-restarted,
\* which the operator passes after restarting the engine of the journal.
Start(p, m) ==
  /\ pc[p] = "idle"
  /\ lock = NoProc
  /\ m = "evaluate"  => \E t \in Token : born[t] = NoEngine
  /\ m = "confirmed" => {j.eng : j \in {disk} \ {NoJournal}} \subseteq settled
  /\ lock' = p
  /\ mode' = [mode EXCEPT ![p] = m]
  /\ Goto(p, "load")
  /\ Calm
  /\ UNCHANGED <<dockerVars, disk, durable, submission, cont, home, tok,
                 memory, cursor, missing, seen, result>>

AfterReconcile(p) == IF mode[p] = "evaluate" THEN "prepare" ELSE "finish"

LoadJournal(p) ==
  /\ pc[p] = "load"
  /\ \/ /\ disk = NoJournal
        /\ Goto(p, AfterReconcile(p))
        /\ UNCHANGED <<cont, result, home, tok, memory>>
     \/ /\ disk # NoJournal
        /\ disk.eng = engine
        /\ home' = [home EXCEPT ![p] = engine]
        /\ tok' = [tok EXCEPT ![p] = disk.tok]
        /\ memory' = [memory EXCEPT ![p] = disk.observed]
        /\ Goto(p, "reInspect")
        /\ UNCHANGED <<cont, result>>
     \/ /\ disk # NoJournal
        /\ disk.eng # engine
        /\ Refuse(p)
        /\ UNCHANGED <<home, tok, memory>>
  /\ Calm
  /\ UNCHANGED <<dockerVars, diskVars, mode, cursor, missing, seen>>

\* A control command fails, times out or answers nonsense.
ReconcileFails(p) ==
  /\ pc[p] \in {"load", "reInspect", "reRemove", "reVerify", "reForget"}
  /\ disk # NoJournal
  /\ Fault
  /\ Refuse(p)
  /\ UNCHANGED <<dockerVars, diskVars, localVars>>

\* Fault: one role too many.
NextRoleOverruns(p) ==
  Goto(p, "reInspect") /\ cursor' = [cursor EXCEPT ![p] = @ + 1]

\* Proceed to the next role, or to the verdict after the last one.
NextRole(p) ==
  IF cursor[p] = Len(RoleOrder)
  THEN Goto(p, "reFinish") /\ UNCHANGED cursor
  ELSE Goto(p, "reInspect") /\ cursor' = [cursor EXCEPT ![p] = @ + 1]

\* Fault: what is absent is taken for gone.
ReAbsentHopeful(p) ==
  /\ pc[p] = "reInspect"
  /\ Absent(p, RoleOrder[cursor[p]])
  /\ memory' = [memory EXCEPT ![p] = @ \cup {RoleOrder[cursor[p]]}]
  /\ NextRole(p)
  /\ Calm
  /\ UNCHANGED <<dockerVars, diskVars, cont, mode, home, tok, missing, seen,
                 result>>

\* Fault: the operator's confirmation is not looked at.
ReAbsentDeaf(p) ==
  LET role == RoleOrder[cursor[p]] IN
  /\ pc[p] = "reInspect"
  /\ Absent(p, role)
  /\ missing' = [missing EXCEPT
       ![p] = IF role \in memory[p] THEN @ ELSE @ \cup {role}]
  /\ NextRole(p)
  /\ Calm
  /\ UNCHANGED <<dockerVars, diskVars, cont, mode, home, tok, memory, seen,
                 result>>

\* The role in turn is absent: gone if it was ever seen, or if the operator
\* vouches for the engine; otherwise its creation is still in doubt.
ReAbsent(p) ==
  LET role == RoleOrder[cursor[p]] IN
  /\ pc[p] = "reInspect"
  /\ Absent(p, role)
  /\ IF role \in memory[p] \/ mode[p] = "confirmed"
     THEN /\ memory' = [memory EXCEPT ![p] = @ \cup {role}]
          /\ UNCHANGED missing
     ELSE /\ missing' = [missing EXCEPT ![p] = @ \cup {role}]
          /\ UNCHANGED memory
  /\ NextRole(p)
  /\ Calm
  /\ UNCHANGED <<dockerVars, diskVars, cont, mode, home, tok, seen, result>>

\* It is there under the journal's label, seen before ...
ReKnown(p) ==
  LET role == RoleOrder[cursor[p]] IN
  /\ pc[p] = "reInspect"
  /\ Owned(p, role)
  /\ role \in memory[p]
  /\ Goto(p, "reRemove")
  /\ Calm
  /\ UNCHANGED <<dockerVars, diskVars, cont, localVars, result>>

\* ... or for the first time, which the journal learns before the removal.
ReDiscovered(p) ==
  LET role == RoleOrder[cursor[p]] IN
  /\ pc[p] = "reInspect"
  /\ Owned(p, role)
  /\ role \notin memory[p]
  /\ memory' = [memory EXCEPT ![p] = @ \cup {role}]
  /\ Write(p, Observing(disk, memory[p] \cup {role}), "reRemove")
  /\ UNCHANGED <<dockerVars, durable, submission, lock, mode, home, tok, cursor,
                 missing, seen>>

\* It is there under another label: nothing is touched.
ReTaken(p) ==
  /\ pc[p] = "reInspect"
  /\ Taken(p, RoleOrder[cursor[p]])
  /\ Refuse(p)
  /\ Calm
  /\ UNCHANGED <<dockerVars, diskVars, localVars>>

\* The removal is obeyed, whether or not its client reports so.
ReRemove(p) ==
  /\ pc[p] = "reRemove"
  /\ RemoveByName(Name(p, RoleOrder[cursor[p]]))
  /\ \/ Goto(p, "reVerify") /\ Calm /\ UNCHANGED <<cont, result>>
     \/ Fault /\ Refuse(p)
  /\ UNCHANGED <<engine, pending, settled, born, box, diskVars, localVars>>

\* A second inspection must show the name free.
ReVerify(p) ==
  /\ pc[p] = "reVerify"
  /\ Absent(p, RoleOrder[cursor[p]])
  /\ NextRole(p)
  /\ Calm
  /\ UNCHANGED <<dockerVars, diskVars, cont, mode, home, tok, memory, missing,
                 seen, result>>

\* Something bears the name still, or again, under whatever label.
ReUnremoved(p) ==
  /\ pc[p] = "reVerify"
  /\ ~Absent(p, RoleOrder[cursor[p]])
  /\ Refuse(p)
  /\ Calm
  /\ UNCHANGED <<dockerVars, diskVars, localVars>>

ReInDoubt(p) ==
  /\ pc[p] = "reFinish"
  /\ missing[p] # {}
  /\ Refuse(p)
  /\ Calm
  /\ UNCHANGED <<dockerVars, diskVars, localVars>>

ReFinish(p) ==
  /\ pc[p] = "reFinish"
  /\ missing[p] = {}
  /\ Write(p, Observing(disk, memory[p]), "reForget")
  /\ UNCHANGED <<dockerVars, durable, submission, lock, localVars>>

\* Fault: the engine is not looked at again.
ReForgetBlind(p) ==
  /\ pc[p] = "reForget"
  /\ Write(p, NoJournal, AfterReconcile(p))
  /\ UNCHANGED <<dockerVars, durable, submission, lock, localVars>>

\* The engine must still be the journal's when the journal goes.
ReForget(p) ==
  /\ pc[p] = "reForget"
  /\ engine = home[p]
  /\ Write(p, NoJournal, AfterReconcile(p))
  /\ UNCHANGED <<dockerVars, durable, submission, lock, localVars>>

ReMoved(p) ==
  /\ pc[p] = "reForget"
  /\ engine # home[p]
  /\ Refuse(p)
  /\ Calm
  /\ UNCHANGED <<dockerVars, diskVars, localVars>>

-----------------------------------------------------------------------------
(* The attempt: _run_isolated_container_once_locked. *)

\* Drop the published result, check the image, read the engine ID and draw the
\* attempt's token.
Prepare(p) ==
  /\ pc[p] = "prepare"
  /\ \/ \E t \in Token :
          /\ born[t] = NoEngine
          /\ born' = [born EXCEPT ![t] = engine]
          /\ tok' = [tok EXCEPT ![p] = t]
          /\ home' = [home EXCEPT ![p] = engine]
          /\ memory' = [memory EXCEPT ![p] = {}]
          /\ box' = [box EXCEPT ![p] = NoBox]
          /\ submission' = NoToken
          /\ Goto(p, "intend")
          /\ Calm
          /\ UNCHANGED result
     \/ /\ Fault
        /\ submission' \in {submission, NoToken}
        /\ result' = [result EXCEPT ![p] = Infra(@, {})]
        /\ Goto(p, "finish")
        /\ UNCHANGED <<born, tok, home, memory, box>>
  /\ UNCHANGED <<engine, live, pending, foreign, settled, disk, durable,
                 lock, cont, mode, cursor, missing, seen>>

\* Fault: the first request goes out before the intent is on disk.
IntendUnwritten(p) ==
  /\ pc[p] = "intend"
  /\ Goto(p, "createVolume")
  /\ Calm
  /\ UNCHANGED <<dockerVars, diskVars, cont, localVars, result>>

Intend(p) ==
  /\ pc[p] = "intend"
  /\ Write(p, Entry(p, {}), "createVolume")
  /\ UNCHANGED <<dockerVars, durable, submission, lock, localVars>>

\* cursor remembers what the output cleanup has to visit: 3 the volume only,
\* 2 the helper and the volume.
CreateVolume(p) ==
  /\ pc[p] = "createVolume"
  /\ Request(p, "volume")
  /\ cursor' = [cursor EXCEPT ![p] = 3]
  /\ Goto(p, "volumeReply")
  /\ Calm
  /\ UNCHANGED <<engine, live, foreign, born, box, diskVars, cont, mode, home,
                 tok, memory, missing, seen, result>>

CreateHelper(p) ==
  /\ pc[p] = "createHelper"
  /\ Request(p, "helper")
  /\ cursor' = [cursor EXCEPT ![p] = 2]
  /\ Goto(p, "helperReply")
  /\ Calm
  /\ UNCHANGED <<engine, live, foreign, born, box, diskVars, cont, mode, home,
                 tok, memory, missing, seen, result>>

\* Fault: a role is recorded as observed when it was asked for.
RecordedUnseen(p, role, next) ==
  /\ memory' = [memory EXCEPT ![p] = @ \cup {role}]
  /\ Write(p, Entry(p, memory[p] \cup {role}), next)
  /\ UNCHANGED <<dockerVars, durable, submission, lock, mode, home, tok,
                 cursor, missing, seen>>

\* The create command and the label inspection after it show the resource ours:
\* it is recorded as observed.
Recorded(p, role, next) ==
  /\ Owned(p, role)
  /\ memory' = [memory EXCEPT ![p] = @ \cup {role}]
  /\ Write(p, Entry(p, memory[p] \cup {role}), next)
  /\ UNCHANGED <<dockerVars, durable, submission, lock, mode, home, tok,
                 cursor, missing, seen>>

VolumeReply(p) == pc[p] = "volumeReply" /\ Recorded(p, "volume", "createHelper")
HelperReply(p) == pc[p] = "helperReply" /\ Recorded(p, "helper", "hostPolicy")

\* Fault: the client is waited for without a limit.
ReplyAwaited(p) ==
  /\ pc[p] \in {"volumeReply", "helperReply"}
  /\ \A r \in pending : r.tok # tok[p]
  /\ result' = [result EXCEPT ![p] = Infra(@, Pending)]
  /\ Goto(p, "clean")
  /\ Calm
  /\ UNCHANGED <<dockerVars, diskVars, cont, localVars>>

\* Or the attempt gives up in doubt: the client failed or ran out of time, the
\* resource cannot be inspected, or bears no label or another one.
ReplyInDoubt(p) ==
  /\ pc[p] \in {"volumeReply", "helperReply"}
  /\ result' = [result EXCEPT ![p] = Infra(@, Pending)]
  /\ Goto(p, "clean")
  /\ Calm
  /\ UNCHANGED <<dockerVars, diskVars, cont, localVars>>

\* validate_host_core_dump_policy, read from inside the helper.
HostPolicy(p) ==
  /\ pc[p] = "hostPolicy"
  /\ \/ Goto(p, "launch") /\ Calm /\ UNCHANGED result
     \/ /\ Fault
        /\ result' = [result EXCEPT ![p] = Infra(@, {})]
        /\ Goto(p, "clean")
  /\ UNCHANGED <<dockerVars, diskVars, cont, localVars>>

Launch(p) ==
  /\ pc[p] = "launch"
  /\ \/ /\ Request(p, "participant")
        /\ Goto(p, "running")
        /\ Calm
        /\ UNCHANGED result
     \/ /\ Fault
        /\ result' = [result EXCEPT ![p] = Infra(@, {})]
        /\ Goto(p, "identify")
        /\ UNCHANGED <<pending, settled>>
  /\ UNCHANGED <<engine, live, foreign, born, box, diskVars, cont, localVars>>

-----------------------------------------------------------------------------
(* The participant's run: _run_prepared_router_once. *)

Verdict(p, kind, flags, rc) ==
  /\ result' = [result EXCEPT ![p] = [kind |-> kind, flags |-> flags, rc |-> rc]]
  /\ Goto(p, "identify")

\* The container ended and the client reports its exit code; a zero is followed
\* by the extraction and the validation of the output.  A client may also report
\* success and leave a container that is still running.
RunEnds(p) ==
  /\ pc[p] = "running"
  /\ \/ /\ box[p].status = "exited"
        /\ \/ box[p].code = 0 /\ Verdict(p, "valid", {}, 0) /\ Calm
           \/ Verdict(p, "execution", {}, box[p].code) /\ Calm
           \/ box[p].code = 0 /\ Verdict(p, "infrastructure", {}, 0) /\ Fault
     \/ box[p].status = "running" /\ Verdict(p, "valid", {}, 0) /\ Fault
  /\ UNCHANGED <<dockerVars, diskVars, cont, localVars>>

\* Wall time or log limit: the client is killed whatever the daemon is doing.
RunTerminated(p) ==
  /\ pc[p] = "running"
  /\ \/ Verdict(p, "execution", Killed, 1) /\ Calm
     \/ Verdict(p, "infrastructure", Killed, 1) /\ Fault
  /\ UNCHANGED <<dockerVars, diskVars, cont, localVars>>

\* The client gives up by itself: 127 when the image's command cannot be
\* invoked, 125 for an error of Docker or of its connection to the daemon.
ClientFails(p) ==
  /\ pc[p] = "running"
  /\ \/ box[p].status = "created" /\ Verdict(p, "execution", {}, 127) /\ Calm
     \/ /\ \A r \in pending : r.tok # tok[p]
        /\ ~Owned(p, "participant")
        /\ Verdict(p, "execution", {}, 125)
        /\ Calm
     \/ /\ Fault
        /\ LateAfterExit \/ \A r \in pending : r.tok # tok[p]
        /\ Verdict(p, "execution", {}, 125)
  /\ UNCHANGED <<dockerVars, diskVars, cont, localVars>>

\* An unexpected exception: _best_effort_remove_participant_container on the
\* way out, then the output cleanup; no result is returned.
RunRaises(p) ==
  /\ pc[p] = "running"
  /\ Fault
  /\ result' = [result EXCEPT ![p] = Raised]
  /\ \/ /\ engine = home[p] /\ Owned(p, "participant")
        /\ live' = live \ {Name(p, "participant")}
     \/ UNCHANGED live
  /\ Goto(p, "clean")
  /\ UNCHANGED <<engine, pending, foreign, settled, born, box, diskVars, cont,
                 localVars>>

-----------------------------------------------------------------------------
(* Reading the container's state back and removing it:                     *)
(* _reconcile_and_remove_participant_container.                             *)

Identify(p) ==
  /\ pc[p] = "identify"
  /\ \/ engine = home[p] /\ Goto(p, "inspect") /\ Calm /\ UNCHANGED result
     \/ /\ (engine # home[p] /\ Calm) \/ Fault
        /\ result' = [result EXCEPT ![p] = Infra(@, Pending)]
        /\ Goto(p, "clean")
  /\ UNCHANGED <<dockerVars, diskVars, cont, localVars>>

\* Fault: what is absent was never created, killed client or not.
InspectAbsentHopeful(p) ==
  /\ pc[p] = "inspect"
  /\ Absent(p, "participant")
  /\ result' = [result EXCEPT ![p] = Infra(@, {})]
  /\ Goto(p, "clean")
  /\ Calm
  /\ UNCHANGED <<dockerVars, diskVars, cont, localVars>>

\* Not there: never created, unless the client was killed before it could say.
InspectAbsent(p) ==
  /\ pc[p] = "inspect"
  /\ Absent(p, "participant")
  /\ result' = [result EXCEPT
       ![p] = Infra(@, IF OperatorTerminated(@) THEN Pending ELSE {})]
  /\ Goto(p, "clean")
  /\ Calm
  /\ UNCHANGED <<dockerVars, diskVars, cont, localVars>>

\* Not to be inspected, or somebody else's.
InspectFails(p) ==
  /\ pc[p] = "inspect"
  /\ (Taken(p, "participant") /\ Calm) \/ Fault
  /\ result' = [result EXCEPT ![p] = Infra(@, Pending)]
  /\ Goto(p, "clean")
  /\ UNCHANGED <<dockerVars, diskVars, cont, localVars>>

InspectOwned(p) ==
  /\ pc[p] = "inspect"
  /\ Owned(p, "participant")
  /\ seen' = [seen EXCEPT ![p] = [first |-> box[p].status, now |-> box[p]]]
  /\ memory' = [memory EXCEPT ![p] = @ \cup {"participant"}]
  /\ Write(p, Entry(p, memory[p] \cup {"participant"}), "stop")
  /\ UNCHANGED <<dockerVars, durable, submission, lock, mode, home, tok,
                 cursor, missing>>

Stop(p) ==
  /\ pc[p] = "stop"
  /\ \/ /\ seen[p].first # "running"
        /\ Goto(p, "remove")
        /\ Calm
        /\ UNCHANGED <<box, result>>
     \/ /\ seen[p].first = "running"
        /\ Owned(p, "participant")
        /\ box' = [box EXCEPT ![p] =
             IF @.status = "running"
             THEN [status |-> "exited", code |-> 1, health |-> @.health] ELSE @]
        /\ Goto(p, "restat")
        /\ Calm
        /\ UNCHANGED result
     \/ /\ seen[p].first = "running"
        /\ (~Owned(p, "participant") /\ Calm) \/ Fault
        /\ result' = [result EXCEPT ![p] = Infra(@, {})]
        /\ Goto(p, "remove")
        /\ UNCHANGED box
  /\ UNCHANGED <<engine, live, pending, foreign, settled, born, diskVars, cont,
                 localVars>>

\* The stopped container is inspected again, by its ID; when it is gone there is nothing
\* left to classify or to remove.
Restat(p) ==
  /\ pc[p] = "restat"
  /\ \/ /\ Owned(p, "participant")
        /\ seen' = [seen EXCEPT ![p] = [first |-> @.first, now |-> box[p]]]
        /\ Goto(p, "remove")
        /\ Calm
        /\ UNCHANGED result
     \/ /\ ~Owned(p, "participant")
        /\ Goto(p, "clean")
        /\ Calm
        /\ UNCHANGED <<seen, result>>
     \/ /\ Fault
        /\ result' = [result EXCEPT ![p] = Infra(@, Pending)]
        /\ Goto(p, "remove")
        /\ UNCHANGED seen
  /\ UNCHANGED <<dockerVars, diskVars, cont, mode, home, tok, memory, cursor,
                 missing>>

Failed(res) == [kind |-> "execution", flags |-> res.flags, rc |-> res.rc]

\* Fault: the out-of-memory mark is not looked at.
ClassifyNoOom(res, s) ==
  IF res.kind = "infrastructure" \/ res.rc = 127 THEN res
  ELSE IF s.now.status = "created" \/ s.now.health = "error" THEN Infra(res, {})
  ELSE IF OperatorTerminated(res)
       THEN IF s.now.status # "exited" THEN Infra(res, {}) ELSE res
  ELSE IF s.first # "exited" \/ res.rc # s.now.code THEN Infra(res, {})
  ELSE res

\* What the recorded state says about the client's verdict.
Classify(res, s) ==
  IF res.kind = "infrastructure" \/ res.rc = 127 THEN res
  ELSE IF s.now.status = "created" \/ s.now.health = "error" THEN Infra(res, {})
  ELSE IF s.now.health = "oom" THEN Failed(res)
  ELSE IF OperatorTerminated(res)
       THEN IF s.now.status # "exited" THEN Infra(res, {}) ELSE res
  ELSE IF s.first # "exited" \/ res.rc # s.now.code THEN Infra(res, {})
  ELSE res

\* Removal is by container ID and must report success, which of a container that
\* is not there depends on the version of Docker.
Remove(p) ==
  LET verdict == Classify(result[p], seen[p]) IN
  /\ pc[p] = "remove"
  /\ \/ /\ Owned(p, "participant")
        /\ live' = live \ {Name(p, "participant")}
        /\ result' = [result EXCEPT ![p] = verdict]
        /\ Calm
     \/ /\ ~Owned(p, "participant")
        /\ \/ result' = [result EXCEPT ![p] = verdict]
           \/ result' = [result EXCEPT ![p] = Infra(verdict, Pending)]
        /\ Calm
        /\ UNCHANGED live
     \/ /\ Fault
        /\ live' \in {live, live \ {Name(p, "participant")}}
        /\ result' = [result EXCEPT ![p] = Infra(verdict, Pending)]
  /\ Goto(p, "clean")
  /\ UNCHANGED <<engine, pending, foreign, settled, born, box, diskVars, cont,
                 localVars>>

-----------------------------------------------------------------------------
(* Leaving: _managed_output_cleanup, then the journal, then publication. *)

Clean(p) ==
  /\ pc[p] = "clean"
  /\ \/ /\ engine = home[p]
        /\ Goto(p, IF cursor[p] = 2 THEN "cleanHelper" ELSE "cleanVolume")
        /\ Calm
        /\ UNCHANGED result
     \/ /\ (engine # home[p] /\ Calm) \/ Fault
        /\ result' = [result EXCEPT ![p] = Infra(@, Pending)]
        /\ Goto(p, "settle")
  /\ UNCHANGED <<dockerVars, diskVars, cont, localVars>>

\* Fault: removal by name, whatever the label.
CleanRoleUnlabelled(p, role, drop, next) ==
  /\ Goto(p, IF Absent(p, role) THEN next ELSE drop)
  /\ Calm
  /\ UNCHANGED result

\* One resource of _remove_output_workspace: its label is inspected ...
CleanRole(p, role, drop, next) ==
  \/ Absent(p, role) /\ Goto(p, next) /\ Calm /\ UNCHANGED result
  \/ Owned(p, role) /\ Goto(p, drop) /\ Calm /\ UNCHANGED result
  \/ /\ (Taken(p, role) /\ Calm) \/ Fault
     /\ result' = [result EXCEPT ![p] = Infra(@, Pending)]
     /\ Goto(p, next)

\* ... and if it is ours, a second command removes what bears the name.  Its
\* failure only counts when the name is not free; nothing is inspected again.
DropRole(p, role) ==
  \/ RemoveByName(Name(p, role)) /\ Calm /\ UNCHANGED result
  \/ /\ Fault
     /\ RemoveByName(Name(p, role)) \/ UNCHANGED <<live, foreign>>
     /\ result' = [result EXCEPT ![p] = Infra(@, Pending)]

CleanHelper(p) ==
  /\ pc[p] = "cleanHelper"
  /\ CleanRole(p, "helper", "dropHelper", "cleanVolume")
  /\ UNCHANGED <<dockerVars, diskVars, cont, localVars>>

DropHelper(p) ==
  /\ pc[p] = "dropHelper"
  /\ DropRole(p, "helper")
  /\ Goto(p, "cleanVolume")
  /\ UNCHANGED <<engine, pending, settled, born, box, diskVars, cont, localVars>>

CleanVolume(p) ==
  /\ pc[p] = "cleanVolume"
  /\ CleanRole(p, "volume", "dropVolume", "settle")
  /\ UNCHANGED <<dockerVars, diskVars, cont, localVars>>

DropVolume(p) ==
  /\ pc[p] = "dropVolume"
  /\ DropRole(p, "volume")
  /\ Goto(p, "settle")
  /\ UNCHANGED <<engine, pending, settled, born, box, diskVars, cont, localVars>>

\* An exception passes through and a pending result keeps the journal; a
\* journal that was never written needs no removal.
KeepJournal(p) ==
  /\ pc[p] = "settle"
  /\ result[p].kind = "raised" \/ CleanupPending(result[p])
  /\ Goto(p, "finish")
  /\ Calm
  /\ UNCHANGED <<dockerVars, diskVars, cont, localVars, result>>

Settle(p) ==
  /\ pc[p] = "settle"
  /\ result[p].kind # "raised" /\ ~CleanupPending(result[p])
  /\ \/ /\ disk = NoJournal
        /\ Goto(p, "publish")
        /\ Calm
        /\ UNCHANGED <<disk, cont, result>>
     \/ /\ disk # NoJournal
        /\ Write(p, Entry(p, Role), "forget")
  /\ UNCHANGED <<dockerVars, durable, submission, lock, localVars>>

\* Fault: the removal of the journal is not made durable.
ForgetUnsynced(p) ==
  /\ pc[p] = "forget"
  /\ engine = home[p]
  /\ disk' = NoJournal
  /\ Goto(p, "publish")
  /\ Calm
  /\ UNCHANGED <<dockerVars, durable, submission, lock, cont, localVars, result>>

\* Fault: the engine is not looked at again.
ForgetBlind(p) ==
  /\ pc[p] = "forget"
  /\ Write(p, NoJournal, "publish")
  /\ UNCHANGED <<dockerVars, durable, submission, lock, localVars>>

Forget(p) ==
  /\ pc[p] = "forget"
  /\ engine = home[p]
  /\ Write(p, NoJournal, "publish")
  /\ UNCHANGED <<dockerVars, durable, submission, lock, localVars>>

ForgetFails(p) ==
  /\ pc[p] = "forget"
  /\ (engine # home[p] /\ Calm) \/ Fault
  /\ Refuse(p)
  /\ UNCHANGED <<dockerVars, diskVars, localVars>>

Publish(p) ==
  /\ pc[p] = "publish"
  /\ \/ /\ result[p].kind = "valid"
        /\ submission' = tok[p]
        /\ Calm
        /\ UNCHANGED result
     \/ /\ result[p].kind # "valid"
        /\ Calm
        /\ UNCHANGED <<submission, result>>
     \/ /\ result[p].kind = "valid"
        /\ Fault
        /\ result' = [result EXCEPT ![p] = Infra(@, {})]
        /\ UNCHANGED submission
  /\ Goto(p, "finish")
  /\ UNCHANGED <<dockerVars, disk, durable, lock, cont, localVars>>

\* What a process forgets when it returns or dies; flock dies with it.
Vanish(P) ==
  /\ lock' = IF lock \in P THEN NoProc ELSE lock
  /\ pc' = [p \in Proc |-> IF p \in P THEN "idle" ELSE pc[p]]
  /\ cont' = [p \in Proc |-> IF p \in P THEN "idle" ELSE cont[p]]
  /\ mode' = [p \in Proc |-> IF p \in P THEN "evaluate" ELSE mode[p]]
  /\ home' = [p \in Proc |-> IF p \in P THEN NoEngine ELSE home[p]]
  /\ tok' = [p \in Proc |-> IF p \in P THEN NoToken ELSE tok[p]]
  /\ memory' = [p \in Proc |-> IF p \in P THEN {} ELSE memory[p]]
  /\ missing' = [p \in Proc |-> IF p \in P THEN {} ELSE missing[p]]
  /\ cursor' = [p \in Proc |-> IF p \in P THEN 1 ELSE cursor[p]]
  /\ seen' = [p \in Proc |-> IF p \in P THEN NoSeen ELSE seen[p]]
  /\ result' = [p \in Proc |-> IF p \in P THEN NoResult ELSE result[p]]
  /\ box' = [p \in Proc |-> IF p \in P THEN NoBox ELSE box[p]]

Release(p) ==
  /\ pc[p] = "finish"
  /\ Vanish({p})
  /\ Calm
  /\ UNCHANGED <<engine, live, pending, foreign, settled, born, disk, durable,
                 submission>>

-----------------------------------------------------------------------------
(* The surroundings: the daemon, the participant, the operator, disasters. *)

\* The steps during which somebody looks at the participant container.
Attended == {"running", "identify", "inspect", "sync", "stop", "restat", "remove"}

\* The daemon gets to a request, however late.
DaemonCreates(r) ==
  /\ r \in pending
  /\ r \notin foreign
  /\ pending' = pending \ {r}
  /\ live' = live \cup {r}
  /\ box' = [p \in Proc |-> IF r = Name(p, "participant") /\ pc[p] \in Attended
                            THEN Created ELSE box[p]]
  /\ Calm
  /\ UNCHANGED <<engine, foreign, settled, born, diskVars, pc, cont, localVars,
                 result>>

DaemonRefuses(r) ==
  /\ r \in pending
  /\ (r \in foreign /\ Calm) \/ Fault
  /\ pending' = pending \ {r}
  /\ UNCHANGED <<engine, live, foreign, settled, born, box, diskVars, pc, cont,
                 localVars, result>>

ContainerStarts(p) ==
  /\ box[p].status = "created" /\ pc[p] \in Attended
  /\ box' = [box EXCEPT
       ![p] = [status |-> "running", code |-> @.code, health |-> @.health]]
  /\ Calm
  /\ UNCHANGED <<engine, live, pending, foreign, settled, born, diskVars, pc,
                 cont, localVars, result>>

ContainerExits(p) ==
  /\ box[p].status = "running" /\ pc[p] \in Attended
  /\ \E c \in 0..1, h \in {"fine", "oom", "error"} :
       box' = [box EXCEPT ![p] = [status |-> "exited", code |-> c, health |-> h]]
  /\ Calm
  /\ UNCHANGED <<engine, live, pending, foreign, settled, born, diskVars, pc,
                 cont, localVars, result>>

\* A restart drops what the engine had been asked and not done.
EngineRestarts(e) ==
  /\ e \notin settled
  /\ pending' = {r \in pending : r.eng # e}
  /\ settled' = settled \cup {e}
  /\ Calm
  /\ UNCHANGED <<engine, live, foreign, born, box, diskVars, pc, cont,
                 localVars, result>>

\* The context is pointed at another engine; never back, within one run, at
\* the engine that run has recorded.
Repoint(e) ==
  /\ e # engine
  /\ \A p \in Proc : home[p] # e
  /\ engine' = e
  /\ Fault
  /\ UNCHANGED <<live, pending, foreign, settled, born, box, diskVars, pc, cont,
                 localVars, result>>

\* The operator points it back at the journal's engine to recover.
PointAtJournal ==
  /\ lock = NoProc
  /\ disk # NoJournal
  /\ disk.eng # engine
  /\ engine' = disk.eng
  /\ Calm
  /\ UNCHANGED <<live, pending, foreign, settled, born, box, diskVars, pc, cont,
                 localVars, result>>

\* A process dies between two of its steps; clients it left behind and the
\* daemon go on with what they hold.
Crash(p) ==
  /\ pc[p] # "idle"
  /\ Fault
  /\ Vanish({p})
  /\ UNCHANGED <<engine, live, pending, foreign, settled, born, disk, durable,
                 submission>>

\* The machine goes down with its daemons; a change of the journal that was not
\* followed by a completed fsync may be undone.
PowerLoss ==
  /\ Fault
  /\ Vanish(Proc)
  /\ disk' \in {disk, durable}
  /\ durable' = disk'
  /\ pending' = {}
  /\ settled' = Engine
  /\ UNCHANGED <<engine, live, foreign, born, submission>>

Step(p) ==
  \/ LoadJournal(p) \/ ReconcileFails(p) \/ ReAbsent(p) \/ ReKnown(p)
  \/ ReDiscovered(p) \/ ReTaken(p) \/ ReRemove(p) \/ ReVerify(p)
  \/ ReUnremoved(p) \/ ReInDoubt(p) \/ ReFinish(p) \/ ReForget(p) \/ ReMoved(p)
  \/ Prepare(p) \/ Intend(p) \/ CreateVolume(p)
  \/ VolumeReply(p) \/ CreateHelper(p) \/ HelperReply(p) \/ ReplyInDoubt(p) \/ HostPolicy(p)
  \/ Launch(p) \/ RunEnds(p) \/ RunTerminated(p) \/ ClientFails(p)
  \/ RunRaises(p) \/ Identify(p) \/ InspectAbsent(p) \/ InspectFails(p)
  \/ InspectOwned(p) \/ Stop(p) \/ Restat(p)
  \/ Remove(p) \/ Clean(p) \/ CleanHelper(p) \/ DropHelper(p) \/ CleanVolume(p)
  \/ DropVolume(p) \/ KeepJournal(p) \/ Settle(p) \/ Forget(p) \/ ForgetFails(p) \/ Publish(p) \/ Fsync(p) \/ Release(p)

Next ==
  \/ \E p \in Proc : Step(p)
  \/ \E p \in Proc, m \in Mode : Start(p, m)
  \/ \E p \in Proc : ContainerStarts(p) \/ ContainerExits(p) \/ Crash(p)
  \/ \E r \in pending : DaemonCreates(r) \/ DaemonRefuses(r)
  \/ \E e \in Engine : EngineRestarts(e) \/ Repoint(e)
  \/ PointAtJournal
  \/ PowerLoss

Spec == Init /\ [][Next]_vars

\* Every command has a timeout, so a process that runs goes on; the daemon owes
\* nothing.
FairSpec == Spec /\ \A p \in Proc : WF_vars(Step(p))

\* The operator recovers: lock contention and evaluations that give up again
\* only delay the tool, hence strong fairness for what needs the lock.
Recovery ==
  /\ \A e \in Engine : WF_vars(EngineRestarts(e))
  /\ SF_vars(PointAtJournal)
  /\ SF_vars(disk # NoJournal /\ engine = disk.eng
             /\ \E p \in Proc : Start(p, "confirmed"))

-----------------------------------------------------------------------------
(* Properties. *)

Covers(j, r) == j # NoJournal /\ j.tok = r.tok /\ j.eng = r.eng

\* Nothing an attempt created, or may still see created, on the engine it
\* recorded is ever without a journal that names it, not even after a crash or
\* a power loss: otherwise no later run knows what to look for.
NoOrphan ==
  \A r \in live \cup pending :
    r.eng = born[r.tok] => Covers(disk, r) /\ Covers(durable, r)

\* An attempt that gets past its journal has left nothing behind, on any engine the
\* command ever reached, and nothing of it can still appear.
AttemptLeavesNothing ==
  \A p \in Proc : pc[p] = "publish" =>
    \A r \in live \cup pending : r.tok # tok[p]

\* A run or a cleanup that returns without cleanup_pending leaves nothing, and
\* nothing that could still appear, on the engine that the attempt recorded: no
\* attempt still needs a journal.  What an attempt made elsewhere, because the
\* command was repointed while it ran, the journal does not name and a later
\* recovery does not look for; the attempt's own verdict does count it.
CleanVerdict ==
  /\ \A p \in Proc :
       pc[p] = "finish" /\ result[p].kind # "raised" /\ ~CleanupPending(result[p]) =>
         \A r \in live \cup pending : r.eng # born[r.tok]
  /\ AttemptLeavesNothing

\* A role recorded as observed has no request left that could create it again,
\* so its absence proves it gone: what a restarted process relies on.
ObservedIsSettled ==
  \A j \in {disk, durable} \ {NoJournal} : \A r \in pending :
    ~(r.tok = j.tok /\ r.eng = j.eng /\ r.role \in j.observed)

\* While a journal exists, or could come back, no submission is published: a
\* stale success never stands beside an attempt that is not cleaned up.
PendingMeansUnpublished ==
  disk # NoJournal \/ durable # NoJournal => submission = NoToken

\* A submission appears only for a run whose container was read back as exited
\* with the client's code, no OOM and no runtime error, and after everything of
\* the attempt is gone.
PublishedOnEvidence ==
  [][submission' \notin {submission, NoToken} =>
      /\ \E p \in Proc :
           /\ tok[p] = submission'
           /\ seen[p].first = "exited"
           /\ seen[p].now = [status |-> "exited", code |-> 0, health |-> "fine"]
      /\ \A r \in live \cup pending : r.eng # born[r.tok] /\ r.tok # submission']_vars

\* docs/OPERATIONS.md, on resources: when it is uncertain whether something was
\* created the journal stays, and it is not deleted merely because the resource of
\* an uncertain create request is not to be seen.
UncertainCreateKeepsJournal ==
  \A r \in pending : r.eng = born[r.tok] => Covers(disk, r)

\* Every journal is resolved in the end, when the operator recovers as
\* OPERATIONS.md says: restarts the engine, points the command at it and runs the
\* cleanup tool with --confirm-daemon-restarted until it gets the lock.
JournalResolved ==
  foreign = {} /\ Recovery => [](disk # NoJournal => <>(disk = NoJournal))

\* No run, retry or cleanup hangs on a daemon that does not answer.
RunsReturn == \A p \in Proc : []<>(pc[p] = "idle")

\* A resource somebody else has under one of our names survives everything the
\* program does: removals by name come after the label check.  The exception is a
\* command repointed between the check and the removal, two requests to Docker, in
\* a recovery or in the cleanup of an attempt's own helper and volume.
ForeignUntouched ==
  [][foreign' # foreign =>
       \E p \in Proc :
         pc[p] \in {"reRemove", "dropHelper", "dropVolume"} /\ engine # home[p]]_vars

=============================================================================
