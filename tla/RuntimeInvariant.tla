-------------------------- MODULE RuntimeInvariant --------------------------
(***************************************************************************)
(* The inductive invariant behind RuntimeResources: what each step of the  *)
(* code knows about the journal and about Docker when it gets there.       *)
(***************************************************************************)
EXTENDS RuntimeResources

\* Where a process is, counting the fsync as part of what follows it.
At(p) == IF pc[p] = "sync" THEN cont[p] ELSE pc[p]

\* The role's resource on the engine that p's attempt or journal recorded.
AtHome(p, role) == [eng |-> home[p], tok |-> tok[p], role |-> role]

\* No request was ever made for the role, on any engine.
NotAsked(p, role) ==
  \A r \in live \cup pending : ~(r.tok = tok[p] /\ r.role = role)

\* No request is left, and the engine, unless the command was repointed for
\* good, has nothing of the role.
Gone(p, role) ==
  /\ AtHome(p, role) \notin pending
  /\ engine = home[p] => AtHome(p, role) \notin live

OnRecord(j, p)  == j # NoJournal /\ j.tok = tok[p] /\ j.eng = home[p]

Reconciling == {"reInspect", "reRemove", "reVerify", "reFinish", "reForget"}
Working     == {"createVolume", "volumeReply", "createHelper", "helperReply",
                "hostPolicy", "launch", "running", "identify", "inspect",
                "stop", "restat", "remove", "clean", "cleanHelper",
                "dropHelper", "cleanVolume", "dropVolume", "settle", "forget"}
Attempting  == Working \cup {"intend"}
Cleaning    == {"clean", "cleanHelper", "dropHelper", "cleanVolume", "dropVolume"}

\* The verdict so far lets the attempt forget its journal.
Clear(p) == result[p].kind # "raised" /\ ~CleanupPending(result[p])

MutualExclusion == \A p \in Proc : pc[p] # "idle" => lock = p

JournalsKnown ==
  /\ \A j \in {disk, durable} \ {NoJournal} : j.eng = born[j.tok]
  /\ \A r \in live \cup pending : born[r.tok] # NoEngine

SettledMeansQuiet == \A r \in pending : r.eng \notin settled

\* Each role's resource is asked for once, and is either to come or there.
OneRequestPerRole ==
  /\ \A r \in pending, s \in live \cup pending :
       r.tok = s.tok /\ r.role = s.role => r = s
  /\ live \cap pending = {}

\* What survives of a process that returned or died: nothing.
IdleIsFresh ==
  \A p \in Proc : pc[p] = "idle" => cursor[p] = 1 /\ result[p] = NoResult

\* A directory fsync is only ever followed by one of these steps.
SyncKnows(p) ==
  pc[p] = "sync" =>
    cont[p] \in {"reRemove", "reForget", "prepare", "finish", "createVolume",
                "createHelper", "hostPolicy", "stop", "forget", "publish"}

Identity(p) ==
  At(p) \in Reconciling \cup Attempting =>
    tok[p] \in Token /\ home[p] \in Engine /\ home[p] = born[tok[p]]

\* Only an attempt on its way out carries an exception.
NotRaised(p) ==
  result[p].kind = "raised" =>
    At(p) \in Cleaning \cup {"settle", "finish"}

Remembered(p) ==
  At(p) \in Reconciling \cup Attempting =>
    \A role \in memory[p] : AtHome(p, role) \notin pending

Confirmed(p) ==
  mode[p] = "confirmed" =>
    /\ At(p) \in Reconciling => home[p] \in settled
    /\ pc[p] = "load" /\ disk # NoJournal => disk.eng \in settled

\* The journal on disk while p works: its own, or none.
JournalHeld(p) ==
  /\ At(p) \in Reconciling \cup (Working \ {"settle"}) => OnRecord(disk, p)
  /\ At(p) = "settle" => disk = NoJournal \/ OnRecord(disk, p)
  /\ At(p) \in {"prepare", "intend", "publish"} => disk = NoJournal
  /\ At(p) = "finish" /\ Clear(p) => disk = NoJournal

ReconcileKnows(p) ==
  /\ pc[p] = "load" => cursor[p] = 1
  /\ At(p) \in {"reInspect", "reRemove", "reVerify"} =>
       \A i \in 1..(cursor[p] - 1) :
         RoleOrder[i] \in missing[p] \/ Gone(p, RoleOrder[i])
  /\ At(p) \in {"reRemove", "reVerify"} => RoleOrder[cursor[p]] \in memory[p]
  /\ At(p) = "reFinish" =>
       \A role \in Role : role \in missing[p] \/ Gone(p, role)
  /\ At(p) = "reForget" => \A role \in Role : Gone(p, role)

AttemptStarts(p) ==
  /\ pc[p] = "intend" => memory[p] = {}
  /\ At(p) = "createVolume" => disk = Entry(p, {}) /\ memory[p] = {}
  /\ At(p) \in {"intend", "createVolume"} => \A role \in Role : NotAsked(p, role)
  /\ pc[p] = "volumeReply" => disk = Entry(p, {}) /\ memory[p] = {}
  /\ At(p) \in {"createHelper", "helperReply"} =>
       disk = Entry(p, {"volume"}) /\ memory[p] = {"volume"}
  /\ At(p) \in {"volumeReply", "createHelper"} => NotAsked(p, "helper")
  /\ At(p) \in {"hostPolicy", "launch", "running", "identify", "inspect"} =>
       disk = Entry(p, {"helper", "volume"}) /\ memory[p] = {"helper", "volume"}
  /\ At(p) \in {"volumeReply", "createHelper", "helperReply", "hostPolicy",
                "launch"} => NotAsked(p, "participant")
  /\ pc[p] \in {"createVolume", "volumeReply", "createHelper", "helperReply",
                "hostPolicy", "launch"} => durable = disk
  /\ At(p) \in {"intend", "createVolume", "volumeReply", "createHelper",
                "helperReply", "hostPolicy", "launch"} => box[p] = NoBox

ParticipantKnows(p) ==
  /\ pc[p] = "running" /\ box[p].status # "none" =>
       \A r \in pending : ~(r.tok = tok[p] /\ r.role = "participant")
  /\ At(p) \in {"helperReply", "hostPolicy", "launch", "running", "identify",
                "inspect", "stop", "restat", "remove"} => cursor[p] = 2
  /\ pc[p] \in {"identify", "inspect"} /\ ~OperatorTerminated(result[p]) =>
       AtHome(p, "participant") \notin pending
  /\ At(p) \in {"stop", "restat", "remove"} => memory[p] = Role

CleanupKnows(p) ==
  /\ pc[p] \in Cleaning /\ Clear(p) =>
       {"helper", "volume"} \subseteq memory[p] /\ Gone(p, "participant")
  /\ pc[p] = "clean" /\ Clear(p) => cursor[p] = 2
  /\ pc[p] \in {"cleanVolume", "dropVolume"} /\ Clear(p) => Gone(p, "helper")
  /\ pc[p] = "settle" /\ Clear(p) => \A role \in Role : Gone(p, role)
  /\ At(p) = "forget" => \A role \in Role : Gone(p, role)

Bearings(p) ==
  SyncKnows(p) /\ NotRaised(p) /\ Identity(p) /\ Remembered(p) /\ Confirmed(p)

Local(p) ==
  /\ Bearings(p) /\ JournalHeld(p) /\ ReconcileKnows(p)
  /\ AttemptStarts(p) /\ ParticipantKnows(p) /\ CleanupKnows(p)

\* What holds between the journal and Docker whoever is at work.
Global ==
  /\ JournalsKnown /\ SettledMeansQuiet /\ OneRequestPerRole
  /\ NoOrphan /\ ObservedIsSettled

Inv ==
  /\ TypeOK
  /\ MutualExclusion
  /\ IdleIsFresh
  /\ Global
  /\ \A p \in Proc : pc[p] # "idle" => Local(p)

\* What a published submission needs, as its run collected it: the container had
\* ended when it was read back, and was read back as a success.
ExitedAsReported(p) ==
  /\ seen[p].first = "exited"
  /\ seen[p].now = [status |-> "exited", code |-> 0, health |-> "fine"]

\* A container that was still running and is gone after the stop leaves a success
\* without evidence: only where the command was repointed, which the cleanup notices.
Witnessed(p) ==
  result[p].kind = "valid" =>
    /\ result[p].rc = 0 /\ result[p].flags = {}
    /\ At(p) \in {"identify", "inspect", "stop", "restat", "remove", "settle", "forget",
                 "publish", "finish"} \cup Cleaning
    /\ At(p) \in {"stop", "restat", "remove"} /\ seen[p].first = "exited" =>
         seen[p].now.status = "exited"
    /\ At(p) = "restat" => seen[p].first = "running"
    /\ At(p) \in {"stop", "restat"} =>
         AtHome(p, "participant") \in live \/ engine # home[p]
    /\ At(p) = "clean" => ExitedAsReported(p) \/ engine # home[p]
    /\ At(p) \in (Cleaning \ {"clean"}) \cup {"settle", "forget", "publish"} =>
         ExitedAsReported(p)

\* From its preparation on an attempt has no submission beside it, and it gets to
\* publish one only when no journal can come back.
Unpublished(p) ==
  /\ At(p) \in Attempting \cup {"publish"} => submission = NoToken
  /\ pc[p] = "settle" /\ disk = NoJournal => result[p].kind # "valid"
  /\ pc[p] = "publish" /\ result[p].kind = "valid" => durable = NoJournal

Publishing(p) == Witnessed(p) /\ Unpublished(p)

PublicationInv ==
  /\ PendingMeansUnpublished
  /\ \A p \in Proc : pc[p] # "idle" => Publishing(p)

\* A name is taken by one resource at a time, ours or somebody else's.
Apart == live \cap foreign = {}

\* The removals by name, each the second of two commands, and what they are about.
Removal == {"reRemove", "dropHelper", "dropVolume"}
Target(p) ==
  CASE At(p) = "dropHelper" -> "helper"
    [] At(p) = "dropVolume" -> "volume"
    [] OTHER -> RoleOrder[cursor[p]]

\* The label check still holds when the removal is got to, unless the command was
\* repointed in between.
Checked(p) ==
  At(p) \in Removal /\ engine = home[p] => AtHome(p, Target(p)) \notin foreign

ForeignInv == Apart /\ \A p \in Proc : Checked(p)

\* As long as the command reaches the engine an attempt recorded, the attempt has
\* asked no other engine for anything; past its journal it has nothing anywhere.
Bound(p) ==
  /\ At(p) \in Attempting /\ engine = home[p] =>
       \A r \in live \cup pending : (r.tok = tok[p] => r.eng = home[p])
  /\ At(p) = "publish" \/ (pc[p] = "settle" /\ disk = NoJournal) =>
       \A r \in live \cup pending : r.tok # tok[p]

BoundInv == \A p \in Proc : pc[p] # "idle" => Bound(p)

\* The abstract ledger the directory and the daemon implement together.
Ledger == INSTANCE ResourceLedger WITH
  intent  <- IF disk = NoJournal THEN NoToken ELSE disk.tok,
  exposed <- {r.tok : r \in {s \in live \cup pending : s.eng = born[s.tok]}}

LedgerSpec == Ledger!Spec
=============================================================================
