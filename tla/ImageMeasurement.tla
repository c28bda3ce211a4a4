-------------------------- MODULE ImageMeasurement --------------------------
(***************************************************************************)
(* router-measure-image of image_evidence.py: the measurement of a rootfs  *)
(* through a container that is created, exported and removed under a re-   *)
(* source journal beside the evidence, and --cleanup-pending, which re-    *)
(* solves a journal that was left.  Unlike an evaluation, neither takes a  *)
(* lock: the journal, linked into place, is all there is.                  *)
(***************************************************************************)
EXTENDS Integers, FiniteSets

CONSTANTS Proc, Engine, Token, NoToken, NoEngine, NoJournal, MaxFaults,
          Alone    \* does the operator run --cleanup-pending beside nothing else?

\* confirmed is create_confirmed, the opposite of create_uncertain; linked says that
\* the temporary name is still there too.
Journal == [tok : Token, eng : Engine, confirmed : BOOLEAN, linked : BOOLEAN]
Name    == [eng : Engine, tok : Token]

ASSUME MeasurementAssumption ==
  /\ NoToken \notin Token /\ NoEngine \notin Engine /\ NoJournal \notin Journal
  /\ MaxFaults \in Nat /\ Alone \in BOOLEAN

VARIABLES
  journal, durable,    \* the journal, and the one a power loss brings back
  current,             \* the engine the runtime command reaches
  containers, requests, replies,
  fresh,               \* tokens not drawn yet
  evidence,            \* the token of the published evidence
  pc, tok, eng, known, \* known: the journal a cleanup loaded
  created,             \* create_confirmed
  measured, confirm,   \* confirm: --confirm-daemon-restarted
  faults

dockerVars == <<current, containers, requests, replies>>
diskVars   == <<journal, durable, evidence>>
localVars  == <<tok, eng, known, created, measured, confirm>>
vars == <<diskVars, dockerVars, fresh, pc, localVars, faults>>

Label == {"idle", "identify", "link", "unlink", "sync", "create", "reply",
          "confirm", "confirmSync", "export", "find", "remove", "forget",
          "forgetSync", "publish", "load", "compare", "inspect"}

TypeOK ==
  /\ journal \in Journal \cup {NoJournal} /\ durable \in Journal \cup {NoJournal}
  /\ current \in Engine
  /\ containers \subseteq Name /\ requests \subseteq Name
  /\ replies \in [Token -> {"none", "created", "refused"}]
  /\ fresh \subseteq Token
  /\ evidence \in Token \cup {NoToken}
  /\ pc \in [Proc -> Label]
  /\ tok \in [Proc -> Token \cup {NoToken}]
  /\ eng \in [Proc -> Engine \cup {NoEngine}]
  /\ known \in [Proc -> Journal \cup {NoJournal}]
  /\ created \in [Proc -> BOOLEAN]
  /\ measured \in [Proc -> BOOLEAN]
  /\ confirm \in [Proc -> BOOLEAN]
  /\ faults \in 0..MaxFaults

Init ==
  /\ journal = NoJournal /\ durable = NoJournal
  /\ current \in Engine
  /\ containers = {} /\ requests = {}
  /\ replies = [t \in Token |-> "none"]
  /\ fresh = Token
  /\ evidence = NoToken
  /\ pc = [p \in Proc |-> "idle"]
  /\ tok = [p \in Proc |-> NoToken]
  /\ eng = [p \in Proc |-> NoEngine]
  /\ known = [p \in Proc |-> NoJournal]
  /\ created = [p \in Proc |-> FALSE]
  /\ measured = [p \in Proc |-> FALSE]
  /\ confirm = [p \in Proc |-> FALSE]
  /\ faults = MaxFaults

-----------------------------------------------------------------------------

Fault == faults > 0 /\ faults' = faults - 1
Calm  == UNCHANGED faults

Goto(p, l) == pc' = [pc EXCEPT ![p] = l]

\* The command is over, with whatever exit code; what it knew is gone.
Exit(p) ==
  /\ pc' = [pc EXCEPT ![p] = "idle"]
  /\ tok' = [tok EXCEPT ![p] = NoToken]
  /\ eng' = [eng EXCEPT ![p] = NoEngine]
  /\ known' = [known EXCEPT ![p] = NoJournal]
  /\ created' = [created EXCEPT ![p] = FALSE]
  /\ measured' = [measured EXCEPT ![p] = FALSE]
  /\ confirm' = [confirm EXCEPT ![p] = FALSE]

On(p, l) == Goto(p, l) /\ UNCHANGED localVars

Quiet == \A q \in Proc : pc[q] = "idle"
CleaningUp(p) == known[p] # NoJournal \/ pc[p] = "load"

-----------------------------------------------------------------------------
(* Measuring. *)

StartMeasuring(p) ==
  /\ pc[p] = "idle"
  /\ Alone => \A q \in Proc : ~CleaningUp(q)
  /\ \E t \in fresh :
       /\ fresh' = fresh \ {t}
       /\ tok' = [tok EXCEPT ![p] = t]
  /\ Goto(p, "identify")
  /\ Calm
  /\ UNCHANGED <<diskVars, dockerVars, eng, known, created, measured, confirm>>

\* The layout, the image or the Engine ID is refused, or they are what they should be.
Identify(p) ==
  /\ pc[p] = "identify"
  /\ \/ Exit(p)
     \/ /\ eng' = [eng EXCEPT ![p] = current]
        /\ Goto(p, "link")
        /\ UNCHANGED <<tok, known, created, measured, confirm>>
  /\ Calm
  /\ UNCHANGED <<diskVars, dockerVars, fresh>>

\* Fault: the journal replaces the one that is there.
LinkOver(p) ==
  /\ pc[p] = "link"
  /\ journal' = [tok |-> tok[p], eng |-> eng[p], confirmed |-> FALSE,
                 linked |-> TRUE]
  /\ On(p, "unlink")
  /\ Calm
  /\ UNCHANGED <<durable, evidence, dockerVars, fresh>>

\* os.link fails when a journal is there.
Link(p) ==
  /\ pc[p] = "link"
  /\ \/ /\ journal = NoJournal
        /\ journal' = [tok |-> tok[p], eng |-> eng[p], confirmed |-> FALSE,
                       linked |-> TRUE]
        /\ On(p, "unlink")
        /\ Calm
     \/ /\ (journal # NoJournal /\ Calm) \/ Fault
        /\ UNCHANGED journal
        /\ Exit(p)
  /\ UNCHANGED <<durable, evidence, dockerVars, fresh>>

Unlink(p) ==
  /\ pc[p] = "unlink"
  /\ journal' = IF journal # NoJournal /\ journal.tok = tok[p]
                THEN [journal EXCEPT !.linked = FALSE] ELSE journal
  /\ On(p, "sync")
  /\ Calm
  /\ UNCHANGED <<durable, evidence, dockerVars, fresh>>

Sync(p) ==
  /\ pc[p] = "sync"
  /\ \/ durable' = journal /\ On(p, "create") /\ Calm
     \/ durable' \in {durable, journal} /\ Exit(p) /\ Fault
  /\ UNCHANGED <<journal, evidence, dockerVars, fresh>>

Create(p) ==
  /\ pc[p] = "create"
  /\ requests' = requests \cup {[eng |-> current, tok |-> tok[p]]}
  /\ On(p, "reply")
  /\ Calm
  /\ UNCHANGED <<diskVars, current, containers, replies, fresh>>

\* The reply, or no reply in time, or a refusal that proves nothing.
Reply(p) ==
  /\ pc[p] = "reply"
  /\ \/ /\ replies[tok[p]] = "created"
        /\ created' = [created EXCEPT ![p] = TRUE]
        /\ Goto(p, "confirm")
        /\ UNCHANGED <<tok, eng, known, measured, confirm>>
     \/ On(p, "find")
  /\ Calm
  /\ UNCHANGED <<diskVars, dockerVars, fresh>>

\* os.replace of the journal
Confirm(p) ==
  /\ pc[p] = "confirm"
  /\ \/ /\ journal' = [tok |-> tok[p], eng |-> eng[p], confirmed |-> TRUE,
                       linked |-> FALSE]
        /\ On(p, "confirmSync")
        /\ Calm
     \/ UNCHANGED journal /\ On(p, "find") /\ Fault
  /\ UNCHANGED <<durable, evidence, dockerVars, fresh>>

ConfirmSync(p) ==
  /\ pc[p] = "confirmSync"
  /\ \/ durable' = journal /\ On(p, "export") /\ Calm
     \/ durable' \in {durable, journal} /\ On(p, "find") /\ Fault
  /\ UNCHANGED <<journal, evidence, dockerVars, fresh>>

\* Fault: what was measured is published before the container is gone.
ExportPublishing(p) ==
  /\ pc[p] = "export"
  /\ [eng |-> current, tok |-> tok[p]] \in containers
  /\ evidence' = tok[p]
  /\ On(p, "find")
  /\ Calm
  /\ UNCHANGED <<journal, durable, dockerVars, fresh>>

\* The export is read to its end, or given up at a limit, an error or its deadline.
Export(p) ==
  /\ pc[p] = "export"
  /\ \/ /\ [eng |-> current, tok |-> tok[p]] \in containers
        /\ measured' = [measured EXCEPT ![p] = TRUE]
     \/ UNCHANGED measured
  /\ Goto(p, "find")
  /\ Calm
  /\ UNCHANGED <<diskVars, dockerVars, fresh, tok, eng, known, created, confirm>>

\* Fault: a container that is not there is taken to be gone.
FindHopeful(p) ==
  /\ pc[p] = "find"
  /\ IF [eng |-> current, tok |-> tok[p]] \in containers
     THEN On(p, "remove") ELSE On(p, "forget")
  /\ Calm
  /\ UNCHANGED <<diskVars, dockerVars, fresh>>

\* _cleanup_measurement_container: what is not found, or not under its label, keeps
\* its journal.
Find(p) ==
  /\ pc[p] = "find"
  /\ \/ /\ [eng |-> current, tok |-> tok[p]] \in containers
        /\ On(p, "remove")
        /\ Calm
     \/ /\ ([eng |-> current, tok |-> tok[p]] \notin containers /\ Calm) \/ Fault
        /\ Exit(p)
  /\ UNCHANGED <<diskVars, dockerVars, fresh>>

-----------------------------------------------------------------------------
(* --cleanup-pending.  The operator confirms a restart only as the procedure has
   it: no request of the journal's is left, and what another engine than the
   journal's cannot show has been looked at. *)

MayConfirm ==
  /\ journal # NoJournal
  /\ \A r \in requests : r.tok # journal.tok
  /\ current # journal.eng => \A c \in containers : c.tok # journal.tok

StartCleanup(p, sure) ==
  /\ pc[p] = "idle"
  /\ Alone => Quiet
  /\ journal # NoJournal
  /\ sure => MayConfirm
  /\ confirm' = [confirm EXCEPT ![p] = sure]
  /\ Goto(p, "load")
  /\ Calm
  /\ UNCHANGED <<diskVars, dockerVars, fresh, tok, eng, known, created, measured>>

\* A journal with a second link is not trusted.
Load(p) ==
  /\ pc[p] = "load"
  /\ \/ /\ journal # NoJournal
        /\ ~journal.linked
        /\ known' = [known EXCEPT ![p] = journal]
        /\ tok' = [tok EXCEPT ![p] = journal.tok]
        /\ Goto(p, "compare")
        /\ UNCHANGED <<eng, created, measured, confirm>>
        /\ Calm
     \/ /\ ((journal # NoJournal => journal.linked) /\ Calm) \/ Fault
        /\ Exit(p)
  /\ UNCHANGED <<diskVars, dockerVars, fresh>>

\* The Engine ID against the journal's.
Compare(p) ==
  /\ pc[p] = "compare"
  /\ \/ current = known[p].eng /\ On(p, "inspect") /\ Calm
     \/ current # known[p].eng /\ confirm[p] /\ On(p, "forget") /\ Calm
     \/ current # known[p].eng /\ ~confirm[p] /\ Exit(p) /\ Calm
     \/ Exit(p) /\ Fault
  /\ UNCHANGED <<diskVars, dockerVars, fresh>>

\* Fault: an absent container settles an uncertain request.
InspectHopeful(p) ==
  /\ pc[p] = "inspect"
  /\ IF [eng |-> current, tok |-> tok[p]] \in containers
     THEN On(p, "remove") ELSE On(p, "forget")
  /\ Calm
  /\ UNCHANGED <<diskVars, dockerVars, fresh>>

\* Fault: only an operator's confirmation settles a journal.
InspectStrict(p) ==
  /\ pc[p] = "inspect"
  /\ IF [eng |-> current, tok |-> tok[p]] \in containers
     THEN On(p, "remove") ELSE Exit(p)
  /\ Calm
  /\ UNCHANGED <<diskVars, dockerVars, fresh>>

Inspect(p) ==
  /\ pc[p] = "inspect"
  /\ LET there == [eng |-> current, tok |-> tok[p]] \in containers IN
       \/ there /\ On(p, "remove") /\ Calm
       \/ ~there /\ (known[p].confirmed \/ confirm[p]) /\ On(p, "forget") /\ Calm
       \/ ~there /\ ~known[p].confirmed /\ ~confirm[p] /\ Exit(p) /\ Calm
       \/ Exit(p) /\ Fault
  /\ UNCHANGED <<diskVars, dockerVars, fresh>>

-----------------------------------------------------------------------------
(* Both end alike. *)

Remove(p) ==
  /\ pc[p] = "remove"
  /\ \/ /\ containers' = containers \ {[eng |-> current, tok |-> tok[p]]}
        /\ On(p, "forget")
        /\ Calm
     \/ UNCHANGED containers /\ Exit(p) /\ Fault
  /\ UNCHANGED <<diskVars, current, requests, replies, fresh>>

\* The file at the journal's path is unlinked, whatever it holds by now.
Forget(p) ==
  /\ pc[p] = "forget"
  /\ \/ /\ journal # NoJournal
        /\ journal' = NoJournal
        /\ On(p, "forgetSync")
        /\ Calm
     \/ /\ (journal = NoJournal /\ Calm) \/ Fault
        /\ UNCHANGED journal
        /\ Exit(p)
  /\ UNCHANGED <<durable, evidence, dockerVars, fresh>>

ForgetSync(p) ==
  /\ pc[p] = "forgetSync"
  /\ \/ /\ durable' = journal
        /\ IF measured[p] THEN On(p, "publish") ELSE Exit(p)
        /\ Calm
     \/ durable' \in {durable, journal} /\ Exit(p) /\ Fault
  /\ UNCHANGED <<journal, evidence, dockerVars, fresh>>

\* Evidence that is there is not overwritten.
Publish(p) ==
  /\ pc[p] = "publish"
  /\ \/ evidence = NoToken /\ evidence' = tok[p] /\ Calm
     \/ evidence # NoToken /\ UNCHANGED evidence /\ Calm
     \/ UNCHANGED evidence /\ Fault
  /\ Exit(p)
  /\ UNCHANGED <<journal, durable, dockerVars, fresh>>

-----------------------------------------------------------------------------
(* Around them: the daemon, the operator, the machine. *)

DaemonCreates(r) ==
  /\ r \in requests
  /\ requests' = requests \ {r}
  /\ containers' = containers \cup {r}
  /\ replies' = [replies EXCEPT ![r.tok] = "created"]
  /\ Calm
  /\ UNCHANGED <<diskVars, current, fresh, pc, localVars>>

DaemonRefuses(r) ==
  /\ r \in requests
  /\ requests' = requests \ {r}
  /\ replies' = [replies EXCEPT ![r.tok] = "refused"]
  /\ Calm
  /\ UNCHANGED <<diskVars, current, containers, fresh, pc, localVars>>

EngineRestarts(e) ==
  /\ \E r \in requests : r.eng = e
  /\ requests' = {r \in requests : r.eng # e}
  /\ Calm
  /\ UNCHANGED <<diskVars, current, containers, replies, fresh, pc, localVars>>

Repoint(e) ==
  /\ Quiet
  /\ e # current
  /\ current' = e
  /\ Fault
  /\ UNCHANGED <<diskVars, containers, requests, replies, fresh, pc, localVars>>

PointAtJournal ==
  /\ Quiet
  /\ journal # NoJournal
  /\ current # journal.eng
  /\ current' = journal.eng
  /\ Calm
  /\ UNCHANGED <<diskVars, containers, requests, replies, fresh, pc, localVars>>

Crash(p) ==
  /\ pc[p] # "idle"
  /\ Exit(p)
  /\ Fault
  /\ UNCHANGED <<diskVars, dockerVars, fresh>>

\* What was not synced may be lost, and so is what was asked for.
PowerLoss ==
  /\ journal' \in {journal, durable}
  /\ durable' = journal'
  /\ requests' = {}
  /\ pc' = [p \in Proc |-> "idle"]
  /\ tok' = [p \in Proc |-> NoToken]
  /\ eng' = [p \in Proc |-> NoEngine]
  /\ known' = [p \in Proc |-> NoJournal]
  /\ created' = [p \in Proc |-> FALSE]
  /\ measured' = [p \in Proc |-> FALSE]
  /\ confirm' = [p \in Proc |-> FALSE]
  /\ Fault
  /\ UNCHANGED <<evidence, current, containers, replies, fresh>>

Step(p) ==
  \/ Identify(p) \/ Link(p) \/ Unlink(p) \/ Sync(p) \/ Create(p) \/ Reply(p)
  \/ Confirm(p) \/ ConfirmSync(p) \/ Export(p) \/ Find(p)
  \/ Load(p) \/ Compare(p) \/ Inspect(p)
  \/ Remove(p) \/ Forget(p) \/ ForgetSync(p) \/ Publish(p)

Next ==
  \/ \E p \in Proc : \/ StartMeasuring(p) \/ Step(p) \/ Crash(p)
                     \/ \E sure \in BOOLEAN : StartCleanup(p, sure)
  \/ \E r \in requests : DaemonCreates(r) \/ DaemonRefuses(r)
  \/ \E e \in Engine : EngineRestarts(e) \/ Repoint(e)
  \/ PointAtJournal \/ PowerLoss

Spec == Init /\ [][Next]_vars

\* Commands go on: all they wait for has a deadline.  And the operator follows the
\* procedure: restarts engines, points the command at the journal's, confirms.
FairSpec ==
  /\ Spec
  /\ \A p \in Proc : WF_vars(Step(p))
  /\ \A e \in Engine : WF_vars(EngineRestarts(e))
  /\ SF_vars(PointAtJournal)
  /\ SF_vars(\E p \in Proc : StartCleanup(p, TRUE))

-----------------------------------------------------------------------------
(* Properties. *)

\* The container of a measurement, or the request that may still create it, is never
\* without a journal that names it, on disk and after a power loss.
NoOrphan ==
  \A t \in {n.tok : n \in containers \cup requests} :
    /\ journal # NoJournal /\ journal.tok = t
    /\ durable # NoJournal /\ durable.tok = t

\* Evidence is published last: by then nothing is left of its measurement, neither the
\* container nor a journal that a power loss could bring back.
EvidenceLast ==
  [][evidence' # evidence =>
       /\ \A n \in containers \cup requests : n.tok # evidence'
       /\ \A j \in {journal, durable} \ {NoJournal} : j.tok # evidence']_vars

\* A journal that is left under one name, on disk and after a power loss, can always
\* be resolved by the procedure.
JournalResolved ==
  (\A j \in {journal, durable} \ {NoJournal} : ~j.linked) ~> (journal = NoJournal)

\* docs/OPERATIONS.md, on router-measure-image: a journal that is left is resolved
\* by --cleanup-pending, at the latest after a confirmed restart.
EveryJournalResolved == (journal # NoJournal) ~> (journal = NoJournal)

\* docs/OPERATIONS.md, there too: the journal of an uncertain creation is not
\* deleted because its container is not seen, unless a restart was confirmed.
UncertainKeepsJournal ==
  [][journal # NoJournal /\ journal' = NoJournal
       /\ (\E r \in requests : r.tok = journal.tok)
       => \E p \in Proc : pc[p] = "forget" /\ pc'[p] # "forget" /\ confirm[p]]_vars

=============================================================================
