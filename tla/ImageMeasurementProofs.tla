----------------------- MODULE ImageMeasurementProofs -----------------------
(***************************************************************************)
(* Why no measurement loses its container, for all processes, engines,     *)
(* tokens and faults, when --cleanup-pending runs beside nothing else.     *)
(***************************************************************************)
EXTENDS ImageMeasurement, TLAPS

Active == containers \cup requests
Measuring(p) == pc[p] # "idle" /\ ~CleaningUp(p)

\* Nothing of the token exists or may still be created.
None(t) == \A n \in Active : n.tok # t

Before  == {"identify", "link", "unlink", "sync", "create"}
Linked  == {"unlink", "sync", "create", "reply", "confirm", "confirmSync", "export", "find"}
Synced  == {"create", "reply", "confirm", "confirmSync", "export", "find"}
Holding == Linked \cup {"compare", "inspect", "remove", "forget"}

\* A cleanup runs beside nothing else.
Aside ==
  /\ \A p \in Proc : pc[p] = "idle" => known[p] = NoJournal
  /\ \A p, q \in Proc : p # q /\ CleaningUp(p) => pc[q] = "idle"

\* No two measurements have the same token.
Drawn ==
  /\ \A n \in Active : n.tok \notin fresh
  /\ \A t \in fresh : replies[t] = "none"
  /\ \A p \in Proc : Measuring(p) => tok[p] \in Token \ fresh
  /\ \A p, q \in Proc : Measuring(p) /\ Measuring(q) /\ p # q => tok[p] # tok[q]

\* One request per token, which is either to come or there ...
OneEach ==
  /\ \A n, m \in Active : n.tok = m.tok => n = m
  /\ containers \cap requests = {}

\* ... on the engine of the journal.
Placed == \A n \in Active : n.eng = journal.eng /\ n.eng = durable.eng

\* Who was answered has no request left, and the journal says so only then.
Answered ==
  /\ \A r \in requests : replies[r.tok] = "none"
  /\ journal # NoJournal /\ journal.confirmed => requests = {}

MeasurerKnows(p) ==
  /\ pc[p] \in Before \cup Linked => known[p] = NoJournal
  /\ pc[p] \in Before => None(tok[p]) /\ replies[tok[p]] = "none"
  /\ pc[p] \in Linked \cup {"link"} => eng[p] = current
  /\ pc[p] \in Linked => journal # NoJournal /\ journal.eng = eng[p]
  /\ pc[p] \in {"unlink", "sync", "create"} => ~journal.confirmed
  /\ pc[p] \in Synced => durable # NoJournal /\ durable.tok = tok[p] /\ durable.eng = eng[p]
  /\ pc[p] \in {"confirm", "confirmSync"} => replies[tok[p]] = "created"

CleanerKnows(p) ==
  /\ pc[p] \in {"compare", "inspect"} => known[p] = journal
  /\ pc[p] = "inspect" => current = journal.eng
  /\ pc[p] \in {"load", "compare", "inspect"} /\ confirm[p] =>
       /\ journal # NoJournal /\ requests = {}
       /\ current # journal.eng => containers = {}

EndKnows(p) ==
  /\ pc[p] \in Holding => journal # NoJournal /\ journal.tok = tok[p]
  /\ pc[p] = "remove" => [eng |-> current, tok |-> tok[p]] \in containers
  /\ pc[p] \in {"forget", "forgetSync", "publish"} => None(tok[p])
  /\ pc[p] \in {"forgetSync", "publish"} /\ journal # NoJournal => journal.tok # tok[p]
  /\ pc[p] = "publish" /\ durable # NoJournal => durable.tok # tok[p]

Knows(p) == MeasurerKnows(p) /\ CleanerKnows(p) /\ EndKnows(p)

\* What holds between journal and Docker.
Global == Drawn /\ OneEach /\ NoOrphan /\ Placed /\ Answered

MeasurementInv ==
  /\ TypeOK /\ Aside /\ Global
  /\ \A p \in Proc : Knows(p)

-----------------------------------------------------------------------------
(* Types. *)

\* A journal is written with the token and the engine of a measurement.
LEMMA Written ==
  ASSUME MeasurementInv, NEW p \in Proc, pc[p] \in {"link", "confirm"}
  PROVE  tok[p] \in Token /\ eng[p] \in Engine
<1>1. Knows(p) /\ known[p] = NoJournal
  BY DEF MeasurementInv, Knows, MeasurerKnows, Before, Linked
<1>2. Measuring(p)
  BY <1>1 DEF Measuring, CleaningUp
<1> QED
  BY <1>1, <1>2 DEF MeasurementInv, Global, Drawn, TypeOK, Knows, MeasurerKnows, Linked

\* What is written is a journal.
LEMMA WrittenJournal ==
  ASSUME MeasurementInv, NEW p \in Proc, pc[p] \in {"link", "confirm"},
         NEW b \in BOOLEAN, NEW c \in BOOLEAN
  PROVE  LET j == [tok |-> tok[p], eng |-> eng[p], confirmed |-> b, linked |-> c]
         IN  j \in Journal /\ j # NoJournal
<1>1. tok[p] \in Token /\ eng[p] \in Engine
  BY Written
<1>2. [tok |-> tok[p], eng |-> eng[p], confirmed |-> b, linked |-> c] \in Journal
  BY <1>1 DEF Journal
<1> QED
  BY <1>2, MeasurementAssumption

\* Types of what the steps of a process touch.
LEMMA StepTypes ==
  ASSUME MeasurementInv, NEW p \in Proc, Step(p)
  PROVE  TypeOK'
<1> USE MeasurementAssumption DEF TypeOK
<1>1. TypeOK /\ faults' \in 0..MaxFaults
  BY DEF MeasurementInv, Step, Identify, Link, Unlink, Sync, Create, Reply, Confirm, ConfirmSync,
     Export, Find, Load, Compare, Inspect, Remove, Forget, ForgetSync, Publish, Calm, Fault
<1>2. pc' \in [Proc -> Label]
  BY <1>1 DEF Step, Identify, Link, Unlink, Sync, Create, Reply, Confirm, ConfirmSync, Export,
     Find, Load, Compare, Inspect, Remove, Forget, ForgetSync, Publish, On, Exit, Goto, Label
<1>3. /\ tok' \in [Proc -> Token \cup {NoToken}]
      /\ eng' \in [Proc -> Engine \cup {NoEngine}]
      /\ known' \in [Proc -> Journal \cup {NoJournal}]
      /\ created' \in [Proc -> BOOLEAN]
      /\ measured' \in [Proc -> BOOLEAN]
      /\ confirm' \in [Proc -> BOOLEAN]
  <2>1. CASE Load(p)
    <3>1. CASE Exit(p)
      BY <1>1, <3>1 DEF Exit
    <3>2. CASE ~Exit(p)
      <4>1. journal \in Journal /\ journal.tok \in Token
        BY <1>1, <2>1, <3>2 DEF Load, Journal
      <4> QED
        BY <1>1, <2>1, <3>2, <4>1 DEF Load
    <3> QED
      BY <3>1, <3>2
  <2>2. CASE Identify(p) \/ Reply(p) \/ Export(p)
    <3>1. CASE Exit(p) \/ UNCHANGED localVars
      BY <1>1, <3>1 DEF Exit, localVars
    <3>2. CASE Identify(p) /\ ~Exit(p)
      BY <1>1, <3>2 DEF Identify
    <3>3. CASE Reply(p) /\ ~UNCHANGED localVars
      BY <1>1, <3>3 DEF Reply, On
    <3>4. CASE Export(p)
      BY <1>1, <3>4 DEF Export
    <3> QED
      BY <2>2, <3>1, <3>2, <3>3, <3>4 DEF Identify
  <2>3. CASE ~(Load(p) \/ Identify(p) \/ Reply(p) \/ Export(p))
    <3>1. Exit(p) \/ UNCHANGED localVars
      BY <2>3 DEF Step, Link, Unlink, Sync, Create, Confirm, ConfirmSync, Find, Compare, Inspect,
         Remove, Forget, ForgetSync, Publish, On
    <3> QED
      BY <1>1, <3>1 DEF Exit, localVars
  <2> QED
    BY <2>1, <2>2, <2>3
<1>4. /\ journal' \in Journal \cup {NoJournal} /\ durable' \in Journal \cup {NoJournal}
      /\ evidence' \in Token \cup {NoToken}
  <2>1. CASE Link(p) \/ Confirm(p)
    <3>1. pc[p] \in {"link", "confirm"}
      BY <2>1 DEF Link, Confirm
    <3>2. \A b, c \in BOOLEAN :
            [tok |-> tok[p], eng |-> eng[p], confirmed |-> b, linked |-> c] \in Journal
      BY <3>1, WrittenJournal
    <3> QED
      BY <1>1, <2>1, <3>2 DEF Link, Confirm
  <2>2. CASE Unlink(p)
    <3>1. journal # NoJournal => [journal EXCEPT !.linked = FALSE] \in Journal
      BY <1>1 DEF Journal
    <3> QED
      BY <1>1, <2>2, <3>1 DEF Unlink
  <2>3. CASE ~(Link(p) \/ Confirm(p) \/ Unlink(p))
    BY <1>1, <2>3
    DEF Step, Identify, Sync, Create, Reply, ConfirmSync, Export, Find, Load, Compare, Inspect,
        Remove, Forget, ForgetSync, Publish, diskVars
  <2> QED
    BY <2>1, <2>2, <2>3
<1>5. /\ current' \in Engine /\ containers' \subseteq Name /\ requests' \subseteq Name
      /\ replies' \in [Token -> {"none", "created", "refused"}] /\ fresh' \subseteq Token
  <2>1. CASE Create(p)
    <3>1. pc[p] = "create"
      BY <2>1 DEF Create
    <3>2. journal # NoJournal /\ journal.tok = tok[p]
      BY <3>1 DEF MeasurementInv, Knows, EndKnows, Holding, Linked
    <3>3. tok[p] \in Token
      BY <1>1, <3>2 DEF Journal
    <3> QED
      BY <1>1, <2>1, <3>3 DEF Create, Name
  <2>2. CASE ~Create(p)
    BY <1>1, <2>2
    DEF Step, Identify, Link, Unlink, Sync, Reply, Confirm, ConfirmSync, Export, Find, Load,
        Compare, Inspect, Remove, Forget, ForgetSync, Publish, dockerVars
  <2> QED
    BY <2>1, <2>2
<1> QED
  BY <1>1, <1>2, <1>3, <1>4, <1>5

\* Types of the rest.
LEMMA OtherTypes ==
  ASSUME TypeOK,
         \/ \E p \in Proc : \/ StartMeasuring(p) \/ Crash(p)
                            \/ \E sure \in BOOLEAN : StartCleanup(p, sure)
         \/ \E r \in requests : DaemonCreates(r) \/ DaemonRefuses(r)
         \/ \E e \in Engine : EngineRestarts(e) \/ Repoint(e)
         \/ PointAtJournal \/ PowerLoss
  PROVE  TypeOK'
<1> USE MeasurementAssumption DEF TypeOK
<1>1. CASE \E p \in Proc : \/ StartMeasuring(p) \/ Crash(p)
                           \/ \E sure \in BOOLEAN : StartCleanup(p, sure)
  <2>1. PICK p \in Proc : \/ StartMeasuring(p) \/ Crash(p)
                           \/ \E sure \in BOOLEAN : StartCleanup(p, sure)
    BY <1>1
  <2>2. CASE StartMeasuring(p)
    BY <2>2 DEF StartMeasuring, Goto, Calm, Label, diskVars, dockerVars
  <2>3. CASE Crash(p)
    BY <2>3 DEF Crash, Exit, Fault, Label, diskVars, dockerVars
  <2>4. CASE \E sure \in BOOLEAN : StartCleanup(p, sure)
    BY <2>4 DEF StartCleanup, Goto, Calm, Label, diskVars, dockerVars
  <2> QED
    BY <2>1, <2>2, <2>3, <2>4
<1>2. CASE \E r \in requests : DaemonCreates(r) \/ DaemonRefuses(r)
  BY <1>2 DEF DaemonCreates, DaemonRefuses, Calm, Name, diskVars, localVars
<1>3. CASE \E e \in Engine : EngineRestarts(e) \/ Repoint(e)
  BY <1>3 DEF EngineRestarts, Repoint, Calm, Fault, diskVars, localVars
<1>4. CASE PointAtJournal
  BY <1>4 DEF PointAtJournal, Calm, Journal, diskVars, localVars
<1>5. CASE PowerLoss
  BY <1>5 DEF PowerLoss, Fault, Label
<1> QED
  BY <1>1, <1>2, <1>3, <1>4, <1>5

-----------------------------------------------------------------------------
(* What the steps have in common. *)

\* The others' variables are not touched.
Own(p) ==
  \A q \in Proc \ {p} :
    /\ pc'[q] = pc[q] /\ tok'[q] = tok[q] /\ eng'[q] = eng[q]
    /\ known'[q] = known[q] /\ confirm'[q] = confirm[q]

\* Who is idle knows nothing.
LEMMA IdleKnows == ASSUME NEW p \in Proc, pc'[p] = "idle" PROVE Knows(p)'
BY DEF Knows, MeasurerKnows, CleanerKnows, EndKnows, Before, Linked, Synced, Holding

\* A step that begins nothing leaves the measurements and the cleanup apart.
GoesOn(p) ==
  /\ pc[p] # "idle"
  /\ pc'[p] = "idle" => known'[p] = NoJournal
  /\ pc'[p] # "idle" => /\ CleaningUp(p)' <=> CleaningUp(p)
                        /\ CleaningUp(p) \/ tok'[p] = tok[p]

\* So is every step of a command: it works on its own variables, and begins nothing.
LEMMA StepGoesOn ==
  ASSUME MeasurementInv, NEW p \in Proc, Step(p)
  PROVE  Own(p) /\ GoesOn(p) /\ fresh' = fresh /\ current' = current
<1>1. TypeOK
  BY DEF MeasurementInv
<1>2. Own(p)
  BY <1>1 DEF TypeOK, Own, Step, Identify, Link, Unlink, Sync, Create, Reply, Confirm, ConfirmSync,
     Export, Find, Load, Compare, Inspect, Remove, Forget, ForgetSync, Publish, On, Exit, Goto,
     localVars
<1>3. fresh' = fresh /\ current' = current
  BY DEF Step, Identify, Link, Unlink, Sync, Create, Reply, Confirm, ConfirmSync, Export, Find,
     Load, Compare, Inspect, Remove, Forget, ForgetSync, Publish, dockerVars
<1>4. pc[p] # "idle"
  BY DEF Step, Identify, Link, Unlink, Sync, Create, Reply, Confirm, ConfirmSync, Export, Find,
     Load, Compare, Inspect, Remove, Forget, ForgetSync, Publish
<1>5. CASE Exit(p)
  BY <1>1, <1>2, <1>3, <1>4, <1>5 DEF TypeOK, GoesOn, Exit
<1>6. CASE ~Exit(p) /\ Load(p)
  BY <1>1, <1>2, <1>3, <1>6 DEF TypeOK, GoesOn, CleaningUp, Load, Goto
<1>7. CASE ~Exit(p) /\ ~Load(p)
  <2>1. pc'[p] \notin {"load", "idle"} /\ pc[p] # "load" /\ UNCHANGED <<tok, known>>
    BY <1>1, <1>7 DEF TypeOK, Step, Identify, Link, Unlink, Sync, Create, Reply, Confirm,
       ConfirmSync, Export, Find, Compare, Inspect, Remove, Forget, ForgetSync, Publish, On, Goto,
       localVars
  <2> QED
    BY <1>2, <1>3, <1>4, <2>1 DEF GoesOn, CleaningUp
<1> QED
  BY <1>5, <1>6, <1>7

\* Aside is kept by it.
LEMMA AsideStep ==
  ASSUME MeasurementInv, NEW p \in Proc, Own(p), GoesOn(p)
  PROVE  Aside'
BY DEF MeasurementInv, Aside, Own, GoesOn, CleaningUp

\* Drawn is kept when tokens are only asked for by those who drew them.
LEMMA DrawnStep ==
  ASSUME MeasurementInv, NEW p \in Proc, Own(p), GoesOn(p), fresh' = fresh,
         \A n \in Active' : n \in Active \/ n.tok \notin fresh,
         replies' = replies
  PROVE  Drawn'
<1>1. \A q \in Proc : Measuring(q)' => Measuring(q) /\ tok'[q] = tok[q]
  BY DEF Own, GoesOn, Measuring, CleaningUp
<1> QED
  BY <1>1 DEF MeasurementInv, Global, Drawn

\* A step that changes neither the journal nor Docker is judged by what its process
\* knows next.
LEMMA LocalStep ==
  ASSUME MeasurementInv, TypeOK', NEW p \in Proc, Own(p), GoesOn(p),
         UNCHANGED <<journal, durable, dockerVars, fresh>>, Knows(p)'
  PROVE  MeasurementInv'
<1>1. Aside' /\ Drawn'
  BY AsideStep, DrawnStep DEF dockerVars, Active
<1>2. OneEach' /\ NoOrphan' /\ Placed' /\ Answered'
  BY DEF MeasurementInv, Global, OneEach, NoOrphan, Placed, Answered, Active, dockerVars
<1>3. ASSUME NEW q \in Proc, q # p PROVE Knows(q)'
  BY <1>3 DEF MeasurementInv, Knows, MeasurerKnows, CleanerKnows, EndKnows, None, Active, Own,
     dockerVars
<1> QED
  BY <1>1, <1>2, <1>3 DEF MeasurementInv, Global

\* Beside who holds the journal the others have not linked one yet, or no longer.
LEMMA OneHolds ==
  ASSUME MeasurementInv, NEW p \in Proc, pc[p] \in Holding, NEW q \in Proc, q # p
  PROVE  /\ pc[q] \in {"idle", "identify", "link", "forgetSync", "publish"}
         /\ pc[q] # "idle" => Measuring(q) /\ Measuring(p) /\ tok[q] # tok[p]
         /\ journal # NoJournal /\ journal.tok = tok[p]
<1>1. journal # NoJournal /\ journal.tok = tok[p]
  BY DEF MeasurementInv, Knows, EndKnows
<1>2. CASE pc[q] = "idle"
  BY <1>1, <1>2
<1>3. CASE pc[q] # "idle"
  <2>1. Measuring(q) /\ Measuring(p)
    BY <1>3 DEF MeasurementInv, Aside, Measuring, Holding, Linked
  <2>2. tok[q] # tok[p]
    BY <2>1 DEF MeasurementInv, Global, Drawn
  <2>3. pc[q] \notin Holding
    BY <1>1, <2>2 DEF MeasurementInv, Knows, EndKnows
  <2>4. pc[q] # "load"
    BY <2>1 DEF Measuring, CleaningUp
  <2> QED
    BY <1>1, <1>3, <2>1, <2>2, <2>3, <2>4
    DEF MeasurementInv, TypeOK, Label, Holding, Linked
<1> QED
  BY <1>2, <1>3

\* What the holder of the journal does with it and with its container does not
\* concern the others.
LEMMA OthersKnow ==
  ASSUME MeasurementInv, NEW p \in Proc, pc[p] \in Holding, Own(p),
         UNCHANGED <<current, replies>>,
         \A n \in Active' : n \in Active \/ n.tok = tok[p],
         journal' # NoJournal => journal'.tok = tok[p],
         durable' \in {durable, journal, journal'},
         NEW q \in Proc, q # p
  PROVE  Knows(q)'
<1>1. /\ pc[q] \in {"idle", "identify", "link", "forgetSync", "publish"}
      /\ pc[q] # "idle" => tok[q] # tok[p]
      /\ journal # NoJournal /\ journal.tok = tok[p]
  BY OneHolds
<1>2. /\ pc'[q] = pc[q] /\ tok'[q] = tok[q] /\ eng'[q] = eng[q] /\ known'[q] = known[q]
      /\ Knows(q)
  BY DEF Own, MeasurementInv
<1>3. pc[q] # "idle" /\ None(tok[q]) => None(tok[q])'
  BY <1>1, <1>2 DEF None
<1> QED
  BY <1>1, <1>2, <1>3
  DEF Knows, MeasurerKnows, CleanerKnows, EndKnows, Before, Linked, Synced, Holding

\* Nothing is left of a token: nothing is left at all, when the journal has it.
LEMMA NothingLeft ==
  ASSUME MeasurementInv, journal = NoJournal \/ None(journal.tok)
  PROVE  Active = {}
BY DEF MeasurementInv, Global, NoOrphan, None, Active

-----------------------------------------------------------------------------
(* The steps. *)

\* Steps that look, and decide.
LEMMA LookingKeeps ==
  ASSUME MeasurementInv, TypeOK', NEW p \in Proc, Step(p),
         Identify(p) \/ Reply(p) \/ Export(p) \/ Find(p) \/ Publish(p)
  PROVE  MeasurementInv'
<1>1. /\ Own(p) /\ GoesOn(p) /\ fresh' = fresh
      /\ UNCHANGED <<journal, durable, dockerVars>>
  BY StepGoesOn DEF Identify, Reply, Export, Find, Publish, diskVars
<1>2. TypeOK /\ Knows(p)
  BY DEF MeasurementInv
<1>3. Knows(p)'
  <2>1. CASE pc'[p] = "idle"
    BY <2>1, IdleKnows
  <2>2. CASE pc'[p] # "idle" /\ Identify(p)
    BY <1>1, <1>2, <2>2
    DEF TypeOK, Identify, Exit, Goto, Knows, MeasurerKnows, CleanerKnows, EndKnows, Before,
        Linked, Synced, Holding, None, Active, dockerVars
  <2>3. CASE pc'[p] # "idle" /\ (Reply(p) \/ Export(p))
    BY <1>1, <1>2, <2>3
    DEF TypeOK, Reply, Export, On, Exit, Goto, Knows, MeasurerKnows, CleanerKnows, EndKnows,
        Before, Linked, Synced, Holding, localVars, dockerVars
  <2>4. CASE pc'[p] # "idle" /\ Find(p)
    BY <1>1, <1>2, <2>4
    DEF TypeOK, Find, On, Exit, Goto, Knows, MeasurerKnows, CleanerKnows, EndKnows,
        Before, Linked, Synced, Holding, localVars, dockerVars
  <2>5. CASE pc'[p] # "idle" /\ Publish(p)
    BY <1>2, <2>5 DEF TypeOK, Publish, Exit
  <2> QED
    BY <2>1, <2>2, <2>3, <2>4, <2>5
<1> QED
  BY <1>1, <1>3, LocalStep

\* A cleanup forgets a journal at sight only when nothing can be left.
LEMMA CleanupKeeps ==
  ASSUME MeasurementInv, TypeOK', NEW p \in Proc, Step(p), Load(p) \/ Compare(p) \/ Inspect(p)
  PROVE  MeasurementInv'
<1>1. /\ Own(p) /\ GoesOn(p) /\ fresh' = fresh
      /\ UNCHANGED <<journal, durable, dockerVars>>
  BY StepGoesOn DEF Load, Compare, Inspect, diskVars
<1>2. TypeOK /\ Knows(p)
  BY DEF MeasurementInv
<1>3. Knows(p)'
  <2>1. CASE pc'[p] = "idle"
    BY <2>1, IdleKnows
  <2>2. CASE pc'[p] # "idle" /\ Load(p)
    BY <1>1, <1>2, <2>2
    DEF TypeOK, Load, Exit, Goto, Knows, MeasurerKnows, CleanerKnows, EndKnows, Before,
        Linked, Synced, Holding, dockerVars
  <2>3. CASE pc'[p] # "idle" /\ Compare(p)
    <3>1. /\ journal # NoJournal /\ journal.tok = tok[p] /\ known[p] = journal
          /\ UNCHANGED <<tok, eng, known, confirm>>
      BY <1>2, <2>3 DEF Compare, On, Exit, TypeOK, Knows, CleanerKnows, EndKnows, Holding, localVars
    <3>2. \/ pc'[p] = "inspect" /\ current = journal.eng
          \/ pc'[p] = "forget" /\ current # journal.eng /\ confirm[p]
      BY <1>2, <2>3, <3>1 DEF Compare, On, Exit, Goto, TypeOK
    <3>3. pc'[p] = "forget" => Active = {}
      BY <1>2, <2>3, <3>2 DEF Compare, Knows, CleanerKnows, Active
    <3> QED
      BY <1>1, <1>2, <2>3, <3>1, <3>2, <3>3
      DEF Compare, Knows, MeasurerKnows, CleanerKnows, EndKnows, Before, Linked, Synced, Holding,
          None, Active, dockerVars
  <2>4. CASE pc'[p] # "idle" /\ Inspect(p)
    <3>1. /\ journal # NoJournal /\ journal.tok = tok[p] /\ known[p] = journal
          /\ current = journal.eng
          /\ UNCHANGED <<tok, eng, known, confirm>>
      BY <1>2, <2>4 DEF Inspect, On, Exit, TypeOK, Knows, CleanerKnows, EndKnows, Holding, localVars
    <3>2. \/ pc'[p] = "remove" /\ [eng |-> current, tok |-> tok[p]] \in containers
          \/ /\ pc'[p] = "forget" /\ [eng |-> current, tok |-> tok[p]] \notin containers
             /\ known[p].confirmed \/ confirm[p]
      BY <1>2, <2>4 DEF Inspect, On, Exit, Goto, TypeOK
    <3>3. pc'[p] = "forget" => Active = {}
      <4> SUFFICES ASSUME pc'[p] = "forget", NEW n \in Active PROVE FALSE
        OBVIOUS
      <4>1. n.tok = journal.tok /\ n.eng = journal.eng
        BY DEF MeasurementInv, Global, NoOrphan, Placed, Active
      <4>2. n = [eng |-> current, tok |-> tok[p]]
        BY <1>2, <3>1, <4>1 DEF TypeOK, Name, Active
      <4>3. requests = {}
        BY <1>2, <2>4, <3>1, <3>2
        DEF Inspect, MeasurementInv, Global, Answered, Knows, CleanerKnows
      <4> QED
        BY <3>2, <4>2, <4>3 DEF Active
    <3> QED
      BY <1>1, <1>2, <2>4, <3>1, <3>2, <3>3
      DEF Inspect, Knows, MeasurerKnows, CleanerKnows, EndKnows, Before, Linked, Synced, Holding,
          None, Active, dockerVars
  <2> QED
    BY <2>1, <2>2, <2>3, <2>4
<1> QED
  BY <1>1, <1>3, LocalStep

\* A journal is linked where none is, so nothing is left of anybody.
LEMMA LinkKeeps ==
  ASSUME MeasurementInv, TypeOK', NEW p \in Proc, Step(p), Link(p)
  PROVE  MeasurementInv'
<1>1. Own(p) /\ GoesOn(p) /\ fresh' = fresh
  BY StepGoesOn
<1>2. TypeOK /\ Knows(p) /\ pc[p] = "link"
  BY DEF MeasurementInv, Link
<1>3. CASE journal' = journal
  <2>1. UNCHANGED <<durable, dockerVars>> /\ pc'[p] \in {"idle", "unlink"}
    BY <1>2 DEF Link, On, Exit, Goto, TypeOK
  <2>2. pc'[p] = "idle"
    <3>1. journal = NoJournal =>
            journal # [tok |-> tok[p], eng |-> eng[p], confirmed |-> FALSE, linked |-> TRUE]
      BY <1>2, WrittenJournal
    <3> QED
      BY <1>2, <1>3, <3>1 DEF Link, Exit, TypeOK
  <2> QED
    BY <1>1, <1>3, <2>1, <2>2, LocalStep, IdleKnows
<1>4. CASE journal' # journal
  <2>1. /\ journal = NoJournal /\ pc'[p] = "unlink"
        /\ journal' = [tok |-> tok[p], eng |-> eng[p], confirmed |-> FALSE, linked |-> TRUE]
        /\ UNCHANGED <<durable, dockerVars, tok, eng, known, confirm>>
    BY <1>2, <1>4 DEF Link, On, Goto, TypeOK, localVars
  <2>2. journal' # NoJournal
    BY <1>4, <2>1
  <2>3. Active = {} /\ Active' = {}
    BY <2>1, NothingLeft DEF Active, dockerVars
  <2>4. Aside' /\ Drawn'
    BY <1>1, <2>1, <2>3, AsideStep, DrawnStep DEF dockerVars
  <2>5. OneEach' /\ NoOrphan' /\ Placed' /\ Answered'
    BY <2>1, <2>3 DEF OneEach, NoOrphan, Placed, Answered, Active
  <2>6. Knows(p)'
    BY <1>2, <2>1, <2>2, <2>3
    DEF Knows, MeasurerKnows, CleanerKnows, EndKnows, Before, Linked, Synced, Holding, None,
        dockerVars
  <2>7. ASSUME NEW q \in Proc, q # p PROVE Knows(q)'
    <3>1. Knows(q) /\ pc'[q] = pc[q] /\ tok'[q] = tok[q] /\ eng'[q] = eng[q]
          /\ known'[q] = known[q] /\ confirm'[q] = confirm[q]
      BY <1>1, <2>7 DEF MeasurementInv, Own
    <3>2. pc[q] \notin Holding
      BY <2>1, <3>1 DEF Knows, EndKnows
    <3>3. Measuring(p)
      BY <1>2 DEF Measuring, CleaningUp, Knows, MeasurerKnows, Before
    <3>4. CASE pc[q] = "idle"
      BY <3>1, <3>4, IdleKnows
    <3>5. CASE pc[q] # "idle"
      <4>1. Measuring(q) /\ tok[q] # tok[p]
        BY <1>2, <2>7, <3>3, <3>5 DEF MeasurementInv, Aside, Global, Drawn, Measuring
      <4>2. pc[q] # "load"
        BY <4>1 DEF Measuring, CleaningUp
      <4> QED
        BY <2>1, <2>3, <3>1, <3>2, <4>1, <4>2
        DEF Knows, MeasurerKnows, CleanerKnows, EndKnows, Before, Linked, Synced, Holding, None,
            dockerVars
    <3> QED
      BY <3>4, <3>5
  <2> QED
    BY <2>4, <2>5, <2>6, <2>7 DEF MeasurementInv, Global
<1> QED
  BY <1>3, <1>4

\* The journal's second name goes, its content is confirmed: token and engine stay.
LEMMA RewritingKeeps ==
  ASSUME MeasurementInv, TypeOK', NEW p \in Proc, Step(p), Unlink(p) \/ Confirm(p)
  PROVE  MeasurementInv'
<1>1. Own(p) /\ GoesOn(p) /\ fresh' = fresh
  BY StepGoesOn
<1>2. /\ TypeOK /\ Knows(p) /\ pc[p] \in {"unlink", "confirm"}
      /\ UNCHANGED <<durable, dockerVars>>
  BY DEF MeasurementInv, Unlink, Confirm
<1>3. CASE journal' = journal
  <2>1. Knows(p)'
    BY <1>2, <1>3
    DEF Unlink, Confirm, On, Goto, TypeOK, Knows, MeasurerKnows, CleanerKnows, EndKnows, Before,
        Linked, Synced, Holding, None, Active, dockerVars, localVars
  <2> QED
    BY <1>1, <1>2, <1>3, <2>1, LocalStep
<1>4. CASE journal' # journal
  <2>1. /\ journal # NoJournal /\ journal.tok = tok[p] /\ journal.eng = eng[p]
    BY <1>2 DEF Knows, MeasurerKnows, EndKnows, Linked, Holding
  <2>2. /\ journal' # NoJournal /\ journal'.tok = tok[p] /\ journal'.eng = eng[p]
        /\ \/ pc[p] = "unlink" /\ pc'[p] = "sync" /\ journal'.confirmed = journal.confirmed
           \/ pc[p] = "confirm" /\ pc'[p] = "confirmSync" /\ journal'.confirmed
        /\ UNCHANGED <<tok, eng, known, confirm>>
    <3>1. CASE Unlink(p)
      <4>1. journal \in Journal /\ journal' = [journal EXCEPT !.linked = FALSE]
        BY <1>2, <2>1, <3>1 DEF Unlink, TypeOK
      <4> QED
        BY <1>2, <3>1, <4>1, <2>1, MeasurementAssumption
        DEF Unlink, On, Goto, TypeOK, Journal, localVars
    <3>2. CASE Confirm(p)
      <4>1. journal' \in Journal /\ journal' # NoJournal
        BY <1>2, <1>4, <3>2, WrittenJournal DEF Confirm
      <4> QED
        BY <1>2, <1>4, <3>2, <4>1 DEF Confirm, On, Goto, TypeOK, localVars
    <3> QED
      BY <3>1, <3>2
  <2>3. pc[p] = "confirm" => requests = {}
    <3> SUFFICES ASSUME pc[p] = "confirm", NEW r \in requests PROVE FALSE
      OBVIOUS
    <3>1. r.tok = tok[p]
      BY <2>1 DEF MeasurementInv, Global, NoOrphan
    <3> QED
      BY <1>2, <3>1 DEF MeasurementInv, Global, Answered, Knows, MeasurerKnows
  <2>4. Aside' /\ Drawn'
    BY <1>1, <1>2, AsideStep, DrawnStep DEF dockerVars, Active
  <2>5. OneEach' /\ NoOrphan' /\ Placed' /\ Answered'
    BY <1>2, <2>1, <2>2, <2>3
    DEF MeasurementInv, Global, OneEach, NoOrphan, Placed, Answered, Active, dockerVars
  <2>6. Knows(p)'
    BY <1>2, <2>1, <2>2
    DEF Knows, MeasurerKnows, CleanerKnows, EndKnows, Before, Linked, Synced, Holding, None, Active,
        dockerVars
  <2>7. ASSUME NEW q \in Proc, q # p PROVE Knows(q)'
    BY <1>1, <1>2, <2>2, <2>7, OthersKnow DEF Holding, Linked, Active, dockerVars
  <2> QED
    BY <2>4, <2>5, <2>6, <2>7 DEF MeasurementInv, Global
<1> QED
  BY <1>3, <1>4

\* What is on disk becomes durable, whoever syncs.
LEMMA SyncingKeeps ==
  ASSUME MeasurementInv, TypeOK', NEW p \in Proc, Step(p),
         Sync(p) \/ ConfirmSync(p) \/ ForgetSync(p)
  PROVE  MeasurementInv'
<1>1. Own(p) /\ GoesOn(p) /\ fresh' = fresh
  BY StepGoesOn
<1>2. /\ TypeOK /\ Knows(p) /\ pc[p] \in {"sync", "confirmSync", "forgetSync"}
      /\ UNCHANGED <<journal, dockerVars>> /\ durable' \in {durable, journal}
  BY DEF MeasurementInv, Sync, ConfirmSync, ForgetSync
<1>3. Aside' /\ Drawn'
  BY <1>1, <1>2, AsideStep, DrawnStep DEF dockerVars, Active
<1>4. OneEach' /\ NoOrphan' /\ Placed' /\ Answered'
  BY <1>2 DEF MeasurementInv, Global, OneEach, NoOrphan, Placed, Answered, Active, dockerVars
<1>5. Knows(p)'
  <2>1. CASE pc'[p] = "idle"
    BY <2>1, IdleKnows
  <2>2. CASE pc'[p] # "idle"
    <3>1. /\ UNCHANGED <<tok, eng, known, confirm>>
          /\ \/ pc[p] = "sync" /\ pc'[p] = "create" /\ durable' = journal
             \/ pc[p] = "confirmSync" /\ pc'[p] = "export" /\ durable' = journal
             \/ pc[p] = "confirmSync" /\ pc'[p] = "find"
             \/ pc[p] = "forgetSync" /\ pc'[p] = "publish" /\ durable' = journal
      BY <1>2, <2>2 DEF Sync, ConfirmSync, ForgetSync, On, Exit, Goto, TypeOK, localVars
    <3> QED
      BY <1>2, <3>1
      DEF Knows, MeasurerKnows, CleanerKnows, EndKnows, Before, Linked, Synced, Holding, None,
          Active, dockerVars
  <2> QED
    BY <2>1, <2>2
<1>6. ASSUME NEW q \in Proc, q # p PROVE Knows(q)'
  <2>1. /\ Knows(q) /\ pc'[q] = pc[q] /\ tok'[q] = tok[q] /\ eng'[q] = eng[q]
        /\ known'[q] = known[q] /\ confirm'[q] = confirm[q]
    BY <1>1, <1>6 DEF MeasurementInv, Own
  <2> QED
    BY <1>2, <2>1
    DEF Knows, MeasurerKnows, CleanerKnows, EndKnows, Linked, Synced, Holding, None, Active,
        dockerVars
<1> QED
  BY <1>3, <1>4, <1>5, <1>6 DEF MeasurementInv, Global

\* The one request of a token is made.
LEMMA CreateKeeps ==
  ASSUME MeasurementInv, TypeOK', NEW p \in Proc, Step(p), Create(p)
  PROVE  MeasurementInv'
<1> DEFINE new == [eng |-> current, tok |-> tok[p]]
<1>1. Own(p) /\ GoesOn(p) /\ fresh' = fresh
  BY StepGoesOn
<1>2. /\ TypeOK /\ Knows(p) /\ pc[p] = "create" /\ pc'[p] = "reply"
      /\ UNCHANGED <<journal, durable, current, containers, replies, tok, eng, known, confirm>>
      /\ requests' = requests \cup {new}
  BY DEF MeasurementInv, TypeOK, Create, On, Goto, diskVars, localVars
<1>3. /\ journal # NoJournal /\ journal.tok = tok[p] /\ journal.eng = current
      /\ durable # NoJournal /\ durable.tok = tok[p] /\ durable.eng = current
      /\ ~journal.confirmed /\ replies[tok[p]] = "none" /\ None(tok[p]) /\ known[p] = NoJournal
  BY <1>2 DEF Knows, MeasurerKnows, EndKnows, Before, Linked, Synced, Holding
<1>4. Active = {} /\ Active' = {new} /\ requests' = {new} /\ containers' = {}
  BY <1>2, <1>3, NothingLeft DEF Active
<1>5. tok[p] \notin fresh
  BY <1>2, <1>3 DEF MeasurementInv, Global, Drawn, Measuring, CleaningUp
<1>6. Aside' /\ Drawn'
  BY <1>1, <1>2, <1>4, <1>5, AsideStep, DrawnStep
<1>7. OneEach' /\ NoOrphan' /\ Placed' /\ Answered'
  BY <1>2, <1>3, <1>4 DEF OneEach, NoOrphan, Placed, Answered, Active
<1>8. Knows(p)'
  BY <1>2, <1>3
  DEF Knows, MeasurerKnows, CleanerKnows, EndKnows, Before, Linked, Synced, Holding
<1>9. ASSUME NEW q \in Proc, q # p PROVE Knows(q)'
  <2>1. pc[p] \in Holding /\ \A n \in Active' : n.tok = tok[p]
    BY <1>2, <1>4 DEF Holding, Linked
  <2> QED
    BY <1>1, <1>2, <1>3, <1>9, <2>1, OthersKnow
<1> QED
  BY <1>6, <1>7, <1>8, <1>9 DEF MeasurementInv, Global

\* The container goes, and it was all there was.
LEMMA RemoveKeeps ==
  ASSUME MeasurementInv, TypeOK', NEW p \in Proc, Step(p), Remove(p)
  PROVE  MeasurementInv'
<1>1. Own(p) /\ GoesOn(p) /\ fresh' = fresh
  BY StepGoesOn
<1>2. /\ TypeOK /\ Knows(p) /\ pc[p] = "remove"
      /\ UNCHANGED <<journal, durable, current, requests, replies>>
      /\ containers' \subseteq containers
  BY DEF MeasurementInv, Remove, diskVars
<1>3. Active' \subseteq Active
  BY <1>2 DEF Active
<1>4. Aside' /\ Drawn'
  BY <1>1, <1>2, <1>3, AsideStep, DrawnStep
<1>5. OneEach' /\ NoOrphan' /\ Placed' /\ Answered'
  <2>1. NoOrphan'
    BY <1>2 DEF MeasurementInv, Global, NoOrphan
  <2> QED
    BY <1>2, <1>3, <2>1 DEF MeasurementInv, Global, OneEach, Placed, Answered
<1>6. Knows(p)'
  <2>1. CASE pc'[p] = "idle"
    BY <2>1, IdleKnows
  <2>2. CASE pc'[p] # "idle"
    <3>1. /\ pc'[p] = "forget" /\ UNCHANGED <<tok, eng, known, confirm>>
          /\ containers' = containers \ {[eng |-> current, tok |-> tok[p]]}
      BY <1>2, <2>2 DEF Remove, On, Exit, Goto, TypeOK, localVars
    <3>2. [eng |-> current, tok |-> tok[p]] \in containers
      BY <1>2 DEF Knows, EndKnows
    <3>3. None(tok[p])'
      BY <1>2, <3>1, <3>2 DEF MeasurementInv, Global, OneEach, None, Active
    <3> QED
      BY <1>2, <3>1, <3>3
      DEF Knows, MeasurerKnows, CleanerKnows, EndKnows, Before, Linked, Synced, Holding
  <2> QED
    BY <2>1, <2>2
<1>7. ASSUME NEW q \in Proc, q # p PROVE Knows(q)'
  <2>1. pc[p] \in Holding /\ journal.tok = tok[p]
    BY <1>2 DEF Knows, EndKnows, Holding
  <2> QED
    BY <1>1, <1>2, <1>3, <1>7, <2>1, OthersKnow
<1> QED
  BY <1>4, <1>5, <1>6, <1>7 DEF MeasurementInv, Global

\* The journal goes when nothing is left.
LEMMA ForgetKeeps ==
  ASSUME MeasurementInv, TypeOK', NEW p \in Proc, Step(p), Forget(p)
  PROVE  MeasurementInv'
<1>1. Own(p) /\ GoesOn(p) /\ fresh' = fresh
  BY StepGoesOn
<1>2. /\ TypeOK /\ Knows(p) /\ pc[p] = "forget" /\ UNCHANGED <<durable, dockerVars>>
  BY DEF MeasurementInv, Forget
<1>3. journal # NoJournal /\ journal.tok = tok[p] /\ None(tok[p])
  BY <1>2 DEF Knows, EndKnows, Holding
<1>4. Active = {} /\ Active' = {}
  BY <1>2, <1>3, NothingLeft DEF Active, dockerVars
<1>5. CASE pc'[p] = "idle" /\ journal' = journal
  BY <1>1, <1>2, <1>5, LocalStep, IdleKnows
<1>6. CASE pc'[p] = "forgetSync" /\ journal' = NoJournal
  <2>1. Aside' /\ Drawn'
    BY <1>1, <1>2, <1>4, AsideStep, DrawnStep DEF dockerVars
  <2>2. OneEach' /\ NoOrphan' /\ Placed' /\ Answered'
    BY <1>4, <1>6 DEF OneEach, NoOrphan, Placed, Answered, Active
  <2>3. Knows(p)'
    BY <1>4, <1>6
    DEF Knows, MeasurerKnows, CleanerKnows, EndKnows, Before, Linked, Synced, Holding, None
  <2>4. ASSUME NEW q \in Proc, q # p PROVE Knows(q)'
    BY <1>1, <1>2, <1>4, <1>6, <2>4, OthersKnow DEF Holding, dockerVars
  <2> QED
    BY <2>1, <2>2, <2>3, <2>4 DEF MeasurementInv, Global
<1> QED
  BY <1>2, <1>5, <1>6 DEF Forget, On, Exit, Goto, TypeOK

\* A measurement begins, with a token of its own and beside no cleanup ...
LEMMA StartMeasuringKeeps ==
  ASSUME Alone, MeasurementInv, TypeOK', NEW p \in Proc, StartMeasuring(p)
  PROVE  MeasurementInv'
<1>1. /\ pc[p] = "idle" /\ pc'[p] = "identify" /\ Own(p)
      /\ \A q \in Proc : ~CleaningUp(q)
      /\ UNCHANGED <<journal, durable, dockerVars, eng, known, confirm>>
  BY DEF MeasurementInv, TypeOK, StartMeasuring, Own, Goto, diskVars
<1>2. PICK t \in fresh : fresh' = fresh \ {t} /\ tok'[p] = t
  BY DEF MeasurementInv, TypeOK, StartMeasuring
<1>3. Aside'
  BY <1>1 DEF MeasurementInv, Aside, Own, CleaningUp
<1>4. Drawn'
  <2>1. \A q \in Proc \ {p} : Measuring(q)' => Measuring(q) /\ tok'[q] = tok[q]
    BY <1>1 DEF Own, Measuring, CleaningUp
  <2>2. t \in Token
    BY DEF MeasurementInv, TypeOK
  <2> QED
    BY <1>1, <1>2, <2>1, <2>2 DEF MeasurementInv, Global, Drawn, Active, dockerVars
<1>5. OneEach' /\ NoOrphan' /\ Placed' /\ Answered'
  BY <1>1 DEF MeasurementInv, Global, OneEach, NoOrphan, Placed, Answered, Active, dockerVars
<1>6. Knows(p)'
  BY <1>1, <1>2
  DEF MeasurementInv, Aside, Global, Drawn, Knows, MeasurerKnows, CleanerKnows, EndKnows, Before,
      Linked, Synced, Holding, None, Active, dockerVars
<1>7. ASSUME NEW q \in Proc, q # p PROVE Knows(q)'
  BY <1>1, <1>7 DEF MeasurementInv, Knows, MeasurerKnows, CleanerKnows, EndKnows, None, Active, Own,
     dockerVars
<1> QED
  BY <1>3, <1>4, <1>5, <1>6, <1>7 DEF MeasurementInv, Global

\* ... and a cleanup beside nothing.
LEMMA StartCleanupKeeps ==
  ASSUME Alone, MeasurementInv, TypeOK', NEW p \in Proc, NEW sure \in BOOLEAN,
         StartCleanup(p, sure)
  PROVE  MeasurementInv'
<1>1. /\ pc'[p] = "load" /\ Quiet /\ Own(p)
      /\ confirm'[p] = sure /\ journal # NoJournal /\ (sure => MayConfirm)
      /\ UNCHANGED <<journal, durable, dockerVars, fresh, tok, eng, known>>
  BY DEF MeasurementInv, TypeOK, StartCleanup, Own, Goto, diskVars
<1>2. \A q \in Proc : q # p => pc'[q] = "idle" /\ known'[q] = NoJournal
  BY <1>1 DEF MeasurementInv, Aside, Own, Quiet
<1>3. Aside'
  BY <1>1, <1>2 DEF Aside, CleaningUp
<1>4. Global'
  <2>1. \A q \in Proc : ~Measuring(q)'
    BY <1>1, <1>2 DEF Measuring, CleaningUp
  <2> QED
    BY <1>1, <2>1 DEF MeasurementInv, Global, Drawn, OneEach, NoOrphan, Placed, Answered, Active,
       dockerVars
<1>5. Knows(p)'
  <2>1. sure => requests = {} /\ (current # journal.eng => containers = {})
    BY <1>1 DEF MeasurementInv, Global, NoOrphan, MayConfirm
  <2> QED
    BY <1>1, <2>1
    DEF Knows, MeasurerKnows, CleanerKnows, EndKnows, Before, Linked, Synced, Holding, dockerVars
<1>6. ASSUME NEW q \in Proc, q # p PROVE Knows(q)'
  BY <1>2, <1>6
  DEF Knows, MeasurerKnows, CleanerKnows, EndKnows, Before, Linked, Synced, Holding
<1> QED
  BY <1>3, <1>4, <1>5, <1>6 DEF MeasurementInv, Global

\* The daemon answers, or an engine restarts: requests become containers or nothing.
LEMMA DaemonKeeps ==
  ASSUME MeasurementInv, TypeOK',
         \/ \E r \in requests : DaemonCreates(r) \/ DaemonRefuses(r)
         \/ \E e \in Engine : EngineRestarts(e)
  PROVE  MeasurementInv'
<1>1. /\ UNCHANGED <<journal, durable, current, fresh, pc, tok, eng, known, confirm>>
      /\ requests' \subseteq requests /\ Active' \subseteq Active
      /\ containers \subseteq containers' /\ TypeOK
  BY DEF DaemonCreates, DaemonRefuses, EngineRestarts, Active, diskVars, localVars, MeasurementInv
<1>2. \A t \in Token : replies'[t] = replies[t] \/ \E r \in requests : r.tok = t /\ r \notin requests'
  BY <1>1 DEF DaemonCreates, DaemonRefuses, EngineRestarts, TypeOK
<1>3. OneEach'
  BY <1>1 DEF DaemonCreates, DaemonRefuses, EngineRestarts, MeasurementInv, Global, OneEach, Active
<1>4. NoOrphan' /\ Placed'
  BY <1>1 DEF MeasurementInv, Global, NoOrphan, Placed, Active
<1>5. Answered'
  <2>1. ASSUME NEW r \in requests' PROVE replies'[r.tok] = "none"
    <3>1. r \in requests /\ r.tok \in Token /\ replies[r.tok] = "none"
      BY <1>1, <2>1 DEF MeasurementInv, Global, Answered, TypeOK, Name
    <3>2. \A s \in requests : s.tok = r.tok => s = r
      BY <3>1 DEF MeasurementInv, Global, OneEach, Active
    <3> QED
      BY <1>2, <2>1, <3>1, <3>2
  <2> QED
    BY <1>1, <2>1 DEF MeasurementInv, Global, Answered
<1>6. Aside' /\ Drawn'
  <2>1. \A t \in fresh : replies'[t] = replies[t]
    BY <1>1, <1>2 DEF MeasurementInv, Global, Drawn, Active, TypeOK
  <2> QED
    BY <1>1, <2>1 DEF MeasurementInv, Aside, Global, Drawn, Measuring, CleaningUp
<1>7. ASSUME NEW p \in Proc PROVE Knows(p)'
  <2>1. Knows(p) /\ (None(tok[p]) => None(tok[p])')
    BY <1>1 DEF MeasurementInv, None
  <2>2. pc[p] \in Before => replies'[tok[p]] = replies[tok[p]]
    <3>1. pc[p] \in Before => Measuring(p)
      BY <2>1 DEF Knows, MeasurerKnows, Measuring, CleaningUp, Before
    <3> QED
      BY <1>2, <2>1, <3>1 DEF MeasurementInv, Global, Drawn, Knows, MeasurerKnows, None, Active
  <2>3. pc[p] \in {"confirm", "confirmSync"} => replies'[tok[p]] = replies[tok[p]]
    <3>1. pc[p] \in {"confirm", "confirmSync"} => Measuring(p)
      BY <2>1 DEF Knows, MeasurerKnows, Measuring, CleaningUp, Linked
    <3> QED
      BY <1>2, <2>1, <3>1
      DEF MeasurementInv, Global, Drawn, Answered, Knows, MeasurerKnows
  <2>4. containers' # containers => requests # {}
    BY DEF DaemonCreates, DaemonRefuses, EngineRestarts
  <2>5. MeasurerKnows(p)'
    BY <1>1, <2>1, <2>2, <2>3 DEF Knows, MeasurerKnows, None
  <2>6. CleanerKnows(p)'
    BY <1>1, <2>1, <2>4 DEF Knows, CleanerKnows
  <2>7. EndKnows(p)'
    BY <1>1, <2>1 DEF Knows, EndKnows, None
  <2> QED
    BY <2>5, <2>6, <2>7 DEF Knows
<1> QED
  BY <1>1, <1>3, <1>4, <1>5, <1>6, <1>7 DEF MeasurementInv, Global

\* The command is repointed when nobody is at work.
LEMMA RepointKeeps ==
  ASSUME MeasurementInv, TypeOK', PointAtJournal \/ \E e \in Engine : Repoint(e)
  PROVE  MeasurementInv'
<1>1. /\ Quiet
      /\ UNCHANGED <<journal, durable, containers, requests, replies, fresh, pc, tok, eng, known,
                     confirm>>
  BY DEF PointAtJournal, Repoint, diskVars, localVars
<1>2. Aside' /\ Global'
  BY <1>1 DEF MeasurementInv, Aside, Global, Drawn, OneEach, NoOrphan, Placed, Answered, Active,
     Measuring, CleaningUp
<1>3. ASSUME NEW p \in Proc PROVE Knows(p)'
  BY <1>1 DEF Quiet, Knows, MeasurerKnows, CleanerKnows, EndKnows, Before, Linked, Synced, Holding
<1> QED
  BY <1>2, <1>3 DEF MeasurementInv

\* Whoever dies leaves what the journal knows.
LEMMA CrashKeeps ==
  ASSUME MeasurementInv, TypeOK', NEW p \in Proc, Crash(p)
  PROVE  MeasurementInv'
<1>1. /\ Own(p) /\ GoesOn(p) /\ pc'[p] = "idle"
      /\ UNCHANGED <<journal, durable, dockerVars, fresh>>
  BY DEF MeasurementInv, TypeOK, Crash, Exit, Own, GoesOn, diskVars
<1>2. Knows(p)'
  BY <1>1 DEF Knows, MeasurerKnows, CleanerKnows, EndKnows, Before, Linked, Synced, Holding
<1> QED
  BY <1>1, <1>2, LocalStep

\* And a power loss leaves one of two journals that know it.
LEMMA PowerLossKeeps ==
  ASSUME MeasurementInv, TypeOK', PowerLoss PROVE MeasurementInv'
<1>1. /\ journal' \in {journal, durable} /\ durable' = journal' /\ requests' = {}
      /\ \A p \in Proc : pc'[p] = "idle" /\ known'[p] = NoJournal
      /\ UNCHANGED <<containers, replies, fresh>>
  BY DEF PowerLoss
<1>2. Aside' /\ Drawn'
  BY <1>1 DEF MeasurementInv, Aside, Global, Drawn, Measuring, CleaningUp, Active
<1>3. OneEach' /\ NoOrphan' /\ Placed' /\ Answered'
  BY <1>1 DEF MeasurementInv, Global, OneEach, NoOrphan, Placed, Answered, Active
<1>4. ASSUME NEW p \in Proc PROVE Knows(p)'
  BY <1>1 DEF Knows, MeasurerKnows, CleanerKnows, EndKnows, Before, Linked, Synced, Holding
<1> QED
  BY <1>2, <1>3, <1>4 DEF MeasurementInv, Global

-----------------------------------------------------------------------------

\* At the start nothing was ever asked for.
LEMMA InitMeasurement == Init => MeasurementInv
<1> SUFFICES ASSUME Init PROVE MeasurementInv
  OBVIOUS
<1>1. TypeOK
  BY MeasurementAssumption DEF Init, TypeOK, Label
<1>2. Aside /\ Global
  BY DEF Init, Aside, Global, Drawn, OneEach, NoOrphan, Placed, Answered, Active, Measuring,
     CleaningUp
<1>3. ASSUME NEW p \in Proc PROVE Knows(p)
  BY DEF Init, Knows, MeasurerKnows, CleanerKnows, EndKnows, Before, Linked, Synced, Holding
<1> QED
  BY <1>1, <1>2, <1>3 DEF MeasurementInv

\* Every step keeps the invariant ...
LEMMA MeasurementStep ==
  ASSUME Alone, MeasurementInv, [Next]_vars PROVE MeasurementInv'
<1>1. ASSUME NEW p \in Proc, Step(p) PROVE MeasurementInv'
  <2>1. TypeOK'
    BY <1>1, StepTypes
  <2> QED
    BY <1>1, <2>1, LookingKeeps, CleanupKeeps, LinkKeeps, RewritingKeeps, SyncingKeeps,
       CreateKeeps, RemoveKeeps, ForgetKeeps DEF Step
<1>2. CASE UNCHANGED vars
  BY <1>2 DEF vars, diskVars, dockerVars, localVars, MeasurementInv, TypeOK, Aside, Global, Drawn,
     OneEach, NoOrphan, Placed, Answered, Knows, MeasurerKnows, CleanerKnows, EndKnows, None,
     Active, Measuring, CleaningUp
<1>3. CASE \E p \in Proc : \/ StartMeasuring(p) \/ Crash(p)
                           \/ \E sure \in BOOLEAN : StartCleanup(p, sure)
  <2>1. TypeOK'
    BY <1>3, OtherTypes DEF MeasurementInv
  <2> QED
    BY <1>3, <2>1, StartMeasuringKeeps, CrashKeeps, StartCleanupKeeps
<1>4. CASE \/ \E r \in requests : DaemonCreates(r) \/ DaemonRefuses(r)
           \/ \E e \in Engine : EngineRestarts(e) \/ Repoint(e)
           \/ PointAtJournal \/ PowerLoss
  <2>1. TypeOK'
    BY <1>4, OtherTypes DEF MeasurementInv
  <2> QED
    BY <1>4, <2>1, DaemonKeeps, RepointKeeps, PowerLossKeeps
<1> QED
  BY <1>1, <1>2, <1>3, <1>4 DEF Next

\* ... so it holds always.
LEMMA MeasurementInvariant == ASSUME Alone PROVE Spec => []MeasurementInv
<1>1. MeasurementInv /\ [Next]_vars => MeasurementInv'
  BY MeasurementStep
<1> QED
  BY <1>1, InitMeasurement, PTL DEF Spec

\* TypeOK holds of every behaviour.
THEOREM MeasurementTypes == ASSUME Alone PROVE Spec => []TypeOK
<1>1. MeasurementInv => TypeOK
  BY DEF MeasurementInv
<1> QED
  BY <1>1, MeasurementInvariant, PTL

\* NoOrphan: no container of a measurement and no request for one is ever without a
\* journal that names it.
THEOREM MeasurementNamed == ASSUME Alone PROVE Spec => []NoOrphan
<1>1. MeasurementInv => NoOrphan
  BY DEF MeasurementInv, Global
<1> QED
  BY <1>1, MeasurementInvariant, PTL

\* EvidenceLast: when evidence is published nothing is left of its measurement.
THEOREM PublishedLast == ASSUME Alone PROVE Spec => EvidenceLast
<1> DEFINE Last ==
      evidence' # evidence =>
        /\ \A n \in containers \cup requests : n.tok # evidence'
        /\ \A j \in {journal, durable} \ {NoJournal} : j.tok # evidence'
<1>1. ASSUME MeasurementInv, [Next]_vars PROVE [Last]_vars
  <2> SUFFICES ASSUME evidence' # evidence PROVE Last
    OBVIOUS
  <2>1. PICK p \in Proc : Publish(p)
    <3>1. ASSUME NEW p \in Proc, Step(p) PROVE Publish(p)
      BY <3>1 DEF Step, Identify, Link, Unlink, Sync, Create, Reply, Confirm, ConfirmSync, Export,
         Find, Load, Compare, Inspect, Remove, Forget, ForgetSync, diskVars
    <3>2. \E p \in Proc : Step(p)
      BY <1>1 DEF Next, StartMeasuring, Crash, StartCleanup, DaemonCreates, DaemonRefuses,
         EngineRestarts, Repoint, PointAtJournal, PowerLoss, diskVars, vars
    <3> QED
      BY <3>1, <3>2
  <2>2. pc[p] = "publish" /\ evidence' = tok[p]
    BY <2>1 DEF Publish
  <2> QED
    BY <1>1, <2>2 DEF MeasurementInv, Knows, EndKnows, None, Active
<1> QED
  BY <1>1, MeasurementInvariant, PTL DEF Spec, EvidenceLast

=============================================================================
